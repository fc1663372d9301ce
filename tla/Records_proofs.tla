--------------------------- MODULE Records_proofs ---------------------------
(***************************************************************************)
(* The records of Decisions, for any files, folders and days: the layers   *)
(* of the configuration, the index of skills, the traces, the statistics   *)
(* of the ledgers, the dates and the commands. As in Decisions_proofs, a   *)
(* loop is a fold and a fold is turned into a row of steps.                *)
(***************************************************************************)
EXTENDS Decisions_proofs

-----------------------------------------------------------------------------
(* The assertions on a trace                                               *)

\* A sequence made of the steps of a type among the first n, in their order; f says
\* which step each of its elements is.
IsChoice(kept, m, f, steps, type, n) ==
    /\ f \in [1..m -> 1..n]
    /\ \A k \in 1..m : kept[k] = steps[f[k]] /\ steps[f[k]].type = type
    /\ \A k, l \in 1..m : k < l => f[k] < f[l]
    /\ \A j \in 1..n : steps[j].type = type => \E k \in 1..m : f[k] = j

\* One step more.
LEMMA ChoiceGrows ==
    ASSUME NEW A, NEW kept \in Seq(A), NEW m \in Nat, m = Len(kept), NEW steps, NEW type, NEW n \in Nat, NEW f,
           IsChoice(kept, m, f, steps, type, n), steps[n + 1] \in A
    PROVE  IF steps[n + 1].type = type
           THEN \E g : IsChoice(Append(kept, steps[n + 1]), m + 1, g, steps, type, n + 1)
           ELSE IsChoice(kept, m, f, steps, type, n + 1)
  <1>0. /\ 1..n + 1 = (1..n) \cup {n + 1} /\ 1..m + 1 = (1..m) \cup {m + 1}
        /\ n + 1 \notin 1..n /\ m + 1 \notin 1..m /\ n + 1 \in Nat /\ m + 1 \in Nat
        /\ (\A j \in 1..n : j < n + 1) /\ (\A k \in 1..m : ~(m + 1 < k) /\ k < m + 1) /\ ~(m + 1 < m + 1)
    OBVIOUS
  <1>1. CASE steps[n + 1].type = type
    <2> DEFINE g == [k \in 1..m + 1 |-> IF k = m + 1 THEN n + 1 ELSE f[k]]
    <2>1. g[m + 1] = n + 1 /\ \A k \in 1..m : g[k] = f[k]
      BY <1>0, Zenon
    <2>2. \A k \in 1..m : f[k] \in 1..n
      BY Zenon DEF IsChoice
    <2>3. g \in [1..m + 1 -> 1..n + 1]
      BY <1>0, <2>2, Zenon
    <2> HIDE DEF g
    <2>4. PICK x : x = steps[n + 1]
      OBVIOUS
    <2>5. PICK more : more = Append(kept, x)
      OBVIOUS
    <2>6. more[m + 1] = x /\ \A k \in 1..m : more[k] = kept[k]
      <3>1. x \in A
        BY <2>4
      <3> QED
        BY <2>5, <3>1
    <2>7. \A k \in 1..m + 1 : more[k] = steps[g[k]] /\ steps[g[k]].type = type
      BY <1>0, <1>1, <2>1, <2>4, <2>6, Zenon DEF IsChoice
    <2>8. \A k, l \in 1..m + 1 : k < l => g[k] < g[l]
      <3> TAKE k, l \in 1..m + 1
      <3> HAVE k < l
      <3>1. k \in 1..m
        BY <1>0
      <3>2. CASE l \in 1..m
        BY <2>1, <3>1, <3>2, Zenon DEF IsChoice
      <3>3. CASE l = m + 1
        <4>1. f[k] < n + 1 /\ g[k] = f[k]
          BY <1>0, <2>1, <2>2, <3>1, Zenon
        <4>2. g[l] = n + 1
          BY <2>1, <3>3, Zenon
        <4> QED
          BY <4>1, <4>2, Zenon
      <3> QED
        BY <1>0, <3>2, <3>3, Zenon
    <2>9. \A j \in 1..n + 1 : steps[j].type = type => \E k \in 1..m + 1 : g[k] = j
      BY <1>0, <2>1, Zenon DEF IsChoice
    <2>10. IsChoice(more, m + 1, g, steps, type, n + 1)
      BY <2>3, <2>7, <2>8, <2>9, Zenon DEF IsChoice
    <2> QED
      BY <1>1, <2>4, <2>5, <2>10, Zenon
  <1>2. CASE steps[n + 1].type # type
    <2>1. f \in [1..m -> 1..n + 1]
      BY <1>0 DEF IsChoice
    <2>2. \A j \in 1..n + 1 : steps[j].type = type => \E k \in 1..m : f[k] = j
      BY <1>0, <1>2, Zenon DEF IsChoice
    <2>3. IsChoice(kept, m, f, steps, type, n + 1)
      BY <2>1, <2>2, Zenon DEF IsChoice
    <2> QED
      BY <1>2, <2>3, Zenon
  <1> QED
    BY <1>1, <1>2

\* The steps of a type.
LEMMA TypeIsChoice ==
    ASSUME NEW A, NEW steps \in Seq(A), NEW type
    PROVE  \E m \in Nat : \E f :
              /\ Len(Harness!OfType(steps, type)) = m /\ DOMAIN Harness!OfType(steps, type) = 1..m
              /\ IsChoice(Harness!OfType(steps, type), m, f, steps, type, Len(steps))
  <1>1. PICK n \in Nat : n = Len(steps) /\ \A i \in 1..n : steps[i] \in A
    OBVIOUS
  <1>2. PICK z : z = Harness!OfType(steps, type)
    OBVIOUS
  <1>3. PICK r : /\ r[0] = <<>> /\ r[n] = z
                 /\ \A i \in 1..n : r[i] = Op("type", type, steps, i, r[i - 1])
    <2>1. Walks("type", type, <<>>, steps, n, z)
      BY <1>1, <1>2, TypeWalks
    <2> QED
      BY <2>1, Zenon DEF Walks
  <1> DEFINE Good(kept, i) == kept \in Seq(A) /\ \E f : IsChoice(kept, Len(kept), f, steps, type, i)
             P == {i \in 0..n : Good(r[i], i)}
  <1>4. 0 \in P
    <2>1. <<>> \in Seq(A) /\ Len(<<>>) = 0
      OBVIOUS
    <2>2. 1..0 = {} /\ 0 \in 0..n
      OBVIOUS
    <2>3. [k \in {} |-> 0] \in [{} -> {}]
      OBVIOUS
    <2>4. IsChoice(<<>>, 0, [k \in {} |-> 0], steps, type, 0)
      BY <2>2, <2>3, Zenon DEF IsChoice
    <2> QED
      BY <1>3, <2>1, <2>2, <2>4, Zenon
  <1>5. ASSUME NEW i \in 0..n, i < n, i \in P PROVE i + 1 \in P
    <2>1a. PICK kept \in Seq(A) : \E f : kept = r[i] /\ IsChoice(kept, Len(kept), f, steps, type, i)
      BY <1>5, Zenon
    <2>1. PICK f : kept = r[i] /\ IsChoice(kept, Len(kept), f, steps, type, i)
      BY <2>1a, Zenon
    <2>2. i \in Nat /\ i + 1 \in 1..n /\ i + 1 \in 0..n /\ (i + 1) - 1 = i
      BY <1>5, NextIn
    <2>3. PICK m \in Nat : m = Len(kept)
      OBVIOUS
    <2>4. PICK x \in A : x = steps[i + 1]
      BY <1>1, <2>2, Zenon
    <2>5. IF steps[i + 1].type = type
          THEN \E g : IsChoice(Append(kept, steps[i + 1]), m + 1, g, steps, type, i + 1)
          ELSE IsChoice(kept, m, f, steps, type, i + 1)
      BY <2>1, <2>2, <2>3, <2>4, ChoiceGrows
    <2>6. r[i + 1] = IF x.type = type THEN Append(kept, x) ELSE kept
      BY <1>3, <2>1, <2>2, <2>4, Zenon DEF Op
    <2>7. Append(kept, x) \in Seq(A) /\ Len(Append(kept, x)) = m + 1
      BY <2>3
    <2>8. CASE x.type = type
      <3>1. r[i + 1] = Append(kept, x)
        BY <2>6, <2>8, Zenon
      <3>2. \E g : IsChoice(Append(kept, x), m + 1, g, steps, type, i + 1)
        BY <2>4, <2>5, <2>8, Zenon
      <3>3. Good(r[i + 1], i + 1)
        BY <2>7, <3>1, <3>2, Zenon
      <3> QED
        BY <2>2, <3>3, Zenon
    <2>9. CASE x.type # type
      <3>1. r[i + 1] = kept
        BY <2>6, <2>9, Zenon
      <3>2. IsChoice(kept, m, f, steps, type, i + 1)
        BY <2>4, <2>5, <2>9, Zenon
      <3>3. Good(r[i + 1], i + 1)
        BY <2>3, <3>1, <3>2, Zenon
      <3> QED
        BY <2>2, <3>3, Zenon
    <2> QED
      BY <2>8, <2>9
  <1>6. n \in P
    <2>1. n \in 0..n
      OBVIOUS
    <2> HIDE DEF P
    <2> QED
      BY <1>4, <1>5, <2>1, Induction, Zenon
  <1>7a. PICK y \in Seq(A) : \E f : y = z /\ IsChoice(y, Len(y), f, steps, type, n)
    BY <1>3, <1>6, Zenon
  <1>7. PICK f : y = z /\ IsChoice(y, Len(y), f, steps, type, n)
    BY <1>7a, Zenon
  <1>8. Len(y) \in Nat /\ DOMAIN y = 1..Len(y)
    OBVIOUS
  <1> QED
    BY <1>1, <1>2, <1>7, <1>8, Zenon

\* The first call of a tool.
LEMMA FirstCall ==
    ASSUME NEW calls, NEW m \in Nat, DOMAIN calls = 1..m, NEW tool
    PROVE  \/ /\ Harness!First(calls, tool) = 0
              /\ \A k \in 1..m : calls[k].tool # tool
           \/ /\ Harness!First(calls, tool) \in 1..m
              /\ calls[Harness!First(calls, tool)].tool = tool
              /\ \A k \in 1..m : calls[k].tool = tool => Harness!First(calls, tool) <= k
  <1> DEFINE at == {k \in DOMAIN calls : calls[k].tool = tool}
  <1>1. Harness!First(calls, tool) = IF at = {} THEN 0 ELSE CHOOSE i \in at : \A j \in at : i <= j
    BY Zenon DEF Harness!First
  <1>2. CASE at = {}
    BY <1>1, <1>2, Zenon
  <1>3. CASE at # {}
    <2>1. at \in SUBSET Nat
      OBVIOUS
    <2> HIDE DEF at
    <2>2. \E i \in at : \A j \in at : i <= j
      BY <1>3, <2>1, LeastNat, Zenon
    <2>3. PICK i : i = Harness!First(calls, tool)
      OBVIOUS
    <2>4. i \in at /\ \A j \in at : i <= j
      BY <1>1, <1>3, <2>2, <2>3, Zenon
    <2> QED
      BY <2>3, <2>4, Zenon DEF at
  <1> QED
    BY <1>2, <1>3

\* A call is before another exactly where it is so in the trace.
LEMMA OrderIsExact ==
    ASSUME NEW A, NEW steps \in Seq(A), NEW before, NEW after
    PROVE  Harness!Ordered(steps, before, after) <=> Harness!Precedes(steps, before, after)
  <1>1. PICK n \in Nat : n = Len(steps) /\ DOMAIN steps = 1..n
    OBVIOUS
  <1>2. PICK calls : calls = Harness!Calls(steps)
    OBVIOUS
  <1>3a. PICK m \in Nat : \E f : DOMAIN calls = 1..m /\ IsChoice(calls, m, f, steps, "tool_call", n)
    BY <1>1, <1>2, TypeIsChoice, Zenon DEF Harness!Calls
  <1>3. PICK f : DOMAIN calls = 1..m /\ IsChoice(calls, m, f, steps, "tool_call", n)
    BY <1>3a, Zenon
  <1>4. PICK a : a = Harness!First(calls, before)
    OBVIOUS
  <1>5. PICK b : b = Harness!First(calls, after)
    OBVIOUS
  <1>6. \/ a = 0 /\ \A k \in 1..m : calls[k].tool # before
        \/ a \in 1..m /\ calls[a].tool = before /\ \A k \in 1..m : calls[k].tool = before => a <= k
    BY <1>3, <1>4, FirstCall, Zenon
  <1>7. \/ b = 0 /\ \A k \in 1..m : calls[k].tool # after
        \/ b \in 1..m /\ calls[b].tool = after /\ \A k \in 1..m : calls[k].tool = after => b <= k
    BY <1>3, <1>5, FirstCall, Zenon
  <1>8. Harness!Ordered(steps, before, after) <=> b = 0 \/ (a # 0 /\ a < b)
    BY <1>2, <1>4, <1>5, Zenon DEF Harness!Ordered
  <1>9. Harness!Precedes(steps, before, after) <=>
            \A j \in 1..n : steps[j].type = "tool_call" /\ steps[j].tool = after =>
                \E i \in 1..j - 1 : steps[i].type = "tool_call" /\ steps[i].tool = before
    BY <1>1, Zenon DEF Harness!Precedes
  <1>10. /\ \A k \in 1..m : f[k] \in 1..n /\ calls[k] = steps[f[k]] /\ steps[f[k]].type = "tool_call"
         /\ \A k, l \in 1..m : k < l => f[k] < f[l]
         /\ \A j \in 1..n : steps[j].type = "tool_call" => \E k \in 1..m : f[k] = j
    BY <1>3, Zenon DEF IsChoice
  <1>11. 0 \notin 1..m
    OBVIOUS
  <1>12. ASSUME Harness!Ordered(steps, before, after), NEW j \in 1..n, steps[j].type = "tool_call", steps[j].tool = after
         PROVE  \E i \in 1..j - 1 : steps[i].type = "tool_call" /\ steps[i].tool = before
    <2>1. PICK k \in 1..m : f[k] = j
      BY <1>10, <1>12, Zenon
    <2>2. calls[k].tool = after
      BY <1>10, <1>12, <2>1, Zenon
    <2>3. b \in 1..m /\ b <= k
      BY <1>7, <2>2, Zenon
    <2>4. a \in 1..m /\ a < b /\ calls[a].tool = before
      BY <1>6, <1>8, <1>11, <1>12, <2>3, Zenon
    <2>5. a < k
      BY <2>3, <2>4
    <2>6. f[a] < j /\ f[a] \in 1..n
      BY <1>10, <2>1, <2>4, <2>5, Zenon
    <2>7. f[a] \in 1..j - 1
      BY <2>6
    <2>8. steps[f[a]].type = "tool_call" /\ steps[f[a]].tool = before
      BY <1>10, <2>4, Zenon
    <2> QED
      BY <2>7, <2>8, Zenon
  <1>13. ASSUME Harness!Precedes(steps, before, after), b # 0 PROVE a # 0 /\ a < b
    <2>1. b \in 1..m /\ calls[b].tool = after
      BY <1>7, <1>13, Zenon
    <2>2. PICK j \in 1..n : j = f[b] /\ steps[j].type = "tool_call" /\ steps[j].tool = after
      BY <1>10, <2>1, Zenon
    <2>3. PICK i \in 1..j - 1 : steps[i].type = "tool_call" /\ steps[i].tool = before
      BY <1>9, <1>13, <2>2, Zenon
    <2>4. i \in 1..n /\ i < j /\ ~(j < i) /\ i # j
      BY <2>3
    <2>5. PICK k \in 1..m : f[k] = i
      BY <1>10, <2>3, <2>4, Zenon
    <2>6. calls[k].tool = before
      BY <1>10, <2>3, <2>5, Zenon
    <2>7. ~(b < k) /\ b # k
      BY <1>10, <2>1, <2>2, <2>4, <2>5, Zenon
    <2>8. a \in 1..m /\ a <= k
      BY <1>6, <2>6, Zenon
    <2>9. k < b
      BY <2>1, <2>7
    <2> QED
      BY <2>1, <2>8, <2>9
  <1> QED
    BY <1>8, <1>9, <1>12, <1>13, Zenon

\* Two calls follow each other exactly where no other is between them in the trace.
LEMMA RepeatsAreExact ==
    ASSUME NEW A, NEW steps \in Seq(A)
    PROVE  Harness!Consecutive(steps) <=> Harness!RepeatsFailure(steps)
  <1>1. PICK n \in Nat : n = Len(steps) /\ DOMAIN steps = 1..n
    OBVIOUS
  <1>2. PICK calls : calls = Harness!Calls(steps)
    OBVIOUS
  <1>3a. PICK m \in Nat : \E f : Len(calls) = m /\ IsChoice(calls, m, f, steps, "tool_call", n)
    BY <1>1, <1>2, TypeIsChoice, Zenon DEF Harness!Calls
  <1>3. PICK f : Len(calls) = m /\ IsChoice(calls, m, f, steps, "tool_call", n)
    BY <1>3a, Zenon
  <1> DEFINE Same(x, y) == /\ x.tool = y.tool /\ x.args = y.args
                           /\ Harness!Failed(steps, x.id) /\ Harness!Failed(steps, y.id)
  <1>4. Harness!Consecutive(steps) <=> \E k \in 1..m - 1 : Same(calls[k], calls[k + 1])
    BY <1>2, <1>3, Zenon DEF Harness!Consecutive
  <1>5. Harness!RepeatsFailure(steps) <=>
            \E i, j \in 1..n :
                /\ i < j /\ steps[i].type = "tool_call" /\ steps[j].type = "tool_call"
                /\ \A k \in i + 1..j - 1 : steps[k].type # "tool_call"
                /\ Same(steps[i], steps[j])
    BY <1>1, Zenon DEF Harness!RepeatsFailure
  <1> HIDE DEF Same
  <1>6. /\ \A k \in 1..m : f[k] \in 1..n /\ calls[k] = steps[f[k]] /\ steps[f[k]].type = "tool_call"
        /\ \A k, l \in 1..m : k < l => f[k] < f[l]
        /\ \A j \in 1..n : steps[j].type = "tool_call" => \E k \in 1..m : f[k] = j
    BY <1>3, Zenon DEF IsChoice
  <1>7. ASSUME NEW k \in 1..m - 1, Same(calls[k], calls[k + 1]) PROVE Harness!RepeatsFailure(steps)
    <2>1. k \in 1..m /\ k + 1 \in 1..m /\ k < k + 1
      OBVIOUS
    <2>2. PICK i \in 1..n, j \in 1..n : i = f[k] /\ j = f[k + 1]
      BY <1>6, <2>1, Zenon
    <2>3. i < j /\ steps[i].type = "tool_call" /\ steps[j].type = "tool_call" /\ Same(steps[i], steps[j])
      BY <1>6, <1>7, <2>1, <2>2, Zenon
    <2>4. ASSUME NEW x \in i + 1..j - 1, steps[x].type = "tool_call" PROVE FALSE
      <3>1. x \in 1..n /\ i < x /\ x < j /\ ~(x < i) /\ ~(j < x) /\ x # i /\ x # j
        BY <2>4
      <3>2. PICK l \in 1..m : f[l] = x
        BY <1>6, <2>4, <3>1, Zenon
      <3>3. ~(l < k) /\ ~(k + 1 < l) /\ l # k /\ l # k + 1
        BY <1>6, <2>1, <2>2, <3>1, <3>2, Zenon
      <3> QED
        BY <3>3
    <2> QED
      BY <1>5, <2>3, <2>4, Zenon
  <1>8. ASSUME NEW i \in 1..n, NEW j \in 1..n, i < j, steps[i].type = "tool_call", steps[j].type = "tool_call",
               \A k \in i + 1..j - 1 : steps[k].type # "tool_call", Same(steps[i], steps[j])
        PROVE  Harness!Consecutive(steps)
    <2>1. PICK k \in 1..m, l \in 1..m : f[k] = i /\ f[l] = j
      BY <1>6, <1>8, Zenon
    <2>2. ~(j < i) /\ i # j
      BY <1>8
    <2>3. ~(l < k) /\ l # k
      BY <1>6, <2>1, <2>2, Zenon
    <2>4. k + 1 \in 1..m /\ k < k + 1 /\ k \in 1..m - 1 /\ (l = k + 1 \/ k + 1 < l)
      BY <2>3
    <2>5. CASE k + 1 < l
      <3>1. f[k + 1] \in 1..n /\ i < f[k + 1] /\ f[k + 1] < j /\ steps[f[k + 1]].type = "tool_call"
        BY <1>6, <2>1, <2>4, <2>5, Zenon
      <3>2. f[k + 1] \in i + 1..j - 1
        BY <3>1
      <3> QED
        BY <1>8, <3>1, <3>2, Zenon
    <2>6. CASE l = k + 1
      <3>1. Same(calls[k], calls[k + 1])
        BY <1>6, <1>8, <2>1, <2>6, Zenon
      <3> QED
        BY <1>4, <2>4, <3>1, Zenon
    <2> QED
      BY <2>4, <2>5, <2>6
  <1> QED
    BY <1>4, <1>5, <1>7, <1>8, Zenon

\* The assertions mean what they say of every call.
LEMMA AssertionsAreExact ==
    ASSUME NEW A, NEW steps \in Seq(A)
    PROVE  Harness!AssertionsExact(steps)
  <1>1. Harness!Holds("read_before_edit", steps) = Harness!Ordered(steps, "read_file", "edit_file")
    BY DEF Harness!Holds
  <1>2. Harness!Holds("edit_before_bash", steps) = Harness!Ordered(steps, "edit_file", "bash")
    BY DEF Harness!Holds
  <1>3. Harness!Holds("no_repeated_failure", steps) = ~Harness!Consecutive(steps)
    BY DEF Harness!Holds
  <1>4. Harness!Ordered(steps, "read_file", "edit_file") = Harness!Precedes(steps, "read_file", "edit_file")
    <2>1. Harness!Ordered(steps, "read_file", "edit_file") <=> Harness!Precedes(steps, "read_file", "edit_file")
      BY OrderIsExact
    <2> QED
      BY <2>1 DEF Harness!Ordered, Harness!Precedes
  <1>5. Harness!Ordered(steps, "edit_file", "bash") = Harness!Precedes(steps, "edit_file", "bash")
    <2>1. Harness!Ordered(steps, "edit_file", "bash") <=> Harness!Precedes(steps, "edit_file", "bash")
      BY OrderIsExact
    <2> QED
      BY <2>1 DEF Harness!Ordered, Harness!Precedes
  <1>6. (~Harness!Consecutive(steps)) = ~Harness!RepeatsFailure(steps)
    BY RepeatsAreExact
  <1> QED
    BY <1>1, <1>2, <1>3, <1>4, <1>5, <1>6, Zenon DEF Harness!AssertionsExact

-----------------------------------------------------------------------------
(* The index of skills                                                     *)

\* A flattened sequence of sequences.
LEMMA FlattenIn ==
    ASSUME NEW A, NEW s \in Seq(Seq(A))
    PROVE  Config!FlattenSeq(s) \in Seq(A)
  <1>1. PICK n \in Nat : n = Len(s) /\ \A i \in 1..n : s[i] \in Seq(A)
    OBVIOUS
  <1>2. PICK z : z = Config!FlattenSeq(s)
    OBVIOUS
  <1>3. PICK r : /\ r[0] = <<>> /\ r[n] = z
                 /\ \A i \in 1..n : r[i] = Op("flatten", 0, s, i, r[i - 1])
    <2>1. Walks("flatten", 0, <<>>, s, Len(s), Config!FlattenSeq(s))
      BY FlattenWalks
    <2>2. Walks("flatten", 0, <<>>, s, n, z)
      BY <1>1, <1>2, <2>1, Zenon
    <2> QED
      BY <2>2, Zenon DEF Walks
  <1> DEFINE P == {i \in 0..n : r[i] \in Seq(A)}
  <1>4. 0 \in P
    <2>1. <<>> \in Seq(A) /\ 0 \in 0..n
      OBVIOUS
    <2> QED
      BY <1>3, <2>1, Zenon
  <1>5. ASSUME NEW i \in 0..n, i < n, i \in P PROVE i + 1 \in P
    <2>1. i + 1 \in 1..n /\ i + 1 \in 0..n /\ (i + 1) - 1 = i
      BY <1>5, NextIn
    <2>2. PICK u \in Seq(A), v \in Seq(A) : u = r[i] /\ v = s[i + 1]
      BY <1>1, <1>5, <2>1, Zenon
    <2>3. r[i + 1] = u \o v
      BY <1>3, <2>1, <2>2, Zenon DEF Op
    <2>4. u \o v \in Seq(A)
      OBVIOUS
    <2> QED
      BY <2>1, <2>3, <2>4, Zenon
  <1>6. n \in P
    <2>1. n \in 0..n
      OBVIOUS
    <2> HIDE DEF P
    <2> QED
      BY <1>4, <1>5, <2>1, Induction, Zenon
  <1> QED
    BY <1>2, <1>3, <1>6, Zenon

\* A function on the first numbers is a sequence.
LEMMA ListOf ==
    ASSUME NEW A, NEW m \in Nat, NEW f \in [1..m -> A]
    PROVE  f \in Seq(A) /\ Len(f) = m
  <1>1. f \in Seq(A)
    OBVIOUS
  <1>2. DOMAIN f = 1..m
    OBVIOUS
  <1> QED
    BY <1>1, <1>2, LenProperties

\* The elements of a set with at most one as a sequence.
LEMMA ListOfOne ==
    ASSUME NEW x
    PROVE  Config!SetToSeq({}) = <<>> /\ Config!SetToSeq({x}) = <<x>>
  <1>1. \A S : Config!Cardinality(S) = Cardinality(S)
    BY Zenon DEF Config!Cardinality, Cardinality
  <1>2. Cardinality({}) = 0 /\ Cardinality({x}) = 1
    BY FS_EmptySet, FS_Singleton
  <1>3. PICK p : p = Config!SetToSeq({})
    OBVIOUS
  <1>4. PICK q : q = Config!SetToSeq({x})
    OBVIOUS
  <1>5. p = <<>>
    <2>1. 1..0 = {}
      OBVIOUS
    <2>2. p = CHOOSE f \in [1..0 -> {}] : Config!IsInjective(f)
      BY <1>1, <1>2, <1>3, Zenon DEF Config!SetToSeq
    <2>3. \E f \in [1..0 -> {}] : Config!IsInjective(f)
      <3>1. PICK f : f = [k \in {} |-> 0]
        BY Zenon
      <3>2. f \in [{} -> {}] /\ DOMAIN f = {}
        BY <3>1, Zenon
      <3>3. Config!IsInjective(f)
        BY <3>2, Zenon DEF Config!IsInjective
      <3> QED
        BY <2>1, <3>2, <3>3, Zenon
    <2>4. p \in [1..0 -> {}]
      BY <2>2, <2>3, Zenon
    <2>5. p \in Seq({}) /\ Len(p) = 0
      BY <2>4, ListOf
    <2> QED
      BY <2>5
  <1>6. q = <<x>>
    <2>1. q = CHOOSE f \in [1..1 -> {x}] : Config!IsInjective(f)
      BY <1>1, <1>2, <1>4, Zenon DEF Config!SetToSeq
    <2>2. \E f \in [1..1 -> {x}] : Config!IsInjective(f)
      <3>1. PICK f : f = [k \in 1..1 |-> x]
        BY Zenon
      <3>2. f \in [1..1 -> {x}] /\ DOMAIN f = 1..1
        BY <3>1, Zenon
      <3>3. \A a \in 1..1 : a = 1
        BY SMT
      <3>4. \A a, b \in DOMAIN f : a = b
        BY <3>2, <3>3, Zenon
      <3>5. Config!IsInjective(f)
        BY <3>4, Zenon DEF Config!IsInjective
      <3> QED
        BY <3>2, <3>5, Zenon
    <2>3. q \in [1..1 -> {x}]
      BY <2>1, <2>2, Zenon
    <2>4. q \in Seq({x}) /\ Len(q) = 1
      BY <2>3, ListOf
    <2>5. q[1] = x
      <3>1. 1 \in 1..1
        OBVIOUS
      <3> QED
        BY <2>3, <3>1, Zenon
    <2>6. q = <<q[1]>>
      BY <2>4, OneOf
    <2> QED
      BY <2>5, <2>6, Zenon
  <1> QED
    BY <1>3, <1>4, <1>5, <1>6

\* The front matter of a file: there is none, and no line describes anything, or it
\* is what is between two rules, and what describes is in it.
IsFront(lines, n, fm, o, c) ==
    /\ o \in 1..n /\ c \in 1..n /\ o < c
    /\ Len(fm) = c - 1 - o /\ DOMAIN fm = 1..c - 1 - o
    /\ \A k \in 1..c - 1 - o : fm[k] = lines[o + k]
    /\ \A j \in 1..o - 1 : Config!Kind(lines[j]) = "blank"
    /\ Config!Kind(lines[o]) = "rule" /\ Config!Kind(lines[c]) = "rule"
    /\ \A j \in o + 1..c - 1 : Config!Kind(lines[j]) # "rule"

\* Lines have a front matter, with the rules around it, or nothing that describes.
LEMMA FrontOf ==
    ASSUME NEW L, NEW lines \in Seq(L), NEW folder, folder.lines = lines, NEW n \in Nat, n = Len(lines)
    PROVE  \/ /\ Config!Frontmatter(lines) = <<>>
              /\ \A i \in 1..n : ~Config!Describes(folder, i)
           \/ \E o, c \in 1..n : IsFront(lines, n, Config!Frontmatter(lines), o, c)
  <1>0. DOMAIN lines = 1..n
    OBVIOUS
  <1> DEFINE full == {i \in DOMAIN lines : Config!Kind(lines[i]) # "blank"}
  <1> DEFINE o == CHOOSE i \in full : \A j \in full : i <= j
  <1> DEFINE close == {i \in o + 1..Len(lines) : Config!Kind(lines[i]) = "rule"}
  <1> DEFINE c == CHOOSE i \in close : \A j \in close : i <= j
  <1>1. o = CHOOSE i \in full : \A j \in full : i <= j
    BY Zenon
  <1>2. c = CHOOSE i \in close : \A j \in close : i <= j
    BY Zenon
  <1>3. Config!Frontmatter(lines) =
            IF full = {} \/ Config!Kind(lines[o]) # "rule" \/ close = {} THEN <<>> ELSE SubSeq(lines, o + 1, c - 1)
    BY Zenon DEF Config!Frontmatter
  <1> HIDE DEF o, c
  <1>4. full # {} => /\ o \in 1..n /\ Config!Kind(lines[o]) # "blank"
                     /\ \A j \in 1..n : Config!Kind(lines[j]) # "blank" => o <= j
    <2>1. full \in SUBSET Nat /\ \A i \in full : i \in 1..n /\ Config!Kind(lines[i]) # "blank"
      BY <1>0
    <2>2. \A j \in 1..n : Config!Kind(lines[j]) # "blank" => j \in full
      BY <1>0, Zenon
    <2> HIDE DEF full
    <2>3. full # {} => o \in full /\ \A j \in full : o <= j
      BY <1>1, <2>1, LeastNat, Zenon
    <2> QED
      BY <2>1, <2>2, <2>3, Zenon
  <1>5. full # {} /\ close # {} => /\ c \in o + 1..n /\ Config!Kind(lines[c]) = "rule"
                                   /\ \A j \in o + 1..n : Config!Kind(lines[j]) = "rule" => c <= j
    <2> SUFFICES ASSUME full # {} PROVE close # {} => /\ c \in o + 1..n /\ Config!Kind(lines[c]) = "rule"
                                   /\ \A j \in o + 1..n : Config!Kind(lines[j]) = "rule" => c <= j
      BY Zenon
    <2>0. PICK x \in Nat : x = o
      BY <1>4
    <2>1. \A j \in x + 1..n : j \in Nat
      OBVIOUS
    <2>2. \A j : j \in close <=> j \in x + 1..n /\ Config!Kind(lines[j]) = "rule"
      BY <2>0, Zenon
    <2>3. close \in SUBSET Nat
      BY <2>1, <2>2, Zenon
    <2> HIDE DEF close
    <2>4. close # {} => c \in close /\ \A j \in close : c <= j
      BY <1>2, <2>3, LeastNat, Zenon
    <2> QED
      BY <2>0, <2>2, <2>4, Zenon
  <1> HIDE DEF full, close
  <1>6. ASSUME NEW i \in 1..n, Config!Describes(folder, i)
        PROVE  full # {} /\ Config!Kind(lines[o]) = "rule" /\ close # {}
    <2>1. PICK a \in 1..n, b \in 1..n :
              /\ a < i /\ i < b
              /\ \A j \in 1..a - 1 : Config!Kind(lines[j]) = "blank"
              /\ {j \in a..b : Config!Kind(lines[j]) = "rule"} = {a, b}
      BY <1>0, <1>6, Zenon DEF Config!Describes
    <2>2. Config!Kind(lines[a]) = "rule" /\ Config!Kind(lines[b]) = "rule"
      BY <2>1, Zenon
    <2>3. full # {}
      BY <1>0, <2>2 DEF full
    <2>4. o \in 1..n /\ o <= a /\ Config!Kind(lines[o]) # "blank"
      BY <1>4, <2>2, <2>3
    <2>5. o = a
      <3>1. o \notin 1..a - 1
        BY <2>1, <2>4, Zenon
      <3> QED
        BY <2>4, <3>1
    <2>6. b \in o + 1..n
      BY <2>1, <2>5
    <2> QED
      BY <2>2, <2>3, <2>5, <2>6, Zenon DEF close
  <1>7. CASE full = {} \/ Config!Kind(lines[o]) # "rule" \/ close = {}
    BY <1>3, <1>6, <1>7, Zenon
  <1>8. CASE ~(full = {} \/ Config!Kind(lines[o]) # "rule" \/ close = {})
    <2>1. PICK a \in 1..n, b \in 1..n :
              /\ a = o /\ b = c /\ a < b /\ a + 1 \in Nat /\ b - 1 \in Nat /\ b - 1 - a \in Nat /\ b \in a + 1..n
      BY <1>4, <1>5, <1>8
    <2>2. PICK fm : fm = SubSeq(lines, a + 1, b - 1)
      OBVIOUS
    <2>3. Config!Frontmatter(lines) = fm
      BY <1>3, <1>8, <2>1, <2>2, Zenon
    <2>4. /\ Len(fm) = b - 1 - a /\ DOMAIN fm = 1..b - 1 - a
          /\ \A k \in 1..b - 1 - a : fm[k] = lines[a + k]
      <3>1. \A k \in a + 1..b - 1 : lines[k] \in L
        BY <2>1
      <3>2. fm \in Seq(L)
        BY <2>1, <2>2, <3>1, SubSeqProperties
      <3>3. Len(fm) = b - 1 - a
        BY <2>1, <2>2
      <3>4. DOMAIN fm = 1..b - 1 - a
        BY <3>2, <3>3
      <3>5. \A k \in 1..b - 1 - a : fm[k] = lines[a + k]
        BY <2>1, <2>2
      <3> QED
        BY <3>3, <3>4, <3>5
    <2>5. \A j \in 1..a - 1 : Config!Kind(lines[j]) = "blank"
      <3>1. \A j \in 1..a - 1 : j \in 1..n /\ ~(a <= j)
        BY <2>1
      <3> QED
        BY <1>4, <1>8, <2>1, <3>1, Zenon
    <2>6. \A j \in a + 1..b - 1 : Config!Kind(lines[j]) # "rule"
      <3>1. \A j \in a + 1..b - 1 : j \in a + 1..n /\ ~(b <= j)
        BY <2>1
      <3> QED
        BY <1>5, <1>8, <2>1, <3>1, Zenon
    <2>7. Config!Kind(lines[a]) = "rule" /\ Config!Kind(lines[b]) = "rule"
      BY <1>5, <1>8, <2>1, Zenon
    <2>8. IsFront(lines, n, fm, a, b)
      BY <2>1, <2>4, <2>5, <2>6, <2>7, Zenon DEF IsFront
    <2> QED
      BY <2>3, <2>8, Zenon
  <1> QED
    BY <1>7, <1>8

\* A line of the front matter that has a description is one that describes, and
\* there are no others.
InFront(folder, fm, n, o, c) ==
    /\ \A k \in 1..c - 1 - o :
          /\ o + k \in 1..n
          /\ Config!Kind(fm[k]) = "field" /\ fm[k].key = "description" => Config!Describes(folder, o + k)
    /\ \A i \in 1..n : Config!Describes(folder, i) =>
          \E k \in 1..c - 1 - o :
              i = o + k /\ Config!Kind(fm[k]) = "field" /\ fm[k].key = "description"

\* The description is looked for in the front matter and found where the folder has it.
LEMMA DescribesIs ==
    ASSUME NEW n \in Nat, NEW lines, DOMAIN lines = 1..n, NEW folder, folder.lines = lines,
           NEW fm, NEW o \in 1..n, NEW c \in 1..n, IsFront(lines, n, fm, o, c)
    PROVE  InFront(folder, fm, n, o, c)
  <1>1. /\ o < c /\ \A k \in 1..c - 1 - o : fm[k] = lines[o + k]
        /\ \A j \in 1..o - 1 : Config!Kind(lines[j]) = "blank"
        /\ Config!Kind(lines[o]) = "rule" /\ Config!Kind(lines[c]) = "rule"
        /\ \A j \in o + 1..c - 1 : Config!Kind(lines[j]) # "rule"
    BY Zenon DEF IsFront
  <1>2. {j \in o..c : Config!Kind(lines[j]) = "rule"} = {o, c}
    <2>1. o..c = {o, c} \cup (o + 1..c - 1)
      BY <1>1
    <2> QED
      BY <1>1, <2>1, Zenon
  <1>3. ASSUME NEW k \in 1..c - 1 - o
        PROVE  /\ o + k \in 1..n
               /\ Config!Kind(fm[k]) = "field" /\ fm[k].key = "description" => Config!Describes(folder, o + k)
    <2>1. o + k \in 1..n /\ o < o + k /\ o + k < c
      OBVIOUS
    <2>2. fm[k] = lines[o + k]
      BY <1>1, Zenon
    <2> QED
      BY <1>1, <1>2, <2>1, <2>2, Zenon DEF Config!Describes
  <1>4. ASSUME NEW i \in 1..n, Config!Describes(folder, i)
        PROVE  \E k \in 1..c - 1 - o :
                   i = o + k /\ Config!Kind(fm[k]) = "field" /\ fm[k].key = "description"
    <2>1. PICK a \in 1..n, b \in 1..n :
              /\ a < i /\ i < b
              /\ \A j \in 1..a - 1 : Config!Kind(lines[j]) = "blank"
              /\ {j \in a..b : Config!Kind(lines[j]) = "rule"} = {a, b}
              /\ Config!Kind(lines[i]) = "field" /\ lines[i].key = "description"
      BY <1>4, Zenon DEF Config!Describes
    <2>2. Config!Kind(lines[a]) = "rule" /\ Config!Kind(lines[b]) = "rule"
      BY <2>1, Zenon
    <2>3. a = o
      <3>1. a \notin 1..o - 1 /\ o \notin 1..a - 1
        <4>1. "blank" # "rule"
          OBVIOUS
        <4> QED
          BY <1>1, <2>1, <2>2, <4>1, Zenon
      <3> QED
        BY <3>1
    <2>4. b = c
      <3>1. b \notin o + 1..c - 1
        BY <1>1, <2>2, Zenon
      <3>2. c \in a..b => c = a \/ c = b
        BY <1>1, <2>1, Zenon
      <3> QED
        BY <1>1, <2>1, <2>3, <3>1, <3>2
    <2>5. PICK k \in 1..c - 1 - o : i = o + k
      <3>1. i - o \in 1..c - 1 - o /\ i = o + (i - o)
        BY <2>1, <2>3, <2>4
      <3> QED
        BY <3>1
    <2>6. fm[k] = lines[i]
      BY <1>1, <2>5, Zenon
    <2> QED
      BY <2>1, <2>5, <2>6, Zenon
  <1> QED
    BY <1>3, <1>4, Zenon DEF InFront

\* What one folder has.
LEMMA FoundIs ==
    ASSUME NEW folder \in Config!Folders
    PROVE  /\ Config!Found(folder) = {} \/ \E x : Config!Found(folder) = {x} /\ x.folder = folder.name
           /\ Config!Found(folder) # {} =>
                 \E l \in DOMAIN folder.lines : Config!Describes(folder, l) /\ folder.lines[l].value # ""
           /\ /\ \E l \in DOMAIN folder.lines : Config!Describes(folder, l)
              /\ \A l \in DOMAIN folder.lines : Config!Describes(folder, l) => folder.lines[l].value # ""
              => Config!Found(folder) # {}
  <1> DEFINE L == [kind : {"blank", "rule", "field", "text"}, key : STRING, value : STRING]
  <1>1. PICK lines \in Seq(L) : lines = folder.lines
    BY DEF Config!Folders
  <1>2. PICK n \in Nat : n = Len(lines) /\ DOMAIN lines = 1..n
    OBVIOUS
  <1> HIDE DEF L
  <1>3. PICK fm : fm = Config!Frontmatter(lines)
    OBVIOUS
  <1>4. PICK text : text = Config!Field(fm, "description")
    OBVIOUS
  <1>5. Config!Found(folder) # {} <=> text # ""
    BY <1>1, <1>3, <1>4, Zenon DEF Config!Found
  <1>6. Config!Found(folder) = {} \/ \E x : Config!Found(folder) = {x} /\ x.folder = folder.name
    <2>1. PICK name : Config!Found(folder) = IF text = "" THEN {} ELSE {[name |-> name, folder |-> folder.name]}
      BY <1>1, <1>3, <1>4, Zenon DEF Config!Found
    <2>2. [name |-> name, folder |-> folder.name].folder = folder.name
      OBVIOUS
    <2> QED
      BY <2>1, <2>2, Zenon
  <1> DEFINE with == {i \in DOMAIN fm : Config!Kind(fm[i]) = "field" /\ fm[i].key = "description"}
  <1>7. text = IF with = {} THEN "" ELSE fm[CHOOSE i \in with : \A j \in with : j <= i].value
    BY <1>4, Zenon DEF Config!Field
  <1>8. CASE fm = <<>> /\ \A i \in 1..n : ~Config!Describes(folder, i)
    <2>1. DOMAIN fm = {}
      BY <1>8
    <2>2. text = ""
      BY <1>7, <2>1, Zenon
    <2> QED
      BY <1>1, <1>2, <1>5, <1>6, <1>8, <2>2, Zenon
  <1>9. CASE \E o, c \in 1..n : IsFront(lines, n, fm, o, c)
    <2>1. PICK o \in 1..n, c \in 1..n : IsFront(lines, n, fm, o, c)
      BY <1>9, Zenon
    <2>2. PICK m \in Nat : m = c - 1 - o
      BY <2>1 DEF IsFront
    <2>3. DOMAIN fm = 1..m /\ \A k \in 1..m : fm[k] = lines[o + k]
      BY <2>1, <2>2, Zenon DEF IsFront
    <2>4. /\ \A k \in 1..m :
                 /\ o + k \in 1..n
                 /\ Config!Kind(fm[k]) = "field" /\ fm[k].key = "description" => Config!Describes(folder, o + k)
          /\ \A i \in 1..n : Config!Describes(folder, i) =>
                 \E k \in 1..m :
                     i = o + k /\ Config!Kind(fm[k]) = "field" /\ fm[k].key = "description"
      <3>1. folder.lines = lines /\ DOMAIN lines = 1..n
        BY <1>1, <1>2, Zenon
      <3>2. InFront(folder, fm, n, o, c)
        BY <2>1, <3>1, DescribesIs, Zenon
      <3> QED
        BY <2>2, <3>2, Zenon DEF InFront
    <2>5. with # {} => \E k \in with : text = fm[k].value
      <3>1. with \in SUBSET (1..m)
        BY <2>3, Zenon
      <3> HIDE DEF with
      <3>2. with # {} => \E i \in with : \A j \in with : j <= i
        BY <3>1, LastIn
      <3> QED
        BY <1>7, <3>2, Zenon
    <2>6. ASSUME text # ""
          PROVE  \E l \in DOMAIN lines : Config!Describes(folder, l) /\ lines[l].value # ""
      <3>1. with # {}
        BY <1>7, <2>6, Zenon
      <3>2. PICK k \in 1..m : Config!Kind(fm[k]) = "field" /\ fm[k].key = "description" /\ text = fm[k].value
        BY <2>3, <2>5, <3>1, Zenon
      <3>3. PICK l : l = o + k /\ l \in 1..n /\ Config!Describes(folder, l)
        BY <2>4, <3>2, Zenon
      <3>4. fm[k] = lines[l]
        BY <2>3, <3>3, Zenon
      <3> QED
        BY <1>2, <2>6, <3>2, <3>3, <3>4, Zenon
    <2>7. ASSUME \E l \in DOMAIN lines : Config!Describes(folder, l),
                 \A l \in DOMAIN lines : Config!Describes(folder, l) => lines[l].value # ""
          PROVE  text # ""
      <3>1. with # {}
        BY <1>2, <2>3, <2>4, <2>7, Zenon
      <3>2. PICK k \in 1..m : Config!Kind(fm[k]) = "field" /\ fm[k].key = "description" /\ text = fm[k].value
        BY <2>3, <2>5, <3>1, Zenon
      <3>3. PICK l : l = o + k /\ l \in 1..n /\ Config!Describes(folder, l)
        BY <2>4, <3>2, Zenon
      <3>4. fm[k] = lines[l]
        BY <2>3, <3>3, Zenon
      <3> QED
        BY <1>2, <2>7, <3>2, <3>3, <3>4, Zenon
    <2> QED
      BY <1>1, <1>5, <1>6, <2>6, <2>7, Zenon
  <1>10. folder.lines = lines /\ DOMAIN lines = 1..n /\ n = Len(lines)
    BY <1>1, <1>2, Zenon
  <1>11. \/ fm = <<>> /\ \A i \in 1..n : ~Config!Describes(folder, i)
         \/ \E o, c \in 1..n : IsFront(lines, n, fm, o, c)
    BY <1>3, <1>10, FrontOf, Zenon
  <1> QED
    BY <1>8, <1>9, <1>11, Zenon

\* A folder adds what it has, unless a skill of that name is there.
Added(A, folder, skills, after) ==
    \/ /\ after = skills
       /\ Config!Found(folder) = {} \/ \E i \in 1..Len(skills), s \in Config!Found(folder) : skills[i].name = s.name
    \/ \E x \in A : /\ Config!Found(folder) = {x}
                    /\ after = skills \o <<x>>
                    /\ \A i \in 1..Len(skills) : skills[i].name # x.name

\* With a folder the index has one skill more, or is as it was.
LEMMA FolderAdds ==
    ASSUME NEW folder \in Config!Folders, NEW A, Config!Found(folder) \subseteq A, NEW skills \in Seq(A)
    PROVE  Added(A, folder, skills, Config!WithFolder(skills, folder))
  <1>1. PICK dom : dom = 1..Len(skills) /\ dom = DOMAIN skills
    OBVIOUS
  <1>2. PICK new : new = {s \in Config!Found(folder) : \A i \in dom : skills[i].name # s.name}
    OBVIOUS
  <1>3. Config!WithFolder(skills, folder) = skills \o Config!SetToSeq(new)
    BY <1>1, <1>2, Zenon DEF Config!WithFolder
  <1>4. CASE new = {}
    <2>1. Config!SetToSeq(new) = <<>>
      BY <1>4, ListOfOne, Zenon
    <2>2. skills \o <<>> = skills
      OBVIOUS
    <2>3. Config!Found(folder) = {} \/ \E i \in dom, s \in Config!Found(folder) : skills[i].name = s.name
      BY <1>2, <1>4, Zenon
    <2> QED
      BY <1>1, <1>3, <2>1, <2>2, <2>3, Zenon DEF Added
  <1>5. CASE new # {}
    <2>1. PICK x : Config!Found(folder) = {x}
      BY <1>2, <1>5, FoundIs, Zenon
    <2>2. new = {x} /\ \A i \in dom : skills[i].name # x.name
      BY <1>2, <1>5, <2>1, Zenon
    <2>3. Config!SetToSeq(new) = <<x>> /\ x \in A
      BY <2>1, <2>2, ListOfOne, Zenon
    <2> QED
      BY <1>1, <1>3, <2>1, <2>2, <2>3, Zenon DEF Added
  <1> QED
    BY <1>4, <1>5, Zenon

\* The index of the first k folders.
Indexed(A, folders, k, skills) ==
    /\ skills \in Seq(A)
    /\ \A i, j \in 1..Len(skills) : skills[i].name = skills[j].name => i = j
    /\ \A i \in 1..Len(skills) : \E m \in 1..k : Config!Found(folders[m]) = {skills[i]}
    /\ \A m \in 1..k : Config!Found(folders[m]) # {} =>
          \E i \in 1..Len(skills), s \in Config!Found(folders[m]) : skills[i].name = s.name

\* One folder more.
LEMMA IndexGrows ==
    ASSUME NEW A, NEW folders, NEW n \in Nat, NEW k \in 0..n, k < n,
           folders[k + 1] \in Config!Folders, Config!Found(folders[k + 1]) \subseteq A,
           NEW skills, Indexed(A, folders, k, skills)
    PROVE  Indexed(A, folders, k + 1, Config!WithFolder(skills, folders[k + 1]))
  <1>1. PICK f \in Config!Folders : f = folders[k + 1] /\ Config!Found(f) \subseteq A
    BY Zenon
  <1>2. 1..k + 1 = (1..k) \cup {k + 1}
    OBVIOUS
  <1>3. PICK u \in Seq(A), l \in Nat : u = skills /\ l = Len(u)
    BY DEF Indexed
  <1>4. /\ \A i, j \in 1..l : u[i].name = u[j].name => i = j
        /\ \A i \in 1..l : \E m \in 1..k : Config!Found(folders[m]) = {u[i]}
        /\ \A m \in 1..k : Config!Found(folders[m]) # {} =>
              \E i \in 1..l, s \in Config!Found(folders[m]) : u[i].name = s.name
    BY <1>3, Zenon DEF Indexed
  <1>5. PICK v : v = Config!WithFolder(u, f)
    OBVIOUS
  <1>6. CASE /\ v = u
             /\ Config!Found(f) = {} \/ \E i \in 1..l, s \in Config!Found(f) : u[i].name = s.name
    <2>1. \A i \in 1..l : \E m \in 1..k + 1 : Config!Found(folders[m]) = {u[i]}
      BY <1>2, <1>4, Zenon
    <2>2. \A m \in 1..k + 1 : Config!Found(folders[m]) # {} =>
              \E i \in 1..l, s \in Config!Found(folders[m]) : u[i].name = s.name
      BY <1>1, <1>2, <1>4, <1>6, Zenon
    <2>3. Indexed(A, folders, k + 1, u)
      BY <1>3, <1>4, <2>1, <2>2, Zenon DEF Indexed
    <2> QED
      BY <1>1, <1>3, <1>5, <1>6, <2>3, Zenon
  <1>7. CASE \E x \in A : /\ Config!Found(f) = {x} /\ v = u \o <<x>> /\ \A i \in 1..l : u[i].name # x.name
    <2>1. PICK x \in A : Config!Found(f) = {x} /\ v = u \o <<x>> /\ \A i \in 1..l : u[i].name # x.name
      BY <1>7, Zenon
    <2>2. /\ u \o <<x>> \in Seq(A) /\ Len(u \o <<x>>) = l + 1
          /\ \A i \in 1..l : (u \o <<x>>)[i] = u[i]
          /\ (u \o <<x>>)[l + 1] = x
      BY <1>3
    <2>3. v \in Seq(A) /\ Len(v) = l + 1 /\ (\A i \in 1..l : v[i] = u[i]) /\ v[l + 1] = x
      BY <2>1, <2>2, Zenon
    <2>4. 1..l + 1 = (1..l) \cup {l + 1}
      OBVIOUS
    <2>5. \A i, j \in 1..l + 1 : v[i].name = v[j].name => i = j
      <3>1. ASSUME NEW i \in 1..l + 1, NEW j \in 1..l + 1, v[i].name = v[j].name PROVE i = j
        <4>1. CASE i \in 1..l /\ j \in 1..l
          BY <1>4, <2>3, <3>1, <4>1, Zenon
        <4>2. CASE i \in 1..l /\ j = l + 1
          BY <2>1, <2>3, <3>1, <4>2, Zenon
        <4>3. CASE i = l + 1 /\ j \in 1..l
          BY <2>1, <2>3, <3>1, <4>3, Zenon
        <4> QED
          BY <2>4, <4>1, <4>2, <4>3, Zenon
      <3> QED
        BY <3>1, Zenon
    <2>6. \A i \in 1..l + 1 : \E m \in 1..k + 1 : Config!Found(folders[m]) = {v[i]}
      BY <1>1, <1>2, <1>4, <2>1, <2>3, <2>4, Zenon
    <2>7. \A m \in 1..k + 1 : Config!Found(folders[m]) # {} =>
              \E i \in 1..l + 1, s \in Config!Found(folders[m]) : v[i].name = s.name
      <3>1. ASSUME NEW m \in 1..k, Config!Found(folders[m]) # {}
            PROVE  \E i \in 1..l + 1, s \in Config!Found(folders[m]) : v[i].name = s.name
        <4>1. PICK i \in 1..l, s \in Config!Found(folders[m]) : u[i].name = s.name
          BY <1>4, <3>1, Zenon
        <4> QED
          BY <2>3, <2>4, <4>1, Zenon
      <3>2. \E i \in 1..l + 1, s \in Config!Found(folders[k + 1]) : v[i].name = s.name
        BY <1>1, <2>1, <2>3, <2>4, Zenon
      <3> QED
        BY <1>2, <3>1, <3>2, Zenon
    <2>8. Indexed(A, folders, k + 1, v)
      BY <2>3, <2>5, <2>6, <2>7, Zenon DEF Indexed
    <2> QED
      BY <1>1, <1>3, <1>5, <2>8, Zenon
  <1>8. \/ /\ v = u
           /\ Config!Found(f) = {} \/ \E i \in 1..l, s \in Config!Found(f) : u[i].name = s.name
        \/ \E x \in A : /\ Config!Found(f) = {x} /\ v = u \o <<x>> /\ \A i \in 1..l : u[i].name # x.name
    <2>1. Added(A, f, u, v)
      BY <1>1, <1>5, FolderAdds, Zenon
    <2> QED
      BY <1>3, <2>1, Zenon DEF Added
  <1> QED
    BY <1>6, <1>7, <1>8, Zenon

\* No skill is indexed twice, none is made up, and none is left out but for an
\* earlier one of its name.
LEMMA IndexIsSound ==
    ASSUME NEW dirs \in Seq(Seq(Config!Folders))
    PROVE  Config!IndexSound(dirs, Config!LoadSkills(dirs))
  <1> DEFINE folders == Config!FlattenSeq(dirs)
  <1> DEFINE skills == Config!LoadSkills(dirs)
  <1>1. folders \in Seq(Config!Folders) /\ Config!FlattenSeq(dirs) = folders
    BY FlattenIn, Zenon
  <1>3. skills = Config!LoadSkills(dirs)
    BY Zenon
  <1> HIDE DEF folders, skills
  <1>2. PICK n \in Nat : n = Len(folders) /\ DOMAIN folders = 1..n /\ \A i \in 1..n : folders[i] \in Config!Folders
    BY <1>1
  <1>4. PICK r : /\ r[0] = <<>> /\ r[n] = skills
                 /\ \A i \in 1..n : r[i] = Op("folder", 0, folders, i, r[i - 1])
    <2>1. Walks("folder", 0, <<>>, folders, Len(folders), Config!LoadSkills(dirs))
      BY <1>1, FolderWalks
    <2>2. Walks("folder", 0, <<>>, folders, n, skills)
      BY <1>2, <1>3, <2>1, Zenon
    <2> QED
      BY <2>2, Zenon DEF Walks
  <1>5. PICK A : A = UNION {Config!Found(folders[m]) : m \in 1..n}
    OBVIOUS
  <1> DEFINE P == {i \in 0..n : Indexed(A, folders, i, r[i])}
  <1>6. 0 \in P
    <2>1. <<>> \in Seq(A) /\ 0 \in 0..n /\ 1..0 = {} /\ Len(<<>>) = 0
      OBVIOUS
    <2>2. Indexed(A, folders, 0, <<>>)
      BY <2>1, Zenon DEF Indexed
    <2> QED
      BY <1>4, <2>1, <2>2, Zenon
  <1>7. ASSUME NEW i \in 0..n, i < n, i \in P PROVE i + 1 \in P
    <2>1. i + 1 \in 1..n /\ i + 1 \in 0..n /\ (i + 1) - 1 = i
      BY <1>7, NextIn
    <2>2. r[i + 1] = Config!WithFolder(r[i], folders[i + 1])
      BY <1>4, <2>1, Zenon DEF Op
    <2>3. folders[i + 1] \in Config!Folders /\ Config!Found(folders[i + 1]) \subseteq A
      BY <1>2, <1>5, <2>1, Zenon
    <2>4. Indexed(A, folders, i + 1, Config!WithFolder(r[i], folders[i + 1]))
      BY <1>7, <2>3, IndexGrows, Zenon
    <2> QED
      BY <2>1, <2>2, <2>4, Zenon
  <1>8. Indexed(A, folders, n, skills)
    <2>1. n \in 0..n
      OBVIOUS
    <2> HIDE DEF P
    <2>2. n \in P
      BY <1>6, <1>7, <2>1, Induction, Zenon
    <2> QED
      BY <1>4, <2>2, Zenon DEF P
  <1>9. PICK l \in Nat : l = Len(skills) /\ DOMAIN skills = 1..l
    <2>1. skills \in Seq(A)
      BY <1>8, Zenon DEF Indexed
    <2> QED
      BY <2>1
  <1>10. /\ \A i, j \in 1..l : skills[i].name = skills[j].name => i = j
         /\ \A i \in 1..l : \E m \in 1..n : Config!Found(folders[m]) = {skills[i]}
         /\ \A m \in 1..n : Config!Found(folders[m]) # {} =>
               \E i \in 1..l, s \in Config!Found(folders[m]) : skills[i].name = s.name
    BY <1>8, <1>9, Zenon DEF Indexed
  <1>11. ASSUME NEW i \in 1..l
         PROVE  \E k \in 1..n :
                  /\ folders[k].name = skills[i].folder
                  /\ \E d \in DOMAIN folders[k].lines :
                        Config!Describes(folders[k], d) /\ folders[k].lines[d].value # ""
    <2>1. PICK m \in 1..n : Config!Found(folders[m]) = {skills[i]}
      BY <1>10, Zenon
    <2>2. \E x : Config!Found(folders[m]) = {x} /\ x.folder = folders[m].name
      BY <1>2, <2>1, FoundIs, Zenon
    <2>3. skills[i].folder = folders[m].name
      BY <2>1, <2>2, Zenon
    <2>4. \E d \in DOMAIN folders[m].lines :
              Config!Describes(folders[m], d) /\ folders[m].lines[d].value # ""
      BY <1>2, <2>1, FoundIs, Zenon
    <2> QED
      BY <2>3, <2>4, Zenon
  <1>12. ASSUME NEW k \in 1..n,
                \E d \in DOMAIN folders[k].lines : Config!Describes(folders[k], d),
                \A d \in DOMAIN folders[k].lines :
                    Config!Describes(folders[k], d) => folders[k].lines[d].value # ""
         PROVE  \E i \in 1..l : \E s \in Config!Found(folders[k]) : skills[i].name = s.name
    <2>1. Config!Found(folders[k]) # {}
      BY <1>2, <1>12, FoundIs, Zenon
    <2> QED
      BY <1>10, <2>1, Zenon
  <1>13. \A i, j \in DOMAIN skills : skills[i].name = skills[j].name => i = j
    BY <1>9, <1>10, Zenon
  <1>14. \A i \in DOMAIN skills : \E k \in DOMAIN folders :
               /\ folders[k].name = skills[i].folder
               /\ \E d \in DOMAIN folders[k].lines :
                     Config!Describes(folders[k], d) /\ folders[k].lines[d].value # ""
    <2>1. ASSUME NEW i \in DOMAIN skills
          PROVE  \E k \in DOMAIN folders :
                   /\ folders[k].name = skills[i].folder
                   /\ \E d \in DOMAIN folders[k].lines :
                         Config!Describes(folders[k], d) /\ folders[k].lines[d].value # ""
      <3>1. i \in 1..l
        BY <1>9, <2>1, Zenon
      <3>2. PICK k \in 1..n :
                  /\ folders[k].name = skills[i].folder
                  /\ \E d \in DOMAIN folders[k].lines :
                        Config!Describes(folders[k], d) /\ folders[k].lines[d].value # ""
        BY <1>11, <3>1, Zenon
      <3>3. k \in DOMAIN folders
        BY <1>2, Zenon
      <3> QED
        BY <3>2, <3>3, Zenon
    <2> QED
      BY <2>1, Zenon
  <1>15. \A k \in DOMAIN folders :
               /\ \E d \in DOMAIN folders[k].lines : Config!Describes(folders[k], d)
               /\ \A d \in DOMAIN folders[k].lines :
                     Config!Describes(folders[k], d) => folders[k].lines[d].value # ""
               => \E i \in DOMAIN skills :
                     \E s \in Config!Found(folders[k]) : skills[i].name = s.name
    <2>1. ASSUME NEW k \in DOMAIN folders,
                 \E d \in DOMAIN folders[k].lines : Config!Describes(folders[k], d),
                 \A d \in DOMAIN folders[k].lines :
                     Config!Describes(folders[k], d) => folders[k].lines[d].value # ""
          PROVE  \E i \in DOMAIN skills : \E s \in Config!Found(folders[k]) : skills[i].name = s.name
      <3>1. \E i \in 1..l : \E s \in Config!Found(folders[k]) : skills[i].name = s.name
        BY <1>2, <1>12, <2>1, Zenon
      <3> QED
        BY <1>9, <3>1, Zenon
    <2> QED
      BY <2>1, Zenon
  <1> QED
    BY <1>13, <1>14, <1>15, Zenon DEF Config!IndexSound, folders, skills

-----------------------------------------------------------------------------
(* Folds over finite sets                                                  *)

\* The element a fold takes next, and what it does with it.
Some(S) == CHOOSE x \in S : TRUE

SOp(kind, w, x, acc) ==
    CASE kind = "sum" -> acc + w[x]
      [] kind = "merge" -> Ledgers!Add(acc, x, w[x])

\* The equation that the function of such a fold solves.
SetIter(kind, w, b, g, D) ==
    g = [S \in SUBSET D |-> IF S = {} THEN b ELSE SOp(kind, w, Some(S), g[S \ {Some(S)}])]

SetFold(kind, w, b, S) == (CHOOSE g : SetIter(kind, w, b, g, S))[S]

\* An induction over the subsets of a finite set, P being the set of those of which
\* something holds.
LEMMA FiniteInduction ==
    ASSUME NEW D, IsFiniteSet(D), NEW P, {} \in P,
           \A S \in SUBSET D : S # {} /\ (\A y \in S : S \ {y} \in P) => S \in P
    PROVE  \A S \in SUBSET D : S \in P
  <1>1. PICK n \in Nat : n = Cardinality(D)
    BY FS_CardinalityType
  <1>2. \A S \in SUBSET D : IsFiniteSet(S) /\ Cardinality(S) \in 0..n
    <2>1. ASSUME NEW S \in SUBSET D PROVE IsFiniteSet(S) /\ Cardinality(S) \in 0..n
      <3>1. IsFiniteSet(S) /\ Cardinality(S) <= n
        BY <1>1, FS_Subset
      <3>2. Cardinality(S) \in Nat
        BY <3>1, FS_CardinalityType
      <3> QED
        BY <3>1, <3>2
    <2> QED
      BY <2>1
  <1> DEFINE Q == {k \in 0..n : \A S \in SUBSET D : Cardinality(S) = k => S \in P}
  <1>3. 0 \in Q
    <2>1. 0 \in 0..n
      OBVIOUS
    <2>2. ASSUME NEW S \in SUBSET D, Cardinality(S) = 0 PROVE S \in P
      <3>1. S = {}
        BY <1>2, <2>2, FS_EmptySet
      <3> QED
        BY <3>1
    <2> QED
      BY <2>1, <2>2
  <1>4. ASSUME NEW k \in 0..n, k < n, k \in Q PROVE k + 1 \in Q
    <2>1. k + 1 \in 0..n /\ k + 1 # 0 /\ (k + 1) - 1 = k
      BY <1>4
    <2>2. ASSUME NEW S \in SUBSET D, Cardinality(S) = k + 1 PROVE S \in P
      <3>1. S # {}
        BY <2>1, <2>2, FS_EmptySet
      <3>2. ASSUME NEW y \in S PROVE S \ {y} \in P
        <4>1. Cardinality(S \ {y}) = Cardinality(S) - 1
          BY <1>2, FS_RemoveElement
        <4>2. Cardinality(S \ {y}) = k
          BY <2>1, <2>2, <4>1
        <4>3. S \ {y} \in SUBSET D
          OBVIOUS
        <4> QED
          BY <1>4, <4>2, <4>3, Zenon
      <3> QED
        BY <3>1, <3>2, Zenon
    <2> QED
      BY <2>1, <2>2, Zenon
  <1>5. \A k \in 0..n : k \in Q
    <2> HIDE DEF Q
    <2> QED
      BY <1>3, <1>4, Induction, Zenon
  <1> QED
    BY <1>2, <1>5, Zenon

\* The equation has a solution.
LEMMA SetIterExists ==
    ASSUME NEW D, IsFiniteSet(D), NEW kind, NEW w, NEW b
    PROVE  \E g : SetIter(kind, w, b, g, D)
  <1>1. PICK n \in Nat : n = Cardinality(D)
    BY FS_CardinalityType
  <1>2. ASSUME NEW S \in SUBSET D PROVE IsFiniteSet(S) /\ Cardinality(S) \in Nat /\ Cardinality(S) <= n
    <2>1. IsFiniteSet(S) /\ Cardinality(S) <= n
      BY <1>1, FS_Subset
    <2> QED
      BY <2>1, FS_CardinalityType
  <1>3. \A S \in SUBSET D : S # {} =>
           Some(S) \in S /\ S \ {Some(S)} \in SUBSET D /\ Cardinality(S \ {Some(S)}) = Cardinality(S) - 1
    <2>1. ASSUME NEW S \in SUBSET D, S # {}
          PROVE  Some(S) \in S /\ S \ {Some(S)} \in SUBSET D /\ Cardinality(S \ {Some(S)}) = Cardinality(S) - 1
      <3>1. Some(S) \in S
        BY <2>1 DEF Some
      <3> QED
        BY <1>2, <3>1, FS_RemoveElement
    <2> QED
      BY <2>1
  <1> DEFINE Value(g, S) == IF S = {} THEN b ELSE SOp(kind, w, Some(S), g[S \ {Some(S)}])
             P == {k \in 0..n : \E g : \A S \in SUBSET D : Cardinality(S) <= k => g[S] = Value(g, S)}
  <1>4. 0 \in P
    <2>1. 0 \in 0..n
      OBVIOUS
    <2> DEFINE g == [S \in SUBSET D |-> b]
    <2>2. ASSUME NEW S \in SUBSET D, Cardinality(S) <= 0 PROVE g[S] = Value(g, S)
      <3>1. Cardinality(S) = 0
        BY <1>2, <2>2
      <3>2. S = {}
        BY <1>2, <3>1, FS_EmptySet
      <3> QED
        BY <3>2
    <2> HIDE DEF g
    <2> QED
      BY <2>1, <2>2, Zenon
  <1>5. ASSUME NEW k \in 0..n, k < n, k \in P PROVE k + 1 \in P
    <2>1. k + 1 \in 0..n
      BY <1>5
    <2>2. PICK g : \A S \in SUBSET D : Cardinality(S) <= k => g[S] = Value(g, S)
      BY <1>5, Zenon
    <2> DEFINE h == [S \in SUBSET D |-> IF Cardinality(S) <= k THEN g[S] ELSE Value(g, S)]
    <2>3. ASSUME NEW S \in SUBSET D, Cardinality(S) <= k + 1 PROVE h[S] = Value(h, S)
      <3>1. h[S] = Value(g, S)
        BY <2>2, Zenon
      <3>2. CASE S = {}
        BY <3>1, <3>2, Zenon
      <3>3. CASE S # {}
        <4>1. Cardinality(S \ {Some(S)}) = Cardinality(S) - 1 /\ S \ {Some(S)} \in SUBSET D
          BY <1>3, <3>3, Zenon
        <4>2. Cardinality(S) \in Nat
          BY <1>2, Zenon
        <4>3. Cardinality(S \ {Some(S)}) <= k
          <5> HIDE DEF h
          <5> QED
            BY <2>3, <4>1, <4>2
        <4>4. h[S \ {Some(S)}] = g[S \ {Some(S)}]
          BY <4>1, <4>3, Zenon
        <4> QED
          BY <3>1, <3>3, <4>4, Zenon
      <3> QED
        BY <3>2, <3>3, Zenon
    <2> HIDE DEF h
    <2> QED
      BY <2>1, <2>3, Zenon
  <1>6. n \in P
    <2>1. n \in 0..n
      OBVIOUS
    <2> HIDE DEF P
    <2> QED
      BY <1>4, <1>5, <2>1, Induction, Zenon
  <1>7. PICK g : \A S \in SUBSET D : g[S] = Value(g, S)
    <2>1. PICK g : \A S \in SUBSET D : Cardinality(S) <= n => g[S] = Value(g, S)
      BY <1>6, Zenon
    <2> QED
      BY <1>2, <2>1, Zenon
  <1> DEFINE h == [S \in SUBSET D |-> g[S]]
  <1>8. ASSUME NEW S \in SUBSET D PROVE g[S] = Value(h, S)
    <2>1. CASE S = {}
      BY <1>7, <2>1, Zenon
    <2>2. CASE S # {}
      <3>1. h[S \ {Some(S)}] = g[S \ {Some(S)}]
        BY <1>3, <2>2, Zenon
      <3> QED
        BY <1>7, <2>2, <3>1, Zenon
    <2> QED
      BY <2>1, <2>2
  <1>9. h = [S \in SUBSET D |-> Value(h, S)]
    BY <1>8, Zenon
  <1> QED
    BY <1>9, Zenon DEF SetIter

\* The solution is a solution for every subset too, and there is no other.
LEMMA SetIterSame ==
    ASSUME NEW D, IsFiniteSet(D), NEW E \in SUBSET D, NEW kind, NEW w, NEW b,
           NEW g, SetIter(kind, w, b, g, D), NEW h, SetIter(kind, w, b, h, E)
    PROVE  \A S \in SUBSET E : g[S] = h[S]
  <1> DEFINE P == {S \in SUBSET E : g[S] = h[S]}
  <1>1. IsFiniteSet(E)
    BY FS_Subset
  <1>2. \A S \in SUBSET D : g[S] = IF S = {} THEN b ELSE SOp(kind, w, Some(S), g[S \ {Some(S)}])
    BY Zenon DEF SetIter
  <1>3. \A S \in SUBSET E : h[S] = IF S = {} THEN b ELSE SOp(kind, w, Some(S), h[S \ {Some(S)}])
    BY Zenon DEF SetIter
  <1>4. \A S \in SUBSET E : S \in SUBSET D
    BY Zenon
  <1>5. {} \in P
    BY <1>2, <1>3, <1>4
  <1>6. ASSUME NEW S \in SUBSET E, S # {}, \A y \in S : S \ {y} \in P PROVE S \in P
    <2>1. Some(S) \in S
      BY <1>6 DEF Some
    <2>2. g[S \ {Some(S)}] = h[S \ {Some(S)}]
      BY <1>6, <2>1, Zenon
    <2>3. g[S] = h[S]
      BY <1>2, <1>3, <1>4, <1>6, <2>2, Zenon
    <2> QED
      BY <2>3
  <1>7. \A S \in SUBSET E : S \in P
    <2> HIDE DEF P
    <2> QED
      BY <1>1, <1>5, <1>6, FiniteInduction, Zenon
  <1> QED
    BY <1>7, Zenon

\* A fold step by step.
LEMMA SetFoldSteps ==
    ASSUME NEW S, IsFiniteSet(S), NEW kind, NEW w, NEW b
    PROVE  /\ SetFold(kind, w, b, {}) = b
           /\ S # {} => /\ Some(S) \in S
                        /\ SetFold(kind, w, b, S) = SOp(kind, w, Some(S), SetFold(kind, w, b, S \ {Some(S)}))
  <1>1. ASSUME NEW D, IsFiniteSet(D) PROVE \E g : SetIter(kind, w, b, g, D) /\ SetFold(kind, w, b, D) = g[D]
    <2>1. \E g : SetIter(kind, w, b, g, D)
      BY <1>1, SetIterExists
    <2> QED
      BY <2>1, Zenon DEF SetFold
  <1>2. SetFold(kind, w, b, {}) = b
    <2>1. IsFiniteSet({})
      BY FS_EmptySet
    <2>2. PICK g : SetIter(kind, w, b, g, {}) /\ SetFold(kind, w, b, {}) = g[{}]
      BY <1>1, <2>1
    <2>3. {} \in SUBSET {}
      OBVIOUS
    <2>4. g[{}] = b
      BY <2>2, <2>3, Zenon DEF SetIter
    <2> QED
      BY <2>2, <2>4
  <1>3. ASSUME S # {}
        PROVE  /\ Some(S) \in S
               /\ SetFold(kind, w, b, S) = SOp(kind, w, Some(S), SetFold(kind, w, b, S \ {Some(S)}))
    <2>1. Some(S) \in S
      BY <1>3 DEF Some
    <2> DEFINE E == S \ {Some(S)}
    <2>2. E \in SUBSET S /\ S \in SUBSET S /\ E \in SUBSET E
      OBVIOUS
    <2>3. IsFiniteSet(E)
      BY <2>2, FS_Subset
    <2>4. PICK g : SetIter(kind, w, b, g, S) /\ SetFold(kind, w, b, S) = g[S]
      BY <1>1
    <2>5. PICK h : SetIter(kind, w, b, h, E) /\ SetFold(kind, w, b, E) = h[E]
      BY <1>1, <2>3
    <2>6. g[E] = h[E]
      <3>1. SetIter(kind, w, b, g, S) /\ SetIter(kind, w, b, h, E)
        BY <2>4, <2>5, Zenon
      <3> HIDE DEF E
      <3>2. \A R \in SUBSET E : g[R] = h[R]
        BY <2>2, <3>1, SetIterSame
      <3> QED
        BY <2>2, <3>2, Zenon
    <2>7. g[S] = SOp(kind, w, Some(S), g[E])
      BY <1>3, <2>2, <2>4, Zenon DEF SetIter
    <2> QED
      BY <2>1, <2>4, <2>5, <2>6, <2>7, Zenon
  <1> QED
    BY <1>2, <1>3

-----------------------------------------------------------------------------
(* Sums                                                                    *)

Sum(w, S) == SetFold("sum", w, 0, S)

\* A sum is a number, and each element has its share in it.
LEMMA SumIs ==
    ASSUME NEW D, IsFiniteSet(D), NEW w, \A x \in D : w[x] \in Nat
    PROVE  /\ Sum(w, {}) = 0
           /\ \A S \in SUBSET D : Sum(w, S) \in Nat /\ \A y \in S : Sum(w, S) = Sum(w, S \ {y}) + w[y]
  <1>1. Sum(w, {}) = 0
    BY FS_EmptySet, SetFoldSteps DEF Sum
  <1>2. \A S \in SUBSET D : S # {} => Some(S) \in S /\ Sum(w, S) = Sum(w, S \ {Some(S)}) + w[Some(S)]
    <2>1. ASSUME NEW S \in SUBSET D, S # {}
          PROVE  Some(S) \in S /\ Sum(w, S) = Sum(w, S \ {Some(S)}) + w[Some(S)]
      <3>1. IsFiniteSet(S)
        BY FS_Subset
      <3>2. Some(S) \in S /\ SetFold("sum", w, 0, S) = SOp("sum", w, Some(S), SetFold("sum", w, 0, S \ {Some(S)}))
        BY <2>1, <3>1, SetFoldSteps
      <3> QED
        BY <3>2, Zenon DEF Sum, SOp
    <2> QED
      BY <2>1, Zenon
  <1> DEFINE V == {S \in SUBSET D : Sum(w, S) \in Nat}
  <1>3. \A S \in SUBSET D : S \in V
    <2>1. {} \in V
      BY <1>1
    <2>2. ASSUME NEW S \in SUBSET D, S # {}, \A z \in S : S \ {z} \in V PROVE S \in V
      <3>1. PICK z \in S : Sum(w, S) = Sum(w, S \ {z}) + w[z]
        BY <1>2, <2>2, Zenon
      <3>2. Sum(w, S \ {z}) \in Nat /\ w[z] \in Nat
        BY <2>2, Zenon
      <3>3. Sum(w, S) \in Nat
        BY <3>1, <3>2
      <3> QED
        BY <3>3
    <2> HIDE DEF V
    <2> QED
      BY <2>1, <2>2, FiniteInduction, Zenon
  <1>4. \A S \in SUBSET D : Sum(w, S) \in Nat
    BY <1>3, Zenon
  <1> DEFINE P == {S \in SUBSET D : \A y \in S : Sum(w, S) = Sum(w, S \ {y}) + w[y]}
  <1>5. {} \in P
    OBVIOUS
  <1>6. ASSUME NEW S \in SUBSET D, S # {}, \A y \in S : S \ {y} \in P PROVE S \in P
    <2>1. PICK x \in S : Sum(w, S) = Sum(w, S \ {x}) + w[x]
      BY <1>2, <1>6, Zenon
    <2>2. \A y \in S : \A z \in S \ {y} : Sum(w, S \ {y}) = Sum(w, (S \ {y}) \ {z}) + w[z]
      BY <1>6, Zenon
    <2>3. ASSUME NEW y \in S PROVE Sum(w, S) = Sum(w, S \ {y}) + w[y]
      <3>1. CASE y = x
        BY <2>1, <3>1, Zenon
      <3>2. CASE y # x
        <4> DEFINE R == (S \ {x}) \ {y}
        <4>1. R = (S \ {y}) \ {x} /\ R \in SUBSET D
          OBVIOUS
        <4>2. Sum(w, S \ {x}) = Sum(w, R) + w[y]
          BY <2>2, <3>2, Zenon
        <4>3. Sum(w, S \ {y}) = Sum(w, R) + w[x]
          BY <2>2, <3>2, <4>1, Zenon
        <4>4. Sum(w, R) \in Nat /\ w[x] \in Nat /\ w[y] \in Nat
          BY <1>4, <4>1
        <4> HIDE DEF R
        <4> QED
          BY <2>1, <4>2, <4>3, <4>4
      <3> QED
        BY <3>1, <3>2
    <2> QED
      BY <2>3
  <1>7. \A S \in SUBSET D : S \in P
    <2> HIDE DEF P
    <2> QED
      BY <1>5, <1>6, FiniteInduction, Zenon
  <1> QED
    BY <1>1, <1>4, <1>7, Zenon

\* One element more.
LEMMA SumAdds ==
    ASSUME NEW S, IsFiniteSet(S), NEW y, y \notin S, NEW w, w[y] \in Nat, \A x \in S : w[x] \in Nat
    PROVE  Sum(w, S \cup {y}) = Sum(w, S) + w[y] /\ Sum(w, S) \in Nat
  <1> DEFINE D == S \cup {y}
  <1>1. IsFiniteSet(D)
    BY FS_AddElement
  <1>2. \A x \in D : w[x] \in Nat
    OBVIOUS
  <1>3. D \in SUBSET D /\ y \in D /\ D \ {y} = S /\ S \in SUBSET D
    OBVIOUS
  <1> HIDE DEF D
  <1>4. \A R \in SUBSET D : Sum(w, R) \in Nat /\ \A z \in R : Sum(w, R) = Sum(w, R \ {z}) + w[z]
    BY <1>1, <1>2, SumIs
  <1> QED
    BY <1>3, <1>4, Zenon DEF D

\* Only what is added up matters.
LEMMA SumSame ==
    ASSUME NEW D, IsFiniteSet(D), NEW w, NEW v, \A x \in D : w[x] \in Nat /\ v[x] = w[x]
    PROVE  Sum(v, D) = Sum(w, D)
  <1>1. /\ Sum(w, {}) = 0 /\ Sum(v, {}) = 0
        /\ \A S \in SUBSET D : \A y \in S : Sum(w, S) = Sum(w, S \ {y}) + w[y]
        /\ \A S \in SUBSET D : \A y \in S : Sum(v, S) = Sum(v, S \ {y}) + v[y]
    <2>1. \A x \in D : v[x] \in Nat
      OBVIOUS
    <2> QED
      BY <2>1, SumIs
  <1> DEFINE P == {S \in SUBSET D : Sum(v, S) = Sum(w, S)}
  <1>2. {} \in P
    BY <1>1
  <1>3. ASSUME NEW S \in SUBSET D, S # {}, \A y \in S : S \ {y} \in P PROVE S \in P
    <2>1. PICK y \in S : TRUE
      BY <1>3
    <2>2. Sum(v, S \ {y}) = Sum(w, S \ {y}) /\ v[y] = w[y]
      BY <1>3, <2>1, Zenon
    <2>3. Sum(v, S) = Sum(w, S)
      BY <1>1, <2>2, Zenon
    <2> QED
      BY <2>3
  <1>4. \A S \in SUBSET D : S \in P
    <2> HIDE DEF P
    <2> QED
      BY <1>2, <1>3, FiniteInduction, Zenon
  <1> QED
    BY <1>4, Zenon

-----------------------------------------------------------------------------
(* Tallies: how often each name occurs                                     *)

Tallies == {b \in UNION {[D -> Nat] : D \in SUBSET STRING} : IsFiniteSet(DOMAIN b)}

Total(b) == Sum(b, DOMAIN b)

Joined(b, a) == [k \in DOMAIN b \cup DOMAIN a |-> Ledgers!Count(b, k) + Ledgers!Count(a, k)]

\* The tallies, by their domains.
LEMMA TallyIs ==
    /\ \A b \in Tallies : /\ b \in [DOMAIN b -> Nat] /\ DOMAIN b \in SUBSET STRING /\ IsFiniteSet(DOMAIN b)
                          /\ \A k : Ledgers!Count(b, k) \in Nat
                          /\ \A k \in DOMAIN b : Ledgers!Count(b, k) = b[k]
    /\ \A D \in SUBSET STRING : \A b \in [D -> Nat] : IsFiniteSet(D) => b \in Tallies
    /\ <<>> \in Tallies /\ DOMAIN <<>> = {} /\ \A k : Ledgers!Count(<<>>, k) = 0
  <1>1. ASSUME NEW b \in Tallies
        PROVE  /\ b \in [DOMAIN b -> Nat] /\ DOMAIN b \in SUBSET STRING /\ IsFiniteSet(DOMAIN b)
               /\ \A k : Ledgers!Count(b, k) \in Nat
               /\ \A k \in DOMAIN b : Ledgers!Count(b, k) = b[k]
    <2>1. PICK D \in SUBSET STRING : b \in [D -> Nat]
      BY DEF Tallies
    <2>2. DOMAIN b = D
      BY <2>1
    <2>3. IsFiniteSet(DOMAIN b)
      BY Zenon DEF Tallies
    <2>4. ASSUME NEW k PROVE Ledgers!Count(b, k) \in Nat
      BY <2>1, <2>2 DEF Ledgers!Count
    <2>5. ASSUME NEW k \in DOMAIN b PROVE Ledgers!Count(b, k) = b[k]
      BY Zenon DEF Ledgers!Count
    <2> QED
      BY <2>1, <2>2, <2>3, <2>4, <2>5, Zenon
  <1>2. ASSUME NEW D \in SUBSET STRING, NEW b \in [D -> Nat], IsFiniteSet(D) PROVE b \in Tallies
    <2>1. DOMAIN b = D
      OBVIOUS
    <2>2. b \in UNION {[E -> Nat] : E \in SUBSET STRING}
      OBVIOUS
    <2> QED
      BY <1>2, <2>1, <2>2, Zenon DEF Tallies
  <1>3. DOMAIN <<>> = {} /\ <<>> \in [{} -> Nat]
    OBVIOUS
  <1>4. <<>> \in Tallies
    BY <1>2, <1>3, FS_EmptySet
  <1>5. ASSUME NEW k PROVE Ledgers!Count(<<>>, k) = 0
    BY <1>3, Zenon DEF Ledgers!Count
  <1> QED
    BY <1>1, <1>2, <1>3, <1>4, <1>5, Zenon

\* Adding to a tally.
LEMMA AddCounts ==
    ASSUME NEW b \in Tallies, NEW name \in STRING, NEW n \in Nat
    PROVE  /\ Ledgers!Add(b, name, n) \in Tallies
           /\ DOMAIN Ledgers!Add(b, name, n) = DOMAIN b \cup {name}
           /\ \A k : Ledgers!Count(Ledgers!Add(b, name, n), k) = Ledgers!Count(b, k) + (IF k = name THEN n ELSE 0)
           /\ Total(Ledgers!Add(b, name, n)) = Total(b) + n /\ Total(b) \in Nat
  <1> DEFINE D == DOMAIN b
             E == DOMAIN b \cup {name}
             a == Ledgers!Add(b, name, n)
  <1>1. /\ b \in [D -> Nat] /\ D \in SUBSET STRING /\ IsFiniteSet(D)
        /\ \A k : Ledgers!Count(b, k) \in Nat
        /\ \A k \in D : Ledgers!Count(b, k) = b[k]
    BY TallyIs, Zenon
  <1>2. IsFiniteSet(E) /\ E \in SUBSET STRING /\ name \in E
    BY <1>1, FS_AddElement
  <1>3. a = [k \in E |-> Ledgers!Count(b, k) + (IF k = name THEN n ELSE 0)]
    BY Zenon DEF Ledgers!Add
  <1>4. DOMAIN a = E /\ \A k \in E : a[k] = Ledgers!Count(b, k) + (IF k = name THEN n ELSE 0)
    BY <1>3, Zenon
  <1>5. \A k \in E : a[k] \in Nat
    BY <1>1, <1>4
  <1>6. a \in [E -> Nat]
    BY <1>3, <1>4, <1>5, Zenon
  <1>7. a \in Tallies
    BY <1>2, <1>6, TallyIs, Zenon
  <1>8. ASSUME NEW k PROVE Ledgers!Count(a, k) = Ledgers!Count(b, k) + (IF k = name THEN n ELSE 0)
    <2>1. CASE k \in E
      BY <1>4, <2>1, Zenon DEF Ledgers!Count
    <2>2. CASE k \notin E
      <3>1. Ledgers!Count(a, k) = 0 /\ Ledgers!Count(b, k) = 0 /\ k # name
        BY <1>4, <2>2, Zenon DEF Ledgers!Count
      <3> QED
        BY <3>1
    <2> QED
      BY <2>1, <2>2
  <1>9. Total(a) = Total(b) + n /\ Total(b) \in Nat
    <2> DEFINE R == D \ {name}
    <2>1. IsFiniteSet(R) /\ name \notin R
      BY <1>1, FS_Subset
    <2>2. \A k \in R : b[k] \in Nat /\ a[k] = b[k]
      <3>1. ASSUME NEW k \in R PROVE b[k] \in Nat /\ a[k] = b[k]
        <4>1. k \in E /\ k \in D /\ k # name
          OBVIOUS
        <4>2. a[k] = Ledgers!Count(b, k) + 0 /\ Ledgers!Count(b, k) = b[k] /\ b[k] \in Nat
          BY <1>1, <1>4, <4>1, Zenon
        <4> QED
          BY <4>2
      <3> QED
        BY <3>1
    <2>3. \A k \in R : a[k] \in Nat
      BY <2>2, Zenon
    <2>4. R \cup {name} = E
      OBVIOUS
    <2>5. a[name] = Ledgers!Count(b, name) + n /\ a[name] \in Nat
      BY <1>2, <1>4, <1>5
    <2> HIDE DEF R, a
    <2>6. Sum(a, R) = Sum(b, R)
      BY <2>1, <2>2, SumSame
    <2>7. Sum(a, E) = Sum(a, R) + a[name] /\ Sum(a, R) \in Nat
      BY <2>1, <2>3, <2>4, <2>5, SumAdds
    <2>8. CASE name \in D
      <3>1. R \cup {name} = D /\ b[name] \in Nat /\ Ledgers!Count(b, name) = b[name]
        BY <1>1, <2>8 DEF R
      <3>2. Sum(b, D) = Sum(b, R) + b[name]
        <4>1. \A k \in R : b[k] \in Nat
          BY <2>2
        <4> QED
          BY <2>1, <3>1, <4>1, SumAdds
      <3>3. Total(a) = Sum(a, E) /\ Total(b) = Sum(b, D)
        BY <1>4, Zenon DEF Total
      <3>4. Total(a) = Sum(b, R) + (b[name] + n) /\ Total(b) = Sum(b, R) + b[name]
        BY <2>5, <2>6, <2>7, <3>1, <3>2, <3>3, Zenon
      <3>5. Sum(b, R) \in Nat
        BY <2>6, <2>7, Zenon
      <3>6. PICK x \in Nat, y \in Nat : x = Sum(b, R) /\ y = b[name]
        BY <3>1, <3>5, Zenon
      <3>7. Total(a) = x + (y + n) /\ Total(b) = x + y
        BY <3>4, <3>6, Zenon
      <3> QED
        BY <3>7
    <2>9. CASE name \notin D
      <3>1. R = D
        BY <2>9 DEF R
      <3>2. Ledgers!Count(b, name) = 0
        BY <2>9, Zenon DEF Ledgers!Count
      <3>3. Total(a) = Sum(a, E) /\ Total(b) = Sum(b, R)
        BY <1>4, <3>1, Zenon DEF Total
      <3> QED
        BY <2>5, <2>6, <2>7, <3>2, <3>3
    <2> QED
      BY <2>8, <2>9
  <1> QED
    BY <1>4, <1>7, <1>8, <1>9, Zenon

\* The tally b with what the tally a says of the names in S.
Merged(b, a, S, m) ==
    /\ m \in Tallies
    /\ DOMAIN m = DOMAIN b \cup S
    /\ \A k : Ledgers!Count(m, k) = Ledgers!Count(b, k) + (IF k \in S THEN a[k] ELSE 0)
    /\ Total(m) = Total(b) + Sum(a, S)

\* Tallies put together element by element.
LEMMA MergeIs ==
    ASSUME NEW b \in Tallies, NEW a \in Tallies
    PROVE  \A S \in SUBSET DOMAIN a : Merged(b, a, S, SetFold("merge", a, b, S))
  <1> DEFINE m(S) == SetFold("merge", a, b, S)
             P == {S \in SUBSET DOMAIN a : Merged(b, a, S, m(S))}
  <1>0. /\ \A k : Ledgers!Count(b, k) \in Nat
        /\ IsFiniteSet(DOMAIN a) /\ a \in [DOMAIN a -> Nat] /\ DOMAIN a \in SUBSET STRING
        /\ Total(b) \in Nat
    <2>1. /\ \A k : Ledgers!Count(b, k) \in Nat
          /\ IsFiniteSet(DOMAIN a) /\ a \in [DOMAIN a -> Nat] /\ DOMAIN a \in SUBSET STRING
          /\ IsFiniteSet(DOMAIN b) /\ b \in [DOMAIN b -> Nat]
      BY TallyIs, Zenon
    <2>2. \A S \in SUBSET DOMAIN b : Sum(b, S) \in Nat
      <3>1. \A x \in DOMAIN b : b[x] \in Nat
        BY <2>1
      <3> QED
        BY <2>1, <3>1, SumIs
    <2>3. DOMAIN b \in SUBSET DOMAIN b
      OBVIOUS
    <2> QED
      BY <2>1, <2>2, <2>3, Zenon DEF Total
  <1>1. /\ Sum(a, {}) = 0
        /\ \A S \in SUBSET DOMAIN a : Sum(a, S) \in Nat /\ \A y \in S : Sum(a, S) = Sum(a, S \ {y}) + a[y]
    <2>1. \A x \in DOMAIN a : a[x] \in Nat
      BY <1>0
    <2> QED
      BY <1>0, <2>1, SumIs
  <1>2. {} \in P
    <2>1. m({}) = b
      BY FS_EmptySet, SetFoldSteps
    <2>2. DOMAIN b \cup {} = DOMAIN b /\ \A k : Ledgers!Count(b, k) + 0 = Ledgers!Count(b, k)
      BY <1>0
    <2>3. Total(b) = Total(b) + Sum(a, {})
      BY <1>0, <1>1
    <2>4. \A k : ~(k \in {})
      OBVIOUS
    <2> HIDE DEF m
    <2> QED
      BY <2>1, <2>2, <2>3, <2>4, Zenon DEF Merged
  <1>3. ASSUME NEW S \in SUBSET DOMAIN a, S # {}, \A y \in S : S \ {y} \in P PROVE S \in P
    <2>1. IsFiniteSet(S)
      BY <1>0, FS_Subset
    <2>2. Some(S) \in S /\ m(S) = SOp("merge", a, Some(S), m(S \ {Some(S)}))
      BY <1>3, <2>1, SetFoldSteps
    <2>3. PICK x \in S : m(S) = Ledgers!Add(m(S \ {x}), x, a[x])
      BY <2>2, Zenon DEF SOp
    <2>4. /\ m(S \ {x}) \in Tallies
          /\ DOMAIN m(S \ {x}) = DOMAIN b \cup (S \ {x})
          /\ \A k : Ledgers!Count(m(S \ {x}), k) = Ledgers!Count(b, k) + (IF k \in S \ {x} THEN a[k] ELSE 0)
          /\ Total(m(S \ {x})) = Total(b) + Sum(a, S \ {x})
      BY <1>3, Zenon DEF Merged
    <2>5. x \in STRING /\ a[x] \in Nat /\ x \in DOMAIN a
      BY <1>0
    <2> HIDE DEF m
    <2>6. /\ m(S) \in Tallies
          /\ DOMAIN m(S) = DOMAIN m(S \ {x}) \cup {x}
          /\ \A k : Ledgers!Count(m(S), k) = Ledgers!Count(m(S \ {x}), k) + (IF k = x THEN a[x] ELSE 0)
          /\ Total(m(S)) = Total(m(S \ {x})) + a[x]
      <3>1. PICK c \in Tallies, y \in Nat : c = m(S \ {x}) /\ y = a[x]
        BY <2>4, <2>5, Zenon
      <3>2. /\ Ledgers!Add(c, x, y) \in Tallies
            /\ DOMAIN Ledgers!Add(c, x, y) = DOMAIN c \cup {x}
            /\ \A k : Ledgers!Count(Ledgers!Add(c, x, y), k) = Ledgers!Count(c, k) + (IF k = x THEN y ELSE 0)
            /\ Total(Ledgers!Add(c, x, y)) = Total(c) + y
        <4>1. x \in STRING
          BY <2>5
        <4> QED
          BY <4>1, AddCounts, Zenon
      <3> QED
        BY <2>3, <3>1, <3>2, Zenon
    <2>7. DOMAIN m(S) = DOMAIN b \cup S
      <3>1. DOMAIN m(S \ {x}) = DOMAIN b \cup (S \ {x})
        BY <2>4, Zenon
      <3> QED
        BY <2>6, <3>1
    <2>8. ASSUME NEW k PROVE Ledgers!Count(m(S), k) = Ledgers!Count(b, k) + (IF k \in S THEN a[k] ELSE 0)
      <3>1. /\ Ledgers!Count(m(S), k) = Ledgers!Count(m(S \ {x}), k) + (IF k = x THEN a[x] ELSE 0)
            /\ Ledgers!Count(m(S \ {x}), k) = Ledgers!Count(b, k) + (IF k \in S \ {x} THEN a[k] ELSE 0)
        BY <2>4, <2>6, Zenon
      <3>2. PICK c \in Nat : c = Ledgers!Count(b, k)
        BY <1>0
      <3>3. CASE k = x
        <4>1. Ledgers!Count(m(S), k) = (c + 0) + a[x]
          BY <3>1, <3>2, <3>3, Zenon
        <4>2. (c + 0) + a[x] = c + a[x]
          BY <2>5
        <4> QED
          BY <3>2, <3>3, <4>1, <4>2, Zenon
      <3>4. CASE k # x
        <4>1. k \in S \ {x} <=> k \in S
          BY <3>4
        <4>2. Ledgers!Count(m(S), k) = (c + (IF k \in S THEN a[k] ELSE 0)) + 0
          BY <3>1, <3>2, <3>4, <4>1, Zenon
        <4>3. (IF k \in S THEN a[k] ELSE 0) \in Nat
          BY <1>0
        <4> QED
          BY <3>2, <4>2, <4>3
      <3> QED
        BY <3>3, <3>4
    <2>9. Total(m(S)) = Total(b) + Sum(a, S)
      <3>1. /\ Total(m(S)) = (Total(b) + Sum(a, S \ {x})) + a[x]
            /\ Sum(a, S) = Sum(a, S \ {x}) + a[x]
        BY <1>1, <2>4, <2>6, Zenon
      <3>2. S \ {x} \in SUBSET DOMAIN a
        OBVIOUS
      <3>3. PICK u \in Nat, v \in Nat, z \in Nat : u = Total(b) /\ v = Sum(a, S \ {x}) /\ z = a[x]
        BY <1>0, <1>1, <2>5, <3>2, Zenon
      <3>4. Total(m(S)) = (u + v) + z /\ Sum(a, S) = v + z
        BY <3>1, <3>3, Zenon
      <3>5. (u + v) + z = u + (v + z)
        OBVIOUS
      <3> QED
        BY <3>3, <3>4, <3>5, Zenon
    <2> QED
      BY <2>6, <2>7, <2>8, <2>9, Zenon DEF Merged
  <1>4. \A S \in SUBSET DOMAIN a : S \in P
    <2> HIDE DEF P
    <2> QED
      BY <1>0, <1>2, <1>3, FiniteInduction, Zenon
  <1> QED
    BY <1>4, Zenon

\* Together they are the two joined.
LEMMA MergeJoins ==
    ASSUME NEW b \in Tallies, NEW a \in Tallies
    PROVE  /\ SetFold("merge", a, b, DOMAIN a) = Joined(b, a)
           /\ Joined(b, a) \in Tallies /\ DOMAIN Joined(b, a) = DOMAIN b \cup DOMAIN a
           /\ Total(Joined(b, a)) = Total(b) + Total(a)
           /\ \A k : Ledgers!Count(Joined(b, a), k) = Ledgers!Count(b, k) + Ledgers!Count(a, k)
  <1>1. PICK m : m = SetFold("merge", a, b, DOMAIN a)
    BY Zenon
  <1>2. DOMAIN a \in SUBSET DOMAIN a
    OBVIOUS
  <1>3. /\ m \in Tallies
        /\ DOMAIN m = DOMAIN b \cup DOMAIN a
        /\ \A k : Ledgers!Count(m, k) = Ledgers!Count(b, k) + (IF k \in DOMAIN a THEN a[k] ELSE 0)
        /\ Total(m) = Total(b) + Sum(a, DOMAIN a)
    <2>1. \A S \in SUBSET DOMAIN a : Merged(b, a, S, SetFold("merge", a, b, S))
      BY MergeIs
    <2> QED
      BY <1>1, <1>2, <2>1, Zenon DEF Merged
  <1>4. \A k : Ledgers!Count(m, k) = Ledgers!Count(b, k) + Ledgers!Count(a, k)
    BY <1>3, Zenon DEF Ledgers!Count
  <1>5. m \in [DOMAIN m -> Nat] /\ \A k \in DOMAIN m : m[k] = Ledgers!Count(m, k)
    BY <1>3, TallyIs, Zenon
  <1>6. m = [k \in DOMAIN m |-> Ledgers!Count(b, k) + Ledgers!Count(a, k)]
    <2>1. m = [k \in DOMAIN m |-> m[k]]
      BY <1>5
    <2>2. \A k \in DOMAIN m : m[k] = Ledgers!Count(b, k) + Ledgers!Count(a, k)
      BY <1>4, <1>5, Zenon
    <2> QED
      BY <2>1, <2>2, Zenon
  <1>7. m = Joined(b, a)
    BY <1>3, <1>6, Zenon DEF Joined
  <1> QED
    BY <1>1, <1>3, <1>4, <1>7, Zenon DEF Total

\* In whatever order tallies are joined.
LEMMA JoinedLaws ==
    ASSUME NEW a \in Tallies, NEW b \in Tallies, NEW c \in Tallies
    PROVE  /\ Joined(a, b) = Joined(b, a)
           /\ Joined(Joined(a, b), c) = Joined(a, Joined(b, c))
           /\ Joined(<<>>, a) = a
  <1>0. /\ \A k : Ledgers!Count(a, k) \in Nat /\ Ledgers!Count(b, k) \in Nat /\ Ledgers!Count(c, k) \in Nat
        /\ a \in [DOMAIN a -> Nat] /\ \A k \in DOMAIN a : Ledgers!Count(a, k) = a[k]
        /\ DOMAIN <<>> = {} /\ \A k : Ledgers!Count(<<>>, k) = 0
    BY TallyIs, Zenon
  <1>1. Joined(a, b) = Joined(b, a)
    <2>1. \A k : Ledgers!Count(a, k) + Ledgers!Count(b, k) = Ledgers!Count(b, k) + Ledgers!Count(a, k)
      BY <1>0
    <2>2. DOMAIN a \cup DOMAIN b = DOMAIN b \cup DOMAIN a
      OBVIOUS
    <2> QED
      BY <2>1, <2>2, Zenon DEF Joined
  <1>2. Joined(Joined(a, b), c) = Joined(a, Joined(b, c))
    <2>1. /\ DOMAIN Joined(a, b) = DOMAIN a \cup DOMAIN b /\ DOMAIN Joined(b, c) = DOMAIN b \cup DOMAIN c
          /\ \A k : Ledgers!Count(Joined(a, b), k) = Ledgers!Count(a, k) + Ledgers!Count(b, k)
          /\ \A k : Ledgers!Count(Joined(b, c), k) = Ledgers!Count(b, k) + Ledgers!Count(c, k)
      BY MergeJoins, Zenon
    <2>2. \A k : (Ledgers!Count(a, k) + Ledgers!Count(b, k)) + Ledgers!Count(c, k) =
                 Ledgers!Count(a, k) + (Ledgers!Count(b, k) + Ledgers!Count(c, k))
      BY <1>0
    <2>3. (DOMAIN a \cup DOMAIN b) \cup DOMAIN c = DOMAIN a \cup (DOMAIN b \cup DOMAIN c)
      OBVIOUS
    <2>4. \A k : Ledgers!Count(Joined(a, b), k) + Ledgers!Count(c, k) =
                 Ledgers!Count(a, k) + Ledgers!Count(Joined(b, c), k)
      BY <2>1, <2>2, Zenon
    <2>5. DOMAIN Joined(a, b) \cup DOMAIN c = DOMAIN a \cup DOMAIN Joined(b, c)
      BY <2>1, <2>3, Zenon
    <2> QED
      BY <2>4, <2>5, Zenon DEF Joined
  <1>3. Joined(<<>>, a) = a
    <2>1. DOMAIN <<>> \cup DOMAIN a = DOMAIN a
      BY <1>0, Zenon
    <2>2. \A k \in DOMAIN a : Ledgers!Count(<<>>, k) + Ledgers!Count(a, k) = a[k]
      BY <1>0
    <2>3. a = [k \in DOMAIN a |-> a[k]]
      BY <1>0
    <2>4. Joined(<<>>, a) = [k \in DOMAIN a |-> Ledgers!Count(<<>>, k) + Ledgers!Count(a, k)]
      BY <2>1, Zenon DEF Joined
    <2> QED
      BY <2>2, <2>3, <2>4, Zenon
  <1> QED
    BY <1>1, <1>2, <1>3

-----------------------------------------------------------------------------
(* One ledger                                                              *)

Aggs == [any : BOOLEAN, turns : Nat, tokens : Nat, calls : Nat, errors : Nat, byName : Tallies,
         duration : Nat \cup {Ledgers!NoDuration}, first : Nat, last : Nat]

One(holds) == IF holds THEN 1 ELSE 0

\* What one line does to the figures.
Counted1(agg, line, new) ==
    /\ new \in Aggs
    /\ new.any <=> agg.any \/ line.type # "bad"
    /\ new.turns = agg.turns + One(line.type = "dispatch")
    /\ new.tokens = agg.tokens + (IF line.type = "dispatch" THEN line.tokens ELSE 0)
    /\ new.calls = agg.calls + One(line.type = "tool_result")
    /\ new.errors = agg.errors + One(line.type = "tool_result" /\ line.is_error)
    /\ new.byName = IF line.type = "tool_result" THEN Ledgers!Add(agg.byName, line.name, 1) ELSE agg.byName

\* A time stamp changes the times only.
LEMMA StampedIs ==
    ASSUME NEW agg \in Aggs, NEW line \in Ledgers!LedgerLines
    PROVE  /\ Ledgers!Stamped(agg, line) \in Aggs
           /\ Ledgers!Stamped(agg, line).any = TRUE
           /\ Ledgers!Stamped(agg, line).turns = agg.turns
           /\ Ledgers!Stamped(agg, line).tokens = agg.tokens
           /\ Ledgers!Stamped(agg, line).calls = agg.calls
           /\ Ledgers!Stamped(agg, line).errors = agg.errors
           /\ Ledgers!Stamped(agg, line).byName = agg.byName
  BY DEF Ledgers!Stamped, Aggs, Ledgers!LedgerLines, Ledgers!NoTime

\* Each line counts once.
LEMMA LineIs ==
    ASSUME NEW agg \in Aggs, NEW line \in Ledgers!LedgerLines
    PROVE  Counted1(agg, line, Ledgers!Line(agg, line))
  <1>1. PICK s \in Aggs : /\ s = Ledgers!Stamped(agg, line)
                          /\ s.any = TRUE /\ s.turns = agg.turns /\ s.tokens = agg.tokens
                          /\ s.calls = agg.calls /\ s.errors = agg.errors /\ s.byName = agg.byName
    BY StampedIs
  <1>2. line.name \in STRING /\ line.tokens \in Nat /\ line.is_error \in BOOLEAN
        /\ line.duration \in Nat \cup {Ledgers!NoDuration}
    BY DEF Ledgers!LedgerLines
  <1>3. PICK a : a = Ledgers!Add(agg.byName, line.name, 1) /\ a \in Tallies
    <2>1. agg.byName \in Tallies /\ 1 \in Nat
      BY DEF Aggs
    <2> QED
      BY <1>2, <2>1, AddCounts, Zenon
  <1>4. Ledgers!Line(agg, line) =
          CASE line.type = "bad" -> agg
            [] line.type = "dispatch" -> [s EXCEPT !.turns = @ + 1, !.tokens = @ + line.tokens]
            [] line.type = "tool_result" ->
                  [s EXCEPT !.calls = @ + 1, !.errors = @ + (IF line.is_error THEN 1 ELSE 0),
                            !.byName = Ledgers!Add(@, line.name, 1)]
            [] line.type = "final" ->
                  [s EXCEPT !.duration =
                      IF line.duration # Ledgers!NoDuration THEN line.duration ELSE @]
            [] OTHER -> s
    BY <1>1, Zenon DEF Ledgers!Line
  <1>5. CASE line.type = "bad"
    <2>1. Ledgers!Line(agg, line) = agg
      BY <1>4, <1>5, Zenon
    <2> QED
      BY <1>5, <2>1 DEF Counted1, One, Aggs
  <1>6. CASE line.type = "dispatch"
    <2>1. Ledgers!Line(agg, line) = [s EXCEPT !.turns = @ + 1, !.tokens = @ + line.tokens]
      BY <1>4, <1>6
    <2>2. PICK t \in Nat, k \in Nat : t = s.turns + 1 /\ k = s.tokens + line.tokens
      <3>1. s.turns + 1 \in Nat /\ s.tokens + line.tokens \in Nat
        BY <1>2 DEF Aggs
      <3> QED
        BY <3>1, Zenon
    <2>5. PICK new : new = [s EXCEPT !.turns = t, !.tokens = k]
      BY Zenon
    <2>6. Ledgers!Line(agg, line) = new
      BY <2>1, <2>2, <2>5 DEF Aggs
    <2>7. /\ new \in Aggs /\ new.any = s.any /\ new.turns = t /\ new.tokens = k
          /\ new.calls = s.calls /\ new.errors = s.errors /\ new.byName = s.byName
      BY <2>5 DEF Aggs
    <2>8. s.calls + 0 = s.calls /\ s.errors + 0 = s.errors
      BY DEF Aggs
    <2>3. /\ new \in Aggs /\ new.any = TRUE /\ new.turns = s.turns + 1 /\ new.tokens = s.tokens + line.tokens
          /\ new.calls = s.calls + 0 /\ new.errors = s.errors + 0 /\ new.byName = s.byName
      BY <1>1, <2>2, <2>7, <2>8, Zenon
    <2>4. ~(line.type = "tool_result") /\ line.type # "bad"
      BY <1>6
    <2> QED
      BY <1>1, <1>6, <2>3, <2>4, <2>6, Zenon DEF Counted1, One
  <1>7. CASE line.type = "tool_result"
    <2>1. Ledgers!Line(agg, line) =
            [s EXCEPT !.calls = @ + 1, !.errors = @ + (IF line.is_error THEN 1 ELSE 0),
                      !.byName = Ledgers!Add(@, line.name, 1)]
      BY <1>4, <1>7
    <2>2. Ledgers!Line(agg, line) =
            [s EXCEPT !.calls = @ + 1, !.errors = @ + (IF line.is_error THEN 1 ELSE 0), !.byName = a]
      BY <1>1, <1>3, <2>1 DEF Aggs
    <2>3. PICK more \in Nat : more = IF line.is_error THEN 1 ELSE 0
      BY <1>2
    <2>4. PICK c \in Nat, e \in Nat : c = s.calls + 1 /\ e = s.errors + more
      <3>1. s.calls + 1 \in Nat /\ s.errors + more \in Nat
        BY DEF Aggs
      <3> QED
        BY <3>1, Zenon
    <2>8. PICK new : new = [s EXCEPT !.calls = c, !.errors = e, !.byName = a]
      BY Zenon
    <2>9. /\ new \in Aggs /\ new.any = s.any /\ new.turns = s.turns /\ new.tokens = s.tokens
          /\ new.calls = c /\ new.errors = e /\ new.byName = a
      BY <1>3, <2>8 DEF Aggs
    <2>10. s.turns + 0 = s.turns /\ s.tokens + 0 = s.tokens
      BY DEF Aggs
    <2>5. /\ new \in Aggs /\ new.any = TRUE /\ new.turns = s.turns + 0 /\ new.tokens = s.tokens + 0
          /\ new.calls = s.calls + 1 /\ new.errors = s.errors + more /\ new.byName = a
      BY <1>1, <2>4, <2>9, <2>10, Zenon
    <2>6. ~(line.type = "dispatch") /\ line.type # "bad"
      BY <1>7
    <2>7. Ledgers!Line(agg, line) = new
      BY <2>2, <2>3, <2>4, <2>8 DEF Aggs
    <2> QED
      BY <1>1, <1>3, <1>7, <2>3, <2>5, <2>6, <2>7, Zenon DEF Counted1, One
  <1>8. CASE line.type = "final"
    <2>1. Ledgers!Line(agg, line) =
            [s EXCEPT !.duration =
                IF line.duration # Ledgers!NoDuration THEN line.duration ELSE @]
      BY <1>4, <1>8
    <2> QED
      BY <1>1, <1>2, <1>8, <2>1 DEF Counted1, One, Aggs
  <1>9. CASE line.type \notin {"bad", "dispatch", "tool_result", "final"}
    <2>1. Ledgers!Line(agg, line) = s
      BY <1>4, <1>9
    <2>2. ~(line.type = "dispatch") /\ ~(line.type = "tool_result") /\ line.type # "bad"
      BY <1>9
    <2>3. s.turns = s.turns + 0 /\ s.tokens = s.tokens + 0 /\ s.calls = s.calls + 0 /\ s.errors = s.errors + 0
      BY <1>1 DEF Aggs
    <2> QED
      BY <1>1, <2>1, <2>2, <2>3, Zenon DEF Counted1, One
  <1> QED
    BY <1>5, <1>6, <1>7, <1>8, <1>9

\* The figures of a ledger of which nothing parses are those of an empty one, and
\* the tools' figures make up that of all calls.
Sound(agg) ==
    /\ agg \in Aggs
    /\ agg.calls = Total(agg.byName)
    /\ ~agg.any => agg = Ledgers!EmptyAgg

\* The figures of an empty ledger.
LEMMA EmptyIsSound ==
    /\ Sound(Ledgers!EmptyAgg)
    /\ Ledgers!EmptyAgg.any = FALSE /\ Ledgers!EmptyAgg.turns = 0 /\ Ledgers!EmptyAgg.tokens = 0
    /\ Ledgers!EmptyAgg.calls = 0 /\ Ledgers!EmptyAgg.errors = 0 /\ Ledgers!EmptyAgg.byName = <<>>
  <1>1. <<>> \in Tallies /\ DOMAIN <<>> = {}
    BY TallyIs, Zenon
  <1>2. Total(<<>>) = 0
    <2>1. Sum(<<>>, {}) = 0
      BY FS_EmptySet, SetFoldSteps DEF Sum
    <2> QED
      BY <1>1, <2>1, Zenon DEF Total
  <1>3. PICK e : e = <<>> /\ e \in Tallies /\ Total(e) = 0
    BY <1>1, <1>2, Zenon
  <1>4. Ledgers!EmptyAgg =
          [any |-> FALSE, turns |-> 0, tokens |-> 0, calls |-> 0, errors |-> 0, byName |-> e,
           duration |-> Ledgers!NoDuration, first |-> 0, last |-> 0]
    BY <1>3, Zenon DEF Ledgers!EmptyAgg, Ledgers!NoTime
  <1>5. Ledgers!EmptyAgg \in Aggs
    BY <1>3, <1>4 DEF Aggs
  <1>6. /\ Ledgers!EmptyAgg.any = FALSE /\ Ledgers!EmptyAgg.turns = 0 /\ Ledgers!EmptyAgg.tokens = 0
        /\ Ledgers!EmptyAgg.calls = 0 /\ Ledgers!EmptyAgg.errors = 0 /\ Ledgers!EmptyAgg.byName = e
    BY <1>4
  <1> QED
    BY <1>3, <1>5, <1>6, Zenon DEF Sound

\* A line keeps the figures sound.
LEMMA LineKeepsSound ==
    ASSUME NEW agg, Sound(agg), NEW line \in Ledgers!LedgerLines
    PROVE  Sound(Ledgers!Line(agg, line))
  <1>1. PICK new : new = Ledgers!Line(agg, line) /\ Counted1(agg, line, new)
    BY LineIs, Zenon DEF Sound
  <1>2. /\ new \in Aggs
        /\ new.any <=> agg.any \/ line.type # "bad"
        /\ new.calls = agg.calls + One(line.type = "tool_result")
        /\ new.byName = IF line.type = "tool_result" THEN Ledgers!Add(agg.byName, line.name, 1) ELSE agg.byName
    BY <1>1, Zenon DEF Counted1
  <1>3. PICK c \in Nat, b \in Tallies : c = agg.calls /\ b = agg.byName /\ c = Total(b)
    BY DEF Sound, Aggs
  <1>4. new.calls = Total(new.byName)
    <2>1. CASE line.type = "tool_result"
      <3>1. PICK name \in STRING, one \in Nat : name = line.name /\ one = 1
        BY DEF Ledgers!LedgerLines
      <3>3. Total(Ledgers!Add(b, name, one)) = Total(b) + one
        BY AddCounts, Zenon
      <3>2. Total(Ledgers!Add(b, line.name, 1)) = c + 1
        BY <1>3, <3>1, <3>3, Zenon
      <3> QED
        BY <1>2, <1>3, <2>1, <3>2, Zenon DEF One
    <2>2. CASE line.type # "tool_result"
      <3>1. new.calls = c + 0 /\ new.byName = b
        BY <1>2, <1>3, <2>2, Zenon DEF One
      <3> QED
        BY <1>3, <3>1
    <2> QED
      BY <2>1, <2>2
  <1>5. ~new.any => new = Ledgers!EmptyAgg
    <2>1. ~new.any => ~agg.any /\ line.type = "bad"
      BY <1>2, Zenon
    <2>2. line.type = "bad" => new = agg
      BY <1>1, Zenon DEF Ledgers!Line
    <2> QED
      BY <2>1, <2>2, Zenon DEF Sound
  <1> QED
    BY <1>1, <1>2, <1>4, <1>5, Zenon DEF Sound

\* The figures of a ledger, line by line.
LEMMA LedgerRow ==
    ASSUME NEW lines \in Seq(Ledgers!LedgerLines), NEW n \in Nat, n = Len(lines)
    PROVE  \E r : /\ r[0] = Ledgers!EmptyAgg /\ r[n] = Ledgers!ParseSessionEvents(lines)
                  /\ \A i \in 0..n : Sound(r[i])
                  /\ \A i \in 1..n : Counted1(r[i - 1], lines[i], r[i])
  <1>1. PICK r : /\ r[0] = Ledgers!EmptyAgg /\ r[n] = Ledgers!ParseSessionEvents(lines)
                 /\ \A i \in 1..n : r[i] = Op("line", 0, lines, i, r[i - 1])
    <2>1. Walks("line", 0, Ledgers!EmptyAgg, lines, Len(lines), Ledgers!ParseSessionEvents(lines))
      BY LineWalks
    <2>2. Walks("line", 0, Ledgers!EmptyAgg, lines, n, Ledgers!ParseSessionEvents(lines))
      BY <2>1, Zenon
    <2> QED
      BY <2>2, Zenon DEF Walks
  <1>2. \A i \in 1..n : r[i] = Ledgers!Line(r[i - 1], lines[i])
    BY <1>1, Zenon DEF Op
  <1>3. \A i \in 1..n : lines[i] \in Ledgers!LedgerLines
    OBVIOUS
  <1> DEFINE P == {k \in 0..n : Sound(r[k])}
  <1>4. 0 \in P
    <2>1. 0 \in 0..n
      OBVIOUS
    <2> QED
      BY <1>1, <2>1, EmptyIsSound, Zenon
  <1>5. ASSUME NEW k \in 0..n, k < n, k \in P PROVE k + 1 \in P
    <2>1. k + 1 \in 1..n /\ k + 1 \in 0..n /\ (k + 1) - 1 = k
      BY <1>5, NextIn
    <2>2. r[k + 1] = Ledgers!Line(r[k], lines[k + 1])
      BY <1>2, <2>1, Zenon
    <2>3. Sound(r[k + 1])
      BY <1>3, <1>5, <2>1, <2>2, LineKeepsSound, Zenon
    <2> QED
      BY <2>1, <2>3
  <1>6. \A k \in 0..n : k \in P
    <2> HIDE DEF P
    <2> QED
      BY <1>4, <1>5, Induction, Zenon
  <1>7. ASSUME NEW i \in 1..n PROVE Counted1(r[i - 1], lines[i], r[i])
    <2>1. i - 1 \in 0..n
      OBVIOUS
    <2>2. r[i - 1] \in Aggs
      BY <1>6, <2>1, Zenon DEF Sound
    <2> QED
      BY <1>2, <1>3, <2>2, LineIs, Zenon
  <1> QED
    BY <1>1, <1>6, <1>7, Zenon

-----------------------------------------------------------------------------
(* The folds of the statistics                                             *)

IterAdd(g, a, b) ==
    g = [S \in SUBSET (DOMAIN a) |->
            IF S = {} THEN b
            ELSE Ledgers!Add(g[S \ {CHOOSE x \in S : TRUE}], CHOOSE x \in S : TRUE, a[CHOOSE x \in S : TRUE])]

\* The tools' figures of a session are added one by one.
LEMMA NamesFold ==
    ASSUME NEW a, NEW b
    PROVE  (CHOOSE g : IterAdd(g, a, b))[DOMAIN a] = SetFold("merge", a, b, DOMAIN a)
  <1>1. \A g : IterAdd(g, a, b) <=> SetIter("merge", a, b, g, DOMAIN a)
    BY Zenon DEF IterAdd, SetIter, SOp, Some
  <1>2. (CHOOSE g : IterAdd(g, a, b)) = (CHOOSE g : SetIter("merge", a, b, g, DOMAIN a))
    BY <1>1, Zenon
  <1> QED
    BY <1>2, Zenon DEF SetFold

IterSum(g, w, T) ==
    g = [S \in SUBSET T |->
            IF S = {} THEN 0 ELSE g[S \ {CHOOSE x \in S : TRUE}] + w[CHOOSE x \in S : TRUE]]

\* The tools' figures of all sessions.
LEMMA SumFold ==
    ASSUME NEW w, NEW T
    PROVE  (CHOOSE g : IterSum(g, w, T))[T] = Sum(w, T)
  <1>1. \A g : IterSum(g, w, T) <=> SetIter("sum", w, 0, g, T)
    BY Zenon DEF IterSum, SetIter, SOp, Some
  <1>2. (CHOOSE g : IterSum(g, w, T)) = (CHOOSE g : SetIter("sum", w, 0, g, T))
    BY <1>1, Zenon
  <1> QED
    BY <1>2, Zenon DEF SetFold, Sum

IterTokens(g, ledgers, T) ==
    g = [S \in SUBSET T |->
            IF S = {} THEN 0
            ELSE g[S \ {Some(S)}] + ledgers[Some(S)[1]][Some(S)[2]].tokens]

\* The tokens of the lines in T.
LEMMA TokensFold ==
    ASSUME NEW ledgers, NEW T, NEW w, w = [l \in T |-> ledgers[l[1]][l[2]].tokens]
    PROVE  (CHOOSE g : IterTokens(g, ledgers, T))[T] = Sum(w, T)
  <1>1. ASSUME NEW S \in SUBSET T, S # {}
        PROVE  ledgers[Some(S)[1]][Some(S)[2]].tokens = w[Some(S)]
    <2>1. PICK x \in T : x = Some(S)
      BY <1>1 DEF Some
    <2>2. w[x] = ledgers[x[1]][x[2]].tokens
      BY Zenon
    <2> QED
      BY <2>1, <2>2, Zenon
  <1>2. \A g : IterTokens(g, ledgers, T) <=> SetIter("sum", w, 0, g, T)
    <2>1. ASSUME NEW g
          PROVE  [S \in SUBSET T |->
                       IF S = {} THEN 0 ELSE g[S \ {Some(S)}] + ledgers[Some(S)[1]][Some(S)[2]].tokens]
                 = [S \in SUBSET T |-> IF S = {} THEN 0 ELSE SOp("sum", w, Some(S), g[S \ {Some(S)}])]
      <3>1. \A S \in SUBSET T : S # {} =>
               g[S \ {Some(S)}] + ledgers[Some(S)[1]][Some(S)[2]].tokens
               = SOp("sum", w, Some(S), g[S \ {Some(S)}])
        BY <1>1, Zenon DEF SOp
      <3> QED
        BY <3>1, Zenon
    <2> QED
      BY <2>1, Zenon DEF SetIter, IterTokens
  <1>3. (CHOOSE g : IterTokens(g, ledgers, T)) = (CHOOSE g : SetIter("sum", w, 0, g, T))
    BY <1>2, Zenon
  <1> QED
    BY <1>3, Zenon DEF SetFold, Sum

-----------------------------------------------------------------------------
(* Counting places of places                                               *)

\* c measures the subsets of T, of which each element weighs w.
Adds(c, w, T) ==
    /\ c[{}] = 0
    /\ \A S \in SUBSET T : c[S] \in Nat
    /\ \A S \in SUBSET T : \A y \in T \ S : c[S \cup {y}] = c[S] + w[y]

\* A row goes from j - 1 to j by the element of M at the place j, if there is one.
Goes(M, p, w, t, j) ==
    \/ \E l \in M : p[l] = j /\ t[j] = t[j - 1] + w[l]
    \/ (\A l \in M : p[l] # j) /\ t[j] = t[j - 1]

\* The row t of n places starts from B and goes over M, of which p is the place.
IsRow(T, c, w, B, M, p, n, t) ==
    /\ Adds(c, w, T) /\ n \in Nat
    /\ B \subseteq T /\ M \subseteq T /\ B \cap M = {}
    /\ \A l \in M : p[l] \in 1..n
    /\ \A l, k \in M : p[l] = p[k] => l = k
    /\ t[0] = c[B]
    /\ \A j \in 1..n : Goes(M, p, w, t, j)

RowEnds(c, B, M, n, t) == t[n] = c[B \cup M]

\* What lies at different places of a row adds up along it.
LEMMA CountUp ==
    ASSUME NEW T, NEW c, NEW w, NEW B, NEW M, NEW p, NEW n, NEW t, IsRow(T, c, w, B, M, p, n, t)
    PROVE  RowEnds(c, B, M, n, t)
  <1> DEFINE U(j) == B \cup {l \in M : p[l] \in 1..j}
             P == {j \in 0..n : t[j] = c[U(j)]}
  <1>0. /\ Adds(c, w, T) /\ n \in Nat /\ B \in SUBSET T /\ M \in SUBSET T
        /\ B \cap M = {} /\ t[0] = c[B] /\ \A l \in M : p[l] \in 1..n
        /\ \A l, k \in M : p[l] = p[k] => l = k
        /\ \A j \in 1..n : Goes(M, p, w, t, j)
    BY DEF IsRow
  <1>1. 0 \in P
    <2>1. 1..0 = {} /\ 0 \in 0..n
      BY <1>0
    <2>2. U(0) = B
      BY <2>1, Zenon
    <2> QED
      BY <1>0, <2>1, <2>2
  <1>2. ASSUME NEW k \in 0..n, k < n, k \in P PROVE k + 1 \in P
    <2>1. /\ k + 1 \in 1..n /\ k + 1 \in 0..n /\ (k + 1) - 1 = k
          /\ 1..k + 1 = (1..k) \cup {k + 1} /\ k + 1 \notin 1..k
      BY <1>0, <1>2, NextIn
    <2>2. U(k) \in SUBSET T
      BY <1>0
    <2>3. CASE \E l \in M : p[l] = k + 1 /\ t[k + 1] = t[k] + w[l]
      <3>1. PICK l \in M : p[l] = k + 1 /\ t[k + 1] = t[k] + w[l]
        BY <2>3
      <3>2. l \in T \ U(k)
        BY <1>0, <2>1, <3>1
      <3>3. U(k + 1) = U(k) \cup {l}
        BY <1>0, <2>1, <3>1
      <3>4. c[U(k) \cup {l}] = c[U(k)] + w[l]
        BY <1>0, <2>2, <3>2, Zenon DEF Adds
      <3>5. t[k] = c[U(k)]
        BY <1>2
      <3> QED
        BY <2>1, <3>1, <3>3, <3>4, <3>5, Zenon
    <2>4. CASE (\A l \in M : p[l] # k + 1) /\ t[k + 1] = t[k]
      <3>1. U(k + 1) = U(k)
        BY <2>1, <2>4
      <3> QED
        BY <1>2, <2>1, <2>4, <3>1, Zenon
    <2>5. Goes(M, p, w, t, k + 1)
      BY <1>0, <2>1
    <2> QED
      BY <2>1, <2>3, <2>4, <2>5, Zenon DEF Goes
  <1>3. n \in P
    <2>1. n \in Nat /\ n \in 0..n
      BY <1>0
    <2> HIDE DEF P
    <2> QED
      BY <1>1, <1>2, <2>1, Induction, Zenon
  <1>4. U(n) = B \cup M
    BY <1>0
  <1> QED
    BY <1>3, <1>4, Zenon DEF RowEnds

\* The row of a session: the element of T that lies at its place j, if there is one.
GoesIn(T, a, b, w, v, i, j) ==
    \/ \E l \in T : a[l] = i /\ b[l] = j /\ v[j] = v[j - 1] + w[l]
    \/ (\A l \in T : ~(a[l] = i /\ b[l] = j)) /\ v[j] = v[j - 1]

\* The rows v of n sessions, session by session, and t, the row of their ends.  An
\* element of T lies in the session a at the place b.
IsGrid(T, c, w, n, len, a, b, v, t) ==
    /\ Adds(c, w, T) /\ \A l \in T : w[l] \in Nat
    /\ n \in Nat /\ \A i \in 1..n : len[i] \in Nat
    /\ \A l \in T : a[l] \in 1..n /\ b[l] \in 1..len[a[l]]
    /\ \A l, k \in T : a[l] = a[k] /\ b[l] = b[k] => l = k
    /\ \A i \in 1..n : /\ v[i][0] = 0 /\ \A j \in 0..len[i] : v[i][j] \in Nat
                       /\ \A j \in 1..len[i] : GoesIn(T, a, b, w, v[i], i, j)
    /\ t[0] = 0 /\ \A i \in 1..n : t[i] = t[i - 1] + v[i][len[i]]

GridEnds(T, c, n, t) == t[n] = c[T]

\* What is counted along the rows, and then row by row, is counted once.
LEMMA CountAll ==
    ASSUME NEW T, NEW c, NEW w, NEW n, NEW len, NEW a, NEW b, NEW v, NEW t,
           IsGrid(T, c, w, n, len, a, b, v, t)
    PROVE  GridEnds(T, c, n, t)
  <1> SUFFICES ASSUME Adds(c, w, T), \A l \in T : w[l] \in Nat,
                      n \in Nat, \A i \in 1..n : len[i] \in Nat,
                      \A l \in T : a[l] \in 1..n /\ b[l] \in 1..len[a[l]],
                      \A l, k \in T : a[l] = a[k] /\ b[l] = b[k] => l = k,
                      \A i \in 1..n : /\ v[i][0] = 0 /\ \A j \in 0..len[i] : v[i][j] \in Nat
                                      /\ \A j \in 1..len[i] : GoesIn(T, a, b, w, v[i], i, j),
                      t[0] = 0, \A i \in 1..n : t[i] = t[i - 1] + v[i][len[i]]
               PROVE  t[n] = c[T]
    BY Zenon DEF IsGrid, GridEnds
  <1> DEFINE U(i) == {l \in T : a[l] \in 1..i}
             P == {i \in 0..n : t[i] = c[U(i)]}
  <1>1. 0 \in P
    <2>1. 1..0 = {} /\ 0 \in 0..n
      OBVIOUS
    <2>2. U(0) = {}
      BY <2>1, Zenon
    <2> QED
      BY <2>1, <2>2 DEF Adds
  <1>2. ASSUME NEW k \in 0..n, k < n, k \in P PROVE k + 1 \in P
    <2>1. /\ k + 1 \in 1..n /\ k + 1 \in 0..n /\ (k + 1) - 1 = k
          /\ 1..k + 1 = (1..k) \cup {k + 1} /\ k + 1 \notin 1..k
      BY <1>2, NextIn
    <2>2. PICK i \in 1..n, m \in Nat : i = k + 1 /\ m = len[i]
      BY <2>1
    <2> DEFINE B == U(k)
               M == {l \in T : a[l] = i}
               u == v[i]
               r == [j \in 0..m |-> c[B] + u[j]]
    <2>3. B \in SUBSET T /\ M \in SUBSET T /\ B \cap M = {} /\ U(k + 1) = B \cup M
      BY <2>1, <2>2
    <2>4. \A l \in M : b[l] \in 1..m
      BY <2>2
    <2>5. \A l, x \in M : b[l] = b[x] => l = x
      OBVIOUS
    <2>6. c[B] \in Nat
      BY <2>3, Zenon DEF Adds
    <2>7. u[0] = 0 /\ \A j \in 0..m : u[j] \in Nat
      BY <2>2, Zenon
    <2>8. r[0] = c[B]
      BY <2>6, <2>7
    <2>9. ASSUME NEW j \in 1..m PROVE Goes(M, b, w, r, j)
      <3>1. j - 1 \in 0..m /\ j \in 0..m
        OBVIOUS
      <3>2. r[j] = c[B] + u[j] /\ r[j - 1] = c[B] + u[j - 1] /\ u[j - 1] \in Nat
        BY <2>7, <3>1, Zenon
      <3>3. GoesIn(T, a, b, w, u, i, j)
        BY <2>2, Zenon
      <3>4. CASE \E l \in T : a[l] = i /\ b[l] = j /\ u[j] = u[j - 1] + w[l]
        <4>1. PICK l \in T : a[l] = i /\ b[l] = j /\ u[j] = u[j - 1] + w[l]
          BY <3>4, Zenon
        <4>2. PICK x \in Nat, y \in Nat, z \in Nat : x = c[B] /\ y = u[j - 1] /\ z = w[l]
          BY <2>6, <3>2, Zenon
        <4>3. r[j] = x + (y + z) /\ r[j - 1] = x + y
          BY <3>2, <4>1, <4>2, Zenon
        <4>4. r[j] = r[j - 1] + z
          <5> HIDE DEF r, B, u
          <5> QED
            BY <4>2, <4>3
        <4>5. l \in M
          BY <4>1
        <4> QED
          BY <4>1, <4>2, <4>4, <4>5, Zenon DEF Goes
      <3>5. CASE (\A l \in T : ~(a[l] = i /\ b[l] = j)) /\ u[j] = u[j - 1]
        <4>1. \A l \in M : b[l] # j
          BY <3>5
        <4>2. r[j] = r[j - 1]
          BY <3>2, <3>5, Zenon
        <4> QED
          BY <4>1, <4>2, Zenon DEF Goes
      <3> QED
        BY <3>3, <3>4, <3>5, Zenon DEF GoesIn
    <2>10. r[m] = c[B \cup M]
      <3> HIDE DEF r, B, M
      <3> QED
        <4>1. B \subseteq T /\ M \subseteq T
          BY <2>3
        <4>2. IsRow(T, c, w, B, M, b, m, r)
          BY <2>2, <2>3, <2>4, <2>5, <2>8, <2>9, <4>1, Zenon DEF IsRow
        <4>3. RowEnds(c, B, M, m, r)
          BY <4>2, CountUp, Zenon
        <4> QED
          BY <4>3, Zenon DEF RowEnds
    <2>11. r[m] = c[B] + u[m]
      <3>1. m \in 0..m
        BY <2>2
      <3> QED
        BY <3>1, Zenon
    <2>12. t[k + 1] = t[k] + u[m]
      BY <2>1, <2>2, Zenon
    <2>13. t[k] = c[B]
      BY <1>2
    <2> QED
      BY <2>1, <2>3, <2>10, <2>11, <2>12, <2>13, Zenon
  <1>3. n \in P
    <2>1. n \in 0..n
      OBVIOUS
    <2> HIDE DEF P
    <2> QED
      BY <1>1, <1>2, <2>1, Induction, Zenon
  <1>4. U(n) = T
    OBVIOUS
  <1> QED
    BY <1>3, <1>4

\* Numbers of elements, and sums.
LEMMA CountsAdd ==
    ASSUME NEW T, IsFiniteSet(T)
    PROVE  /\ \A w : (\A l \in T : w[l] = 1) => Adds([S \in SUBSET T |-> Ledgers!Cardinality(S)], w, T)
           /\ \A w : (\A l \in T : w[l] \in Nat) => Adds([S \in SUBSET T |-> Sum(w, S)], w, T)
  <1>1. ASSUME NEW w, \A l \in T : w[l] = 1 PROVE Adds([S \in SUBSET T |-> Ledgers!Cardinality(S)], w, T)
    <2> DEFINE c == [S \in SUBSET T |-> Ledgers!Cardinality(S)]
    <2>1. ASSUME NEW S \in SUBSET T PROVE c[S] = Cardinality(S) /\ c[S] \in Nat /\ IsFiniteSet(S)
      <3>1. c[S] = Cardinality(S)
        BY SameCount, Zenon
      <3>2. IsFiniteSet(S)
        BY FS_Subset
      <3> QED
        BY <3>1, <3>2, FS_CardinalityType
    <2>2. c[{}] = 0
      <3>1. {} \in SUBSET T
        OBVIOUS
      <3> QED
        BY <2>1, <3>1, FS_EmptySet
    <2>3. ASSUME NEW S \in SUBSET T, NEW y \in T \ S PROVE c[S \cup {y}] = c[S] + w[y]
      <3>1. S \cup {y} \in SUBSET T
        OBVIOUS
      <3>2. Cardinality(S \cup {y}) = Cardinality(S) + 1
        BY <2>1, FS_AddElement
      <3>3. w[y] = 1
        BY <1>1
      <3> HIDE DEF c
      <3> QED
        BY <2>1, <3>1, <3>2, <3>3
    <2> HIDE DEF c
    <2>4. Adds(c, w, T)
      BY <2>1, <2>2, <2>3, Zenon DEF Adds
    <2> QED
      BY <2>4 DEF c
  <1>2. ASSUME NEW w, \A l \in T : w[l] \in Nat PROVE Adds([S \in SUBSET T |-> Sum(w, S)], w, T)
    <2> DEFINE c == [S \in SUBSET T |-> Sum(w, S)]
    <2>1. Sum(w, {}) = 0 /\ \A S \in SUBSET T : Sum(w, S) \in Nat
      BY <1>2, SumIs
    <2>2. \A S \in SUBSET T : c[S] = Sum(w, S)
      BY Zenon
    <2>3. {} \in SUBSET T
      OBVIOUS
    <2>4. ASSUME NEW S \in SUBSET T, NEW y \in T \ S PROVE c[S \cup {y}] = c[S] + w[y]
      <3>1. S \cup {y} \in SUBSET T /\ y \notin S
        OBVIOUS
      <3>2. IsFiniteSet(S)
        BY FS_Subset
      <3>3. w[y] \in Nat /\ \A x \in S : w[x] \in Nat
        BY <1>2
      <3>4. Sum(w, S \cup {y}) = Sum(w, S) + w[y]
        BY <3>1, <3>2, <3>3, SumAdds
      <3> QED
        BY <2>2, <3>1, <3>4, Zenon
    <2> HIDE DEF c
    <2>5. Adds(c, w, T)
      BY <2>1, <2>2, <2>3, <2>4, Zenon DEF Adds
    <2> QED
      BY <2>5 DEF c
  <1> QED
    BY <1>1, <1>2, Zenon

-----------------------------------------------------------------------------
(* The statistics of all sessions                                          *)

Stats == [sessions : Nat, turns : Nat, tokens : Nat, calls : Nat, errors : Nat, byName : Tallies,
          timed : Nat, time : Nat, first : Nat, last : Nat]

\* Two statistics together.
Plus(s, x) ==
    [sessions |-> s.sessions + x.sessions, turns |-> s.turns + x.turns, tokens |-> s.tokens + x.tokens,
     calls |-> s.calls + x.calls, errors |-> s.errors + x.errors, byName |-> Joined(s.byName, x.byName),
     timed |-> s.timed + x.timed, time |-> s.time + x.time,
     first |-> Ledgers!Earlier(s.first, x.first), last |-> Ledgers!Later(s.last, x.last)]

\* The same, field by field.
IsPlus(s, x, f) ==
    /\ f.sessions = s.sessions + x.sessions /\ f.turns = s.turns + x.turns
    /\ f.tokens = s.tokens + x.tokens /\ f.calls = s.calls + x.calls
    /\ f.errors = s.errors + x.errors /\ f.byName = Joined(s.byName, x.byName)
    /\ f.timed = s.timed + x.timed /\ f.time = s.time + x.time
    /\ f.first = Ledgers!Earlier(s.first, x.first) /\ f.last = Ledgers!Later(s.last, x.last)

\* The same fields.
Alike(s, x) ==
    /\ s.sessions = x.sessions /\ s.turns = x.turns /\ s.tokens = x.tokens /\ s.calls = x.calls
    /\ s.errors = x.errors /\ s.byName = x.byName /\ s.timed = x.timed /\ s.time = x.time
    /\ s.first = x.first /\ s.last = x.last

\* The first and the last time.
LEMMA TimesJoin ==
    ASSUME NEW x \in Nat, NEW y \in Nat, NEW z \in Nat
    PROVE  /\ Ledgers!Earlier(x, y) \in Nat /\ Ledgers!Later(x, y) \in Nat
           /\ Ledgers!Earlier(x, y) = Ledgers!Earlier(y, x) /\ Ledgers!Later(x, y) = Ledgers!Later(y, x)
           /\ Ledgers!Earlier(Ledgers!Earlier(x, y), z) = Ledgers!Earlier(x, Ledgers!Earlier(y, z))
           /\ Ledgers!Later(Ledgers!Later(x, y), z) = Ledgers!Later(x, Ledgers!Later(y, z))
           /\ Ledgers!Earlier(0, x) = x /\ Ledgers!Later(0, x) = x
  BY DEF Ledgers!Earlier, Ledgers!Later, Ledgers!NoTime

\* The fields of statistics.
LEMMA StatsAre ==
    ASSUME NEW s \in Stats
    PROVE  /\ s.sessions \in Nat /\ s.turns \in Nat /\ s.tokens \in Nat /\ s.calls \in Nat /\ s.errors \in Nat
           /\ s.byName \in Tallies /\ s.timed \in Nat /\ s.time \in Nat /\ s.first \in Nat /\ s.last \in Nat
           /\ s = [sessions |-> s.sessions, turns |-> s.turns, tokens |-> s.tokens, calls |-> s.calls,
                   errors |-> s.errors, byName |-> s.byName, timed |-> s.timed, time |-> s.time,
                   first |-> s.first, last |-> s.last]
  BY DEF Stats

\* Statistics together are statistics.
LEMMA PlusIs ==
    ASSUME NEW s \in Stats, NEW x \in Stats
    PROVE  Plus(s, x) \in Stats /\ IsPlus(s, x, Plus(s, x))
  <1>1. PICK a \in Nat, b \in Nat, c \in Nat, d \in Nat, e \in Nat, g \in Nat, h \in Nat :
            /\ a = s.sessions + x.sessions /\ b = s.turns + x.turns /\ c = s.tokens + x.tokens
            /\ d = s.calls + x.calls /\ e = s.errors + x.errors /\ g = s.timed + x.timed /\ h = s.time + x.time
    <2>1. /\ s.sessions + x.sessions \in Nat /\ s.turns + x.turns \in Nat /\ s.tokens + x.tokens \in Nat
          /\ s.calls + x.calls \in Nat /\ s.errors + x.errors \in Nat /\ s.timed + x.timed \in Nat
          /\ s.time + x.time \in Nat
      BY StatsAre
    <2> QED
      BY <2>1, Zenon
  <1>2. PICK j \in Tallies, k \in Nat, l \in Nat :
            /\ j = Joined(s.byName, x.byName) /\ k = Ledgers!Earlier(s.first, x.first)
            /\ l = Ledgers!Later(s.last, x.last)
    <2>1. PICK u \in Tallies, v \in Tallies : u = s.byName /\ v = x.byName
      BY StatsAre, Zenon
    <2>2. Joined(u, v) \in Tallies
      BY MergeJoins, Zenon
    <2>3. PICK y \in Nat, z \in Nat : y = s.first /\ z = x.first
      BY StatsAre, Zenon
    <2>4. PICK o \in Nat, p \in Nat : o = s.last /\ p = x.last
      BY StatsAre, Zenon
    <2>5. Ledgers!Earlier(y, z) \in Nat /\ Ledgers!Later(o, p) \in Nat
      BY TimesJoin, Zenon
    <2> QED
      BY <2>1, <2>2, <2>3, <2>4, <2>5, Zenon
  <1>3. PICK f : f = Plus(s, x)
    BY Zenon
  <1>4. f = [sessions |-> a, turns |-> b, tokens |-> c, calls |-> d, errors |-> e, byName |-> j,
             timed |-> g, time |-> h, first |-> k, last |-> l]
    BY <1>1, <1>2, <1>3, Zenon DEF Plus
  <1>5. /\ f \in Stats /\ f.sessions = a /\ f.turns = b /\ f.tokens = c /\ f.calls = d /\ f.errors = e
        /\ f.byName = j /\ f.timed = g /\ f.time = h /\ f.first = k /\ f.last = l
    BY <1>4 DEF Stats
  <1> QED
    BY <1>1, <1>2, <1>3, <1>5, Zenon DEF IsPlus

\* Statistics with the same fields are the same.
LEMMA SameStats ==
    ASSUME NEW s \in Stats, NEW x \in Stats, Alike(s, x)
    PROVE  s = x
  BY StatsAre, Zenon DEF Alike

\* No statistics.
LEMMA NoStatsAre ==
    /\ Ledgers!NoStats \in Stats
    /\ Ledgers!NoStats.sessions = 0 /\ Ledgers!NoStats.turns = 0 /\ Ledgers!NoStats.tokens = 0
    /\ Ledgers!NoStats.calls = 0 /\ Ledgers!NoStats.errors = 0 /\ Ledgers!NoStats.byName = <<>>
    /\ Ledgers!NoStats.timed = 0 /\ Ledgers!NoStats.time = 0
    /\ Ledgers!NoStats.first = 0 /\ Ledgers!NoStats.last = 0
  <1>1. PICK e \in Tallies : e = <<>>
    BY TallyIs, Zenon
  <1>2. PICK f : f = Ledgers!NoStats
    BY Zenon
  <1>3. f = [sessions |-> 0, turns |-> 0, tokens |-> 0, calls |-> 0, errors |-> 0, byName |-> e,
             timed |-> 0, time |-> 0, first |-> 0, last |-> 0]
    BY <1>1, <1>2, Zenon DEF Ledgers!NoStats, Ledgers!NoTime
  <1>4. /\ f \in Stats /\ f.sessions = 0 /\ f.turns = 0 /\ f.tokens = 0 /\ f.calls = 0 /\ f.errors = 0
        /\ f.byName = e /\ f.timed = 0 /\ f.time = 0 /\ f.first = 0 /\ f.last = 0
    BY <1>3 DEF Stats
  <1> QED
    BY <1>1, <1>2, <1>4, Zenon

\* In whatever order statistics are taken together.
LEMMA PlusCommutes ==
    ASSUME NEW s \in Stats, NEW x \in Stats
    PROVE  Plus(s, x) = Plus(x, s)
  <1>1. PICK f \in Stats, g \in Stats : /\ f = Plus(s, x) /\ IsPlus(s, x, f)
                                      /\ g = Plus(x, s) /\ IsPlus(x, s, g)
    BY PlusIs, Zenon
  <1>2. /\ f.sessions = s.sessions + x.sessions /\ f.turns = s.turns + x.turns
        /\ f.tokens = s.tokens + x.tokens /\ f.calls = s.calls + x.calls
        /\ f.errors = s.errors + x.errors /\ f.byName = Joined(s.byName, x.byName)
        /\ f.timed = s.timed + x.timed /\ f.time = s.time + x.time
        /\ f.first = Ledgers!Earlier(s.first, x.first) /\ f.last = Ledgers!Later(s.last, x.last)
    BY <1>1, Zenon DEF IsPlus
  <1>3. /\ g.sessions = x.sessions + s.sessions /\ g.turns = x.turns + s.turns
        /\ g.tokens = x.tokens + s.tokens /\ g.calls = x.calls + s.calls
        /\ g.errors = x.errors + s.errors /\ g.byName = Joined(x.byName, s.byName)
        /\ g.timed = x.timed + s.timed /\ g.time = x.time + s.time
        /\ g.first = Ledgers!Earlier(x.first, s.first) /\ g.last = Ledgers!Later(x.last, s.last)
    BY <1>1, Zenon DEF IsPlus
  <1>4. /\ s.sessions + x.sessions = x.sessions + s.sessions /\ s.turns + x.turns = x.turns + s.turns
        /\ s.tokens + x.tokens = x.tokens + s.tokens /\ s.calls + x.calls = x.calls + s.calls
        /\ s.errors + x.errors = x.errors + s.errors
        /\ s.timed + x.timed = x.timed + s.timed /\ s.time + x.time = x.time + s.time
    BY StatsAre
  <1>5. Joined(s.byName, x.byName) = Joined(x.byName, s.byName)
    BY StatsAre, JoinedLaws, Zenon
  <1>6. /\ Ledgers!Earlier(s.first, x.first) = Ledgers!Earlier(x.first, s.first)
        /\ Ledgers!Later(s.last, x.last) = Ledgers!Later(x.last, s.last)
    BY StatsAre, TimesJoin, Zenon
  <1>7. f = g
    <2>1. Alike(f, g)
      BY <1>2, <1>3, <1>4, <1>5, <1>6, Zenon DEF Alike
    <2> QED
      BY <2>1, SameStats, Zenon
  <1> QED
    BY <1>1, <1>7

\* However they are put together.
LEMMA PlusAssociates ==
    ASSUME NEW s \in Stats, NEW x \in Stats, NEW y \in Stats
    PROVE  Plus(Plus(s, x), y) = Plus(s, Plus(x, y))
  <1>1. PICK f \in Stats, g \in Stats : /\ f = Plus(s, x) /\ IsPlus(s, x, f)
                                      /\ g = Plus(x, y) /\ IsPlus(x, y, g)
    BY PlusIs, Zenon
  <1>2. PICK d \in Stats, e \in Stats : /\ d = Plus(f, y) /\ IsPlus(f, y, d)
                                      /\ e = Plus(s, g) /\ IsPlus(s, g, e)
    BY PlusIs, Zenon
  <1>3. /\ d.sessions = f.sessions + y.sessions /\ d.turns = f.turns + y.turns
        /\ d.tokens = f.tokens + y.tokens /\ d.calls = f.calls + y.calls
        /\ d.errors = f.errors + y.errors /\ d.byName = Joined(f.byName, y.byName)
        /\ d.timed = f.timed + y.timed /\ d.time = f.time + y.time
        /\ d.first = Ledgers!Earlier(f.first, y.first) /\ d.last = Ledgers!Later(f.last, y.last)
    BY <1>2, Zenon DEF IsPlus
  <1>4. /\ e.sessions = s.sessions + g.sessions /\ e.turns = s.turns + g.turns
        /\ e.tokens = s.tokens + g.tokens /\ e.calls = s.calls + g.calls
        /\ e.errors = s.errors + g.errors /\ e.byName = Joined(s.byName, g.byName)
        /\ e.timed = s.timed + g.timed /\ e.time = s.time + g.time
        /\ e.first = Ledgers!Earlier(s.first, g.first) /\ e.last = Ledgers!Later(s.last, g.last)
    BY <1>2, Zenon DEF IsPlus
  <1>5. /\ f.sessions = s.sessions + x.sessions /\ f.turns = s.turns + x.turns
        /\ f.tokens = s.tokens + x.tokens /\ f.calls = s.calls + x.calls
        /\ f.errors = s.errors + x.errors /\ f.byName = Joined(s.byName, x.byName)
        /\ f.timed = s.timed + x.timed /\ f.time = s.time + x.time
        /\ f.first = Ledgers!Earlier(s.first, x.first) /\ f.last = Ledgers!Later(s.last, x.last)
    BY <1>1, Zenon DEF IsPlus
  <1>6. /\ g.sessions = x.sessions + y.sessions /\ g.turns = x.turns + y.turns
        /\ g.tokens = x.tokens + y.tokens /\ g.calls = x.calls + y.calls
        /\ g.errors = x.errors + y.errors /\ g.byName = Joined(x.byName, y.byName)
        /\ g.timed = x.timed + y.timed /\ g.time = x.time + y.time
        /\ g.first = Ledgers!Earlier(x.first, y.first) /\ g.last = Ledgers!Later(x.last, y.last)
    BY <1>1, Zenon DEF IsPlus
  <1>7. /\ s.sessions \in Nat /\ x.sessions \in Nat /\ y.sessions \in Nat
        /\ s.turns \in Nat /\ x.turns \in Nat /\ y.turns \in Nat
        /\ s.tokens \in Nat /\ x.tokens \in Nat /\ y.tokens \in Nat
        /\ s.calls \in Nat /\ x.calls \in Nat /\ y.calls \in Nat
        /\ s.errors \in Nat /\ x.errors \in Nat /\ y.errors \in Nat
        /\ s.timed \in Nat /\ x.timed \in Nat /\ y.timed \in Nat
        /\ s.time \in Nat /\ x.time \in Nat /\ y.time \in Nat
    BY StatsAre, Zenon
  <1>8. d.sessions = e.sessions /\ d.turns = e.turns /\ d.tokens = e.tokens /\ d.calls = e.calls
    BY <1>3, <1>4, <1>5, <1>6, <1>7
  <1>9. d.errors = e.errors /\ d.timed = e.timed /\ d.time = e.time
    BY <1>3, <1>4, <1>5, <1>6, <1>7
  <1>10. d.byName = e.byName
    <2>1. PICK u \in Tallies, v \in Tallies, w \in Tallies : u = s.byName /\ v = x.byName /\ w = y.byName
      BY StatsAre, Zenon
    <2>2. Joined(Joined(u, v), w) = Joined(u, Joined(v, w))
      BY JoinedLaws, Zenon
    <2> QED
      BY <1>3, <1>4, <1>5, <1>6, <2>1, <2>2, Zenon
  <1>11. d.first = e.first
    <2>1. PICK u \in Nat, v \in Nat, w \in Nat : u = s.first /\ v = x.first /\ w = y.first
      BY StatsAre, Zenon
    <2>2. Ledgers!Earlier(Ledgers!Earlier(u, v), w) = Ledgers!Earlier(u, Ledgers!Earlier(v, w))
      BY TimesJoin
    <2> QED
      BY <1>3, <1>4, <1>5, <1>6, <2>1, <2>2, Zenon
  <1>12. d.last = e.last
    <2>1. PICK u \in Nat, v \in Nat, w \in Nat : u = s.last /\ v = x.last /\ w = y.last
      BY StatsAre, Zenon
    <2>2. Ledgers!Later(Ledgers!Later(u, v), w) = Ledgers!Later(u, Ledgers!Later(v, w))
      BY TimesJoin
    <2> QED
      BY <1>3, <1>4, <1>5, <1>6, <2>1, <2>2, Zenon
  <1>13. d = e
    <2>1. Alike(d, e)
      BY <1>8, <1>9, <1>10, <1>11, <1>12, Zenon DEF Alike
    <2> QED
      BY <2>1, SameStats, Zenon
  <1> QED
    BY <1>1, <1>2, <1>13, Zenon

\* No statistics add nothing.
LEMMA PlusNone ==
    ASSUME NEW s \in Stats
    PROVE  Plus(Ledgers!NoStats, s) = s /\ Plus(s, Ledgers!NoStats) = s
  <1>1. PICK o \in Stats : o = Ledgers!NoStats
    BY NoStatsAre, Zenon
  <1>2. PICK f \in Stats : f = Plus(o, s) /\ IsPlus(o, s, f)
    BY PlusIs, Zenon
  <1>3. /\ f.sessions = o.sessions + s.sessions /\ f.turns = o.turns + s.turns
        /\ f.tokens = o.tokens + s.tokens /\ f.calls = o.calls + s.calls
        /\ f.errors = o.errors + s.errors /\ f.byName = Joined(o.byName, s.byName)
        /\ f.timed = o.timed + s.timed /\ f.time = o.time + s.time
        /\ f.first = Ledgers!Earlier(o.first, s.first) /\ f.last = Ledgers!Later(o.last, s.last)
    BY <1>2, Zenon DEF IsPlus
  <1>4. /\ o.sessions = 0 /\ o.turns = 0 /\ o.tokens = 0 /\ o.calls = 0 /\ o.errors = 0 /\ o.byName = <<>>
        /\ o.timed = 0 /\ o.time = 0 /\ o.first = 0 /\ o.last = 0
    BY <1>1, NoStatsAre, Zenon
  <1>5. /\ 0 + s.sessions = s.sessions /\ 0 + s.turns = s.turns /\ 0 + s.tokens = s.tokens
        /\ 0 + s.calls = s.calls /\ 0 + s.errors = s.errors /\ 0 + s.timed = s.timed /\ 0 + s.time = s.time
    BY StatsAre
  <1>6. Joined(<<>>, s.byName) = s.byName
    BY StatsAre, JoinedLaws, Zenon
  <1>7. Ledgers!Earlier(0, s.first) = s.first /\ Ledgers!Later(0, s.last) = s.last
    BY StatsAre, TimesJoin, Zenon
  <1>8. f = s
    <2>1. Alike(f, s)
      BY <1>3, <1>4, <1>5, <1>6, <1>7, Zenon DEF Alike
    <2> QED
      BY <2>1, SameStats, Zenon
  <1> QED
    BY <1>1, <1>2, <1>8, PlusCommutes, Zenon

-----------------------------------------------------------------------------
(* The share of one session                                                *)

\* A session that says how long it took counts as timed, whatever it says.
Timed(agg) == IF agg.duration # Ledgers!NoDuration THEN 1 ELSE 0
TimeOf(agg) == IF agg.duration # Ledgers!NoDuration THEN agg.duration ELSE 0

Share(agg) ==
    IF ~agg.any THEN Ledgers!NoStats
    ELSE [sessions |-> 1, turns |-> agg.turns, tokens |-> agg.tokens, calls |-> agg.calls,
          errors |-> agg.errors, byName |-> agg.byName, timed |-> Timed(agg),
          time |-> TimeOf(agg), first |-> agg.first, last |-> agg.last]

\* The same, field by field.
IsShare(agg, x) ==
    /\ x \in Stats
    /\ x.sessions = One(agg.any) /\ x.turns = agg.turns /\ x.tokens = agg.tokens
    /\ x.calls = agg.calls /\ x.errors = agg.errors /\ x.byName = agg.byName

\* A session of which nothing parses has no share.
LEMMA ShareIs ==
    ASSUME NEW agg, Sound(agg)
    PROVE  IsShare(agg, Share(agg))
  <1>1. CASE ~agg.any
    <2>1. agg = Ledgers!EmptyAgg /\ Share(agg) = Ledgers!NoStats
      BY <1>1, Zenon DEF Sound, Share
    <2>2. One(agg.any) = 0
      BY <1>1, Zenon DEF One
    <2>3. PICK x : x = Ledgers!NoStats
      BY Zenon
    <2>4. x \in Stats /\ x.sessions = 0 /\ x.turns = 0 /\ x.tokens = 0 /\ x.calls = 0 /\ x.errors = 0 /\ x.byName = <<>>
      BY <2>3, NoStatsAre, Zenon
    <2>5. agg.turns = 0 /\ agg.tokens = 0 /\ agg.calls = 0 /\ agg.errors = 0 /\ agg.byName = <<>>
      BY <2>1, EmptyIsSound, Zenon
    <2> QED
      BY <2>1, <2>2, <2>3, <2>4, <2>5, Zenon DEF IsShare
  <1>2. CASE agg.any
    <2>1. PICK x : x = Share(agg)
      BY Zenon
    <2>2. PICK long \in Nat, time \in Nat : long = Timed(agg) /\ time = TimeOf(agg)
      BY DEF Timed, TimeOf, Sound, Aggs
    <2>3. x = [sessions |-> 1, turns |-> agg.turns, tokens |-> agg.tokens, calls |-> agg.calls,
               errors |-> agg.errors, byName |-> agg.byName, timed |-> long,
               time |-> time, first |-> agg.first, last |-> agg.last]
      BY <1>2, <2>1, <2>2, Zenon DEF Share
    <2>4. agg \in Aggs
      BY Zenon DEF Sound
    <2>5. /\ x \in Stats /\ x.sessions = 1 /\ x.turns = agg.turns /\ x.tokens = agg.tokens
          /\ x.calls = agg.calls /\ x.errors = agg.errors /\ x.byName = agg.byName
      BY <2>3, <2>4 DEF Stats, Aggs
    <2>6. One(agg.any) = 1
      BY <1>2, Zenon DEF One
    <2> QED
      BY <2>1, <2>5, <2>6, Zenon DEF IsShare
  <1> QED
    BY <1>1, <1>2

\* A session adds its share.
LEMMA SessionPlus ==
    ASSUME NEW stats \in Stats, NEW lines, NEW agg, agg = Ledgers!ParseSessionEvents(lines), Sound(agg)
    PROVE  Ledgers!WithSession(stats, lines) = Plus(stats, Share(agg))
  <1>1. CASE ~agg.any
    <2>1. Ledgers!WithSession(stats, lines) = stats
      BY <1>1, Zenon DEF Ledgers!WithSession
    <2>2. Share(agg) = Ledgers!NoStats
      BY <1>1, Zenon DEF Share
    <2> QED
      BY <2>1, <2>2, PlusNone, Zenon
  <1>2. CASE agg.any
    <2>1. Ledgers!WithSession(stats, lines) =
             [sessions |-> stats.sessions + 1,
              turns |-> stats.turns + agg.turns,
              tokens |-> stats.tokens + agg.tokens,
              calls |-> stats.calls + agg.calls,
              errors |-> stats.errors + agg.errors,
              byName |-> (CHOOSE g : IterAdd(g, agg.byName, stats.byName))[DOMAIN agg.byName],
              timed |-> stats.timed + Timed(agg),
              time |-> stats.time + TimeOf(agg),
              first |-> Ledgers!Earlier(stats.first, agg.first),
              last |-> Ledgers!Later(stats.last, agg.last)]
      BY <1>2 DEF Ledgers!WithSession, Ledgers!FoldSet, Ledgers!MapThenFoldSet, IterAdd, Timed, TimeOf
    <2>2. PICK b \in Tallies, a \in Tallies : b = stats.byName /\ a = agg.byName
      BY StatsAre DEF Sound, Aggs
    <2>3. (CHOOSE g : IterAdd(g, a, b))[DOMAIN a] = SetFold("merge", a, b, DOMAIN a)
      BY NamesFold, Zenon
    <2>4. SetFold("merge", a, b, DOMAIN a) = Joined(b, a)
      BY MergeJoins, Zenon
    <2>5. (CHOOSE g : IterAdd(g, agg.byName, stats.byName))[DOMAIN agg.byName]
          = Joined(stats.byName, agg.byName)
      BY <2>2, <2>3, <2>4, Zenon
    <2>6. PICK long, time : long = Timed(agg) /\ time = TimeOf(agg)
      BY Zenon
    <2>7. PICK x : x = Share(agg)
      BY Zenon
    <2>8. x = [sessions |-> 1, turns |-> agg.turns, tokens |-> agg.tokens, calls |-> agg.calls,
               errors |-> agg.errors, byName |-> agg.byName, timed |-> long,
               time |-> time, first |-> agg.first, last |-> agg.last]
      BY <1>2, <2>6, <2>7, Zenon DEF Share
    <2>9. /\ x.sessions = 1 /\ x.turns = agg.turns /\ x.tokens = agg.tokens
          /\ x.calls = agg.calls /\ x.errors = agg.errors /\ x.byName = agg.byName
          /\ x.timed = long /\ x.time = time /\ x.first = agg.first /\ x.last = agg.last
      BY <2>8
    <2> QED
      BY <2>1, <2>5, <2>6, <2>7, <2>9, Zenon DEF Plus
  <1> QED
    BY <1>1, <1>2

-----------------------------------------------------------------------------
(* The rows of sessions and of lines                                       *)

Places == Seq(Seq(Ledgers!LedgerLines))

ShareAt(ledgers, i) == Share(Ledgers!ParseSessionEvents(ledgers[i]))

\* What the lines of one ledger come to, line by line.
IsLedgerRow(lines, r) ==
    /\ r[0] = Ledgers!EmptyAgg /\ r[Len(lines)] = Ledgers!ParseSessionEvents(lines)
    /\ \A i \in 0..Len(lines) : Sound(r[i])
    /\ \A i \in 1..Len(lines) : Counted1(r[i - 1], lines[i], r[i])

LedgerRowOf(lines) == CHOOSE r : IsLedgerRow(lines, r)

\* What the sessions come to, session by session.
IsStatsRow(ledgers, n, s) ==
    /\ s[0] = Ledgers!NoStats /\ s[n] = Ledgers!Summed(ledgers)
    /\ \A i \in 0..n : s[i] \in Stats /\ s[i].calls = Total(s[i].byName)
    /\ \A i \in 1..n : s[i] = Plus(s[i - 1], ShareAt(ledgers, i))

\* A session at its place.
LEMMA ASession ==
    ASSUME NEW ledgers \in Places, NEW i \in 1..Len(ledgers)
    PROVE  /\ ledgers[i] \in Seq(Ledgers!LedgerLines) /\ Len(ledgers[i]) \in Nat
           /\ DOMAIN ledgers[i] = 1..Len(ledgers[i])
           /\ \A j \in 1..Len(ledgers[i]) : ledgers[i][j] \in Ledgers!LedgerLines
           /\ IsLedgerRow(ledgers[i], LedgerRowOf(ledgers[i]))
           /\ Sound(Ledgers!ParseSessionEvents(ledgers[i]))
           /\ IsShare(Ledgers!ParseSessionEvents(ledgers[i]), ShareAt(ledgers, i))
  <1>1. PICK lines \in Seq(Ledgers!LedgerLines) : lines = ledgers[i]
    BY DEF Places
  <1>2. PICK n \in Nat : n = Len(lines)
    OBVIOUS
  <1>3. DOMAIN lines = 1..n /\ \A j \in 1..n : lines[j] \in Ledgers!LedgerLines
    BY <1>2
  <1>4. \E r : IsLedgerRow(lines, r)
    <2>1. \E r : /\ r[0] = Ledgers!EmptyAgg /\ r[n] = Ledgers!ParseSessionEvents(lines)
                 /\ \A k \in 0..n : Sound(r[k])
                 /\ \A k \in 1..n : Counted1(r[k - 1], lines[k], r[k])
      BY <1>2, LedgerRow, Zenon
    <2> QED
      BY <1>2, <2>1, Zenon DEF IsLedgerRow
  <1>5. IsLedgerRow(lines, LedgerRowOf(lines))
    BY <1>4, Zenon DEF LedgerRowOf
  <1>6. Sound(Ledgers!ParseSessionEvents(lines))
    <2>1. n \in 0..n
      OBVIOUS
    <2> QED
      BY <1>2, <1>5, <2>1, Zenon DEF IsLedgerRow
  <1>7. IsShare(Ledgers!ParseSessionEvents(lines), ShareAt(ledgers, i))
    BY <1>1, <1>6, ShareIs, Zenon DEF ShareAt
  <1> QED
    BY <1>1, <1>2, <1>3, <1>5, <1>6, <1>7, Zenon

\* The statistics have such a row.
LEMMA StatsRow ==
    ASSUME NEW ledgers \in Places, NEW n \in Nat, n = Len(ledgers)
    PROVE  \E s : IsStatsRow(ledgers, n, s)
  <1>1. PICK s : /\ s[0] = Ledgers!NoStats /\ s[n] = Ledgers!Summed(ledgers)
                 /\ \A i \in 1..n : s[i] = Op("session", 0, ledgers, i, s[i - 1])
    <2>1. Walks("session", 0, Ledgers!NoStats, ledgers, Len(ledgers), Ledgers!Summed(ledgers))
      BY SessionWalks DEF Places
    <2>2. Walks("session", 0, Ledgers!NoStats, ledgers, n, Ledgers!Summed(ledgers))
      BY <2>1, Zenon
    <2> QED
      BY <2>2, Zenon DEF Walks
  <1>2. \A i \in 1..n : s[i] = Ledgers!WithSession(s[i - 1], ledgers[i])
    BY <1>1, Zenon DEF Op
  <1>3. \A i \in 1..n : \A x \in Stats :
            Ledgers!WithSession(x, ledgers[i]) = Plus(x, ShareAt(ledgers, i))
    <2>1. ASSUME NEW i \in 1..n, NEW x \in Stats
          PROVE  Ledgers!WithSession(x, ledgers[i]) = Plus(x, ShareAt(ledgers, i))
      <3>1. PICK agg : agg = Ledgers!ParseSessionEvents(ledgers[i]) /\ Sound(agg)
        BY ASession, Zenon
      <3>2. Ledgers!WithSession(x, ledgers[i]) = Plus(x, Share(agg))
        BY <3>1, SessionPlus, Zenon
      <3> QED
        BY <3>1, <3>2, Zenon DEF ShareAt
    <2> QED
      BY <2>1, Zenon
  <1> DEFINE Q(x) == x \in Stats /\ x.calls = Total(x.byName)
             P == {k \in 0..n : Q(s[k])}
  <1>4. 0 \in P
    <2>1. 0 \in 0..n
      OBVIOUS
    <2>2. Total(<<>>) = 0
      BY EmptyIsSound, Zenon DEF Sound
    <2> QED
      BY <1>1, <2>1, <2>2, NoStatsAre, Zenon
  <1>5. ASSUME NEW k \in 0..n, k < n, k \in P PROVE k + 1 \in P
    <2>1. k + 1 \in 1..n /\ k + 1 \in 0..n /\ (k + 1) - 1 = k
      BY <1>5, NextIn
    <2>2. PICK x \in Stats : x = s[k] /\ x.calls = Total(x.byName)
      BY <1>5, Zenon
    <2>3. PICK y : y = ShareAt(ledgers, k + 1)
      BY Zenon
    <2>4. y \in Stats /\ y.calls = Total(y.byName)
      <3>1. PICK agg : Sound(agg) /\ IsShare(agg, y)
        BY <2>1, <2>3, ASession, Zenon
      <3> QED
        BY <3>1, Zenon DEF IsShare, Sound
    <2>5. s[k + 1] = Plus(x, y)
      BY <1>2, <1>3, <2>1, <2>2, <2>3, Zenon
    <2>6. PICK z \in Stats : z = Plus(x, y) /\ IsPlus(x, y, z)
      BY <2>4, PlusIs, Zenon
    <2>7. z.calls = x.calls + y.calls /\ z.byName = Joined(x.byName, y.byName)
      BY <2>6, Zenon DEF IsPlus
    <2>8. Total(Joined(x.byName, y.byName)) = Total(x.byName) + Total(y.byName)
      <3>1. PICK b \in Tallies, a \in Tallies : b = x.byName /\ a = y.byName
        BY <2>4, StatsAre, Zenon
      <3> QED
        BY <3>1, MergeJoins, Zenon
    <2> QED
      BY <2>1, <2>2, <2>4, <2>5, <2>6, <2>7, <2>8, Zenon
  <1>6. \A k \in 0..n : k \in P
    <2> HIDE DEF P
    <2> QED
      BY <1>4, <1>5, Induction, Zenon
  <1>7. ASSUME NEW i \in 1..n PROVE s[i] = Plus(s[i - 1], ShareAt(ledgers, i))
    <2>1. i - 1 \in 0..n
      OBVIOUS
    <2>2. s[i - 1] \in Stats
      BY <1>6, <2>1, Zenon
    <2> QED
      BY <1>2, <1>3, <2>2, Zenon
  <1> QED
    BY <1>1, <1>6, <1>7, Zenon DEF IsStatsRow

-----------------------------------------------------------------------------
(* The lines of all ledgers                                                *)

Cells(ledgers) == UNION {{i} \X DOMAIN ledgers[i] : i \in DOMAIN ledgers}

\* The lines that parse, and those of a type.
LinesOf(ledgers) == {l \in Cells(ledgers) : ledgers[l[1]][l[2]].type # "bad"}
TypedOf(ledgers, type) == {l \in LinesOf(ledgers) : ledgers[l[1]][l[2]].type = type}
ErrorLines(ledgers) == {l \in TypedOf(ledgers, "tool_result") : ledgers[l[1]][l[2]].is_error}

\* They are finitely many, each with its place.
LEMMA CellsAre ==
    ASSUME NEW ledgers \in Places, NEW n \in Nat, n = Len(ledgers)
    PROVE  /\ \A l \in Cells(ledgers) : \E i \in 1..n : \E j \in 1..Len(ledgers[i]) : l = <<i, j>>
           /\ \A i \in 1..n : \A j \in 1..Len(ledgers[i]) : <<i, j>> \in Cells(ledgers)
           /\ IsFiniteSet(Cells(ledgers))
  <1>1. DOMAIN ledgers = 1..n
    BY DEF Places
  <1>2. \A i \in 1..n : DOMAIN ledgers[i] = 1..Len(ledgers[i]) /\ Len(ledgers[i]) \in Nat
    BY ASession, Zenon
  <1> DEFINE f == [i \in 1..n |-> {i} \X (1..Len(ledgers[i]))]
             F == {f[i] : i \in 1..n}
  <1>3. Cells(ledgers) = UNION F
    BY <1>1, <1>2 DEF Cells
  <1>4. \A i \in 1..n : IsFiniteSet(f[i])
    <2>1. ASSUME NEW i \in 1..n PROVE IsFiniteSet(f[i])
      <3>1. PICK m \in Nat : m = Len(ledgers[i])
        BY <1>2
      <3>2. IsFiniteSet({i}) /\ IsFiniteSet(1..m)
        <4>1. IsFiniteSet({i})
          BY FS_Singleton, Zenon
        <4>2. IsFiniteSet(1..m)
          BY FS_Interval
        <4> QED
          BY <4>1, <4>2
      <3>3. IsFiniteSet({i} \X (1..m))
        BY <3>2, FS_Product, Zenon
      <3> QED
        BY <3>1, <3>3, Zenon
    <2> QED
      BY <2>1
  <1>5. IsFiniteSet(F)
    <2>1. f \in Surjection(1..n, F)
      <3>1. f \in [1..n -> F] /\ \A y \in F : \E i \in 1..n : f[i] = y
        OBVIOUS
      <3> HIDE DEF f, F
      <3> QED
        BY <3>1, Zenon DEF Surjection
    <2>2. IsFiniteSet(1..n)
      BY FS_Interval
    <2> HIDE DEF f, F
    <2> QED
      BY <2>1, <2>2, FS_Surjection, Zenon
  <1>6. \A S \in F : IsFiniteSet(S)
    BY <1>4, Zenon
  <1>7. IsFiniteSet(UNION F)
    <2> HIDE DEF F
    <2> QED
      BY <1>5, <1>6, FS_UNION, Zenon
  <1>8. ASSUME NEW l \in Cells(ledgers)
        PROVE  \E i \in 1..n : \E j \in 1..Len(ledgers[i]) : l = <<i, j>>
    <2>1. PICK i \in 1..n : l \in {i} \X (1..Len(ledgers[i]))
      BY <1>3
    <2> QED
      BY <2>1
  <1>9. ASSUME NEW i \in 1..n, NEW j \in 1..Len(ledgers[i]) PROVE <<i, j>> \in Cells(ledgers)
    BY <1>3
  <1> QED
    BY <1>3, <1>7, <1>8, <1>9, Zenon

\* What the lines are.
LEMMA LinesAre ==
    ASSUME NEW ledgers
    PROVE  /\ LinesOf(ledgers) \subseteq Cells(ledgers)
           /\ \A i, j : <<i, j>> \in Cells(ledgers) =>
                 /\ <<i, j>> \in LinesOf(ledgers) <=> ledgers[i][j].type # "bad"
                 /\ \A type : type # "bad" =>
                       (<<i, j>> \in TypedOf(ledgers, type) <=> ledgers[i][j].type = type)
                 /\ <<i, j>> \in ErrorLines(ledgers) <=>
                       ledgers[i][j].type = "tool_result" /\ ledgers[i][j].is_error
           /\ \A type : TypedOf(ledgers, type) \subseteq Cells(ledgers)
           /\ ErrorLines(ledgers) \subseteq Cells(ledgers)
  <1>1. LinesOf(ledgers) = {l \in Cells(ledgers) : ledgers[l[1]][l[2]].type # "bad"}
    BY Zenon DEF LinesOf
  <1>2. ASSUME NEW i, NEW j, <<i, j>> \in Cells(ledgers)
        PROVE  /\ <<i, j>> \in LinesOf(ledgers) <=> ledgers[i][j].type # "bad"
               /\ \A type : type # "bad" =>
                     (<<i, j>> \in TypedOf(ledgers, type) <=> ledgers[i][j].type = type)
               /\ <<i, j>> \in ErrorLines(ledgers) <=>
                     ledgers[i][j].type = "tool_result" /\ ledgers[i][j].is_error
    <2>0. <<i, j>>[1] = i /\ <<i, j>>[2] = j
      OBVIOUS
    <2>1. PICK l : l = <<i, j>> /\ l[1] = i /\ l[2] = j
      BY <2>0, Zenon
    <2>2. l \in LinesOf(ledgers) <=> ledgers[i][j].type # "bad"
      BY <1>1, <1>2, <2>1, Zenon
    <2>3. ASSUME NEW type, type # "bad" PROVE l \in TypedOf(ledgers, type) <=> ledgers[i][j].type = type
      BY <2>1, <2>2, <2>3, Zenon DEF TypedOf
    <2>4. "tool_result" # "bad"
      OBVIOUS
    <2>5. l \in ErrorLines(ledgers) <=> ledgers[i][j].type = "tool_result" /\ ledgers[i][j].is_error
      BY <2>1, <2>3, <2>4, Zenon DEF ErrorLines
    <2> QED
      BY <2>1, <2>2, <2>3, <2>5, Zenon
  <1>3. \A type : TypedOf(ledgers, type) \subseteq Cells(ledgers)
    BY <1>1, Zenon DEF TypedOf
  <1>4. ErrorLines(ledgers) \subseteq Cells(ledgers)
    BY <1>3, Zenon DEF ErrorLines
  <1> QED
    BY <1>1, <1>2, <1>3, <1>4, Zenon

\* A figure v of each session, line by line, and t of all, session by session, that
\* grows by w at the lines of T and at no other.
IsCount(ledgers, n, T, c, w, v, t) ==
    /\ T \subseteq Cells(ledgers) /\ Adds(c, w, T) /\ \A l \in T : w[l] \in Nat
    /\ \A i \in 1..n :
          /\ v[i][0] = 0
          /\ \A j \in 0..Len(ledgers[i]) : v[i][j] \in Nat
          /\ \A j \in 1..Len(ledgers[i]) :
                v[i][j] = v[i][j - 1] + (IF <<i, j>> \in T THEN w[<<i, j>>] ELSE 0)
    /\ t[0] = 0 /\ \A i \in 1..n : t[i] = t[i - 1] + v[i][Len(ledgers[i])]

\* It is what the lines of T come to.
LEMMA FigureCounts ==
    ASSUME NEW ledgers \in Places, NEW n \in Nat, n = Len(ledgers),
           NEW T, NEW c, NEW w, NEW v, NEW t, IsCount(ledgers, n, T, c, w, v, t)
    PROVE  GridEnds(T, c, n, t)
  <1> DEFINE len == [i \in 1..n |-> Len(ledgers[i])]
             a == [l \in T |-> l[1]]
             b == [l \in T |-> l[2]]
  <1>1. /\ T \subseteq Cells(ledgers) /\ Adds(c, w, T) /\ \A l \in T : w[l] \in Nat
        /\ t[0] = 0 /\ \A i \in 1..n : t[i] = t[i - 1] + v[i][Len(ledgers[i])]
    BY Zenon DEF IsCount
  <1>2. \A i \in 1..n : len[i] = Len(ledgers[i]) /\ len[i] \in Nat
    BY ASession, Zenon
  <1>3. \A l \in T : \E i \in 1..n : \E j \in 1..len[i] : l = <<i, j>> /\ a[l] = i /\ b[l] = j
    <2>1. ASSUME NEW l \in T
          PROVE  \E i \in 1..n : \E j \in 1..len[i] : l = <<i, j>> /\ a[l] = i /\ b[l] = j
      <3>1. l \in Cells(ledgers)
        BY <1>1
      <3>2. PICK i \in 1..n : \E j \in 1..Len(ledgers[i]) : l = <<i, j>>
        BY <3>1, CellsAre, Zenon
      <3>3. PICK j \in 1..Len(ledgers[i]) : l = <<i, j>>
        BY <3>2
      <3>4. l[1] = i /\ l[2] = j
        BY <3>3
      <3>5. a[l] = i /\ b[l] = j
        BY <3>4, Zenon
      <3> HIDE DEF a, b
      <3>6. j \in 1..len[i]
        BY <1>2, Zenon
      <3> QED
        BY <3>3, <3>5, <3>6, Zenon
    <2> QED
      BY <2>1, Zenon
  <1>4. \A i \in 1..n : \A j \in 1..len[i] : <<i, j>> \in T => a[<<i, j>>] = i /\ b[<<i, j>>] = j
    BY Zenon
  <1> HIDE DEF len, a, b
  <1>5. \A l \in T : a[l] \in 1..n /\ b[l] \in 1..len[a[l]]
    BY <1>3, Zenon
  <1>6. \A l, k \in T : a[l] = a[k] /\ b[l] = b[k] => l = k
    <2>1. \A l \in T : l = <<a[l], b[l]>>
      BY <1>3, Zenon
    <2>2. ASSUME NEW l \in T, NEW k \in T, a[l] = a[k], b[l] = b[k] PROVE l = k
      <3>1. <<a[l], b[l]>> = <<a[k], b[k]>>
        BY <2>2, Zenon
      <3> QED
        BY <2>1, <3>1, Zenon
    <2> QED
      BY <2>2, Zenon
  <1>7. ASSUME NEW i \in 1..n
        PROVE  /\ v[i][0] = 0 /\ \A j \in 0..len[i] : v[i][j] \in Nat
               /\ \A j \in 1..len[i] : GoesIn(T, a, b, w, v[i], i, j)
    <2>1. /\ v[i][0] = 0
          /\ \A j \in 0..len[i] : v[i][j] \in Nat
          /\ \A j \in 1..len[i] : v[i][j] = v[i][j - 1] + (IF <<i, j>> \in T THEN w[<<i, j>>] ELSE 0)
      BY <1>2, Zenon DEF IsCount
    <2>2. ASSUME NEW j \in 1..len[i] PROVE GoesIn(T, a, b, w, v[i], i, j)
      <3>1. CASE <<i, j>> \in T
        BY <1>4, <2>1, <3>1, Zenon DEF GoesIn
      <3>2. CASE <<i, j>> \notin T
        <4>1. \A l \in T : ~(a[l] = i /\ b[l] = j)
          BY <1>3, <3>2, Zenon
        <4>2. v[i][j] = v[i][j - 1] + 0
          BY <2>1, <3>2, Zenon
        <4>3. j - 1 \in 0..len[i]
          BY <1>2
        <4>4. PICK x \in Nat : x = v[i][j - 1]
          BY <2>1, <4>3, Zenon
        <4>5. v[i][j] = v[i][j - 1]
          BY <4>2, <4>4
        <4> QED
          BY <4>1, <4>5, Zenon DEF GoesIn
      <3> QED
        BY <3>1, <3>2
    <2> QED
      BY <2>1, <2>2
  <1>8. \A i \in 1..n : t[i] = t[i - 1] + v[i][len[i]]
    BY <1>1, <1>2, Zenon
  <1>9. \A i \in 1..n : len[i] \in Nat
    BY <1>2
  <1>10. IsGrid(T, c, w, n, len, a, b, v, t)
    BY <1>1, <1>5, <1>6, <1>7, <1>8, <1>9, Zenon DEF IsGrid
  <1> QED
    BY <1>10, CountAll, Zenon

-----------------------------------------------------------------------------
(* The statistics                                                          *)

\* The figures of a session, line by line.
IsSession(lines, m, r) ==
    /\ r[0].turns = 0 /\ r[0].tokens = 0 /\ r[0].calls = 0 /\ r[0].errors = 0 /\ r[0].any = FALSE
    /\ \A j \in 0..m : /\ r[j].turns \in Nat /\ r[j].tokens \in Nat /\ r[j].calls \in Nat
                       /\ r[j].errors \in Nat /\ r[j].any \in BOOLEAN
    /\ \A j \in 1..m :
          /\ r[j].turns = r[j - 1].turns + One(lines[j].type = "dispatch")
          /\ r[j].tokens = r[j - 1].tokens + (IF lines[j].type = "dispatch" THEN lines[j].tokens ELSE 0)
          /\ r[j].calls = r[j - 1].calls + One(lines[j].type = "tool_result")
          /\ r[j].errors = r[j - 1].errors + One(lines[j].type = "tool_result" /\ lines[j].is_error)
          /\ r[j].any <=> r[j - 1].any \/ lines[j].type # "bad"

\* Each session has them, and they are its share.
LEMMA SessionRow ==
    ASSUME NEW ledgers \in Places, NEW i \in 1..Len(ledgers)
    PROVE  /\ IsSession(ledgers[i], Len(ledgers[i]), LedgerRowOf(ledgers[i]))
           /\ IsShare(LedgerRowOf(ledgers[i])[Len(ledgers[i])], ShareAt(ledgers, i))
  <1>1. PICK lines \in Seq(Ledgers!LedgerLines) : lines = ledgers[i]
    BY ASession, Zenon
  <1>2. PICK r : r = LedgerRowOf(lines) /\ IsLedgerRow(lines, r)
    BY <1>1, ASession, Zenon
  <1>3. /\ r[0] = Ledgers!EmptyAgg /\ r[Len(lines)] = Ledgers!ParseSessionEvents(lines)
        /\ \A j \in 0..Len(lines) : r[j] \in Aggs
        /\ \A j \in 1..Len(lines) : Counted1(r[j - 1], lines[j], r[j])
    BY <1>2, Zenon DEF IsLedgerRow, Sound
  <1>4. r[0].turns = 0 /\ r[0].tokens = 0 /\ r[0].calls = 0 /\ r[0].errors = 0 /\ r[0].any = FALSE
    BY <1>3, EmptyIsSound, Zenon
  <1>5. \A x \in Aggs : /\ x.turns \in Nat /\ x.tokens \in Nat /\ x.calls \in Nat /\ x.errors \in Nat
                        /\ x.any \in BOOLEAN
    BY DEF Aggs
  <1>6. IsSession(lines, Len(lines), r)
    BY <1>3, <1>4, <1>5, Zenon DEF IsSession, Counted1
  <1>7. IsShare(r[Len(lines)], ShareAt(ledgers, i))
    BY <1>1, <1>3, ASession, Zenon
  <1> QED
    BY <1>1, <1>2, <1>6, <1>7, Zenon

\* The statistics x, with the session whose figures are r.
SharedBy(r, x, y) ==
    /\ y.sessions = x.sessions + One(r.any) /\ y.turns = x.turns + r.turns
    /\ y.tokens = x.tokens + r.tokens /\ y.calls = x.calls + r.calls /\ y.errors = x.errors + r.errors

\* The statistics, session by session.
LEMMA ShareOf ==
    ASSUME NEW ledgers \in Places, NEW n \in Nat, n = Len(ledgers), NEW s, IsStatsRow(ledgers, n, s)
    PROVE  /\ s[0].sessions = 0 /\ s[0].turns = 0 /\ s[0].tokens = 0 /\ s[0].calls = 0 /\ s[0].errors = 0
           /\ \A i \in 1..n : \E r \in Aggs :
                 r = LedgerRowOf(ledgers[i])[Len(ledgers[i])] /\ SharedBy(r, s[i - 1], s[i])
  <1>1. /\ s[0] = Ledgers!NoStats
        /\ \A i \in 0..n : s[i] \in Stats
        /\ \A i \in 1..n : s[i] = Plus(s[i - 1], ShareAt(ledgers, i))
    BY Zenon DEF IsStatsRow
  <1>2. s[0].sessions = 0 /\ s[0].turns = 0 /\ s[0].tokens = 0 /\ s[0].calls = 0 /\ s[0].errors = 0
    BY <1>1, NoStatsAre, Zenon
  <1>3. ASSUME NEW i \in 1..n
        PROVE  \E r \in Aggs :
                 r = LedgerRowOf(ledgers[i])[Len(ledgers[i])] /\ SharedBy(r, s[i - 1], s[i])
    <2>1. PICK r : r = LedgerRowOf(ledgers[i])[Len(ledgers[i])] /\ IsShare(r, ShareAt(ledgers, i))
      BY SessionRow, Zenon
    <2>2. r \in Aggs
      <3>1. PICK m \in Nat : m = Len(ledgers[i])
        BY ASession, Zenon
      <3>2. m \in 0..m
        OBVIOUS
      <3>3. IsLedgerRow(ledgers[i], LedgerRowOf(ledgers[i]))
        BY ASession, Zenon
      <3> QED
        BY <2>1, <3>1, <3>2, <3>3, Zenon DEF IsLedgerRow, Sound
    <2>3. i - 1 \in 0..n
      OBVIOUS
    <2>4. PICK x \in Stats, y \in Stats : x = s[i - 1] /\ y = ShareAt(ledgers, i)
      BY <1>1, <2>1, <2>3, Zenon DEF IsShare
    <2>5. PICK z : z = s[i] /\ IsPlus(x, y, z)
      BY <1>1, <2>4, PlusIs, Zenon
    <2>6. /\ y.sessions = One(r.any) /\ y.turns = r.turns /\ y.tokens = r.tokens
          /\ y.calls = r.calls /\ y.errors = r.errors
      BY <2>1, <2>4, Zenon DEF IsShare
    <2> QED
      BY <2>1, <2>2, <2>4, <2>5, <2>6, Zenon DEF IsPlus, SharedBy
  <1> QED
    BY <1>2, <1>3

\* The turns are the dispatches.
LEMMA TurnsAre ==
    ASSUME NEW ledgers \in Places, NEW n \in Nat, n = Len(ledgers), NEW s, IsStatsRow(ledgers, n, s)
    PROVE  s[n].turns = Ledgers!Cardinality(TypedOf(ledgers, "dispatch"))
  <1> DEFINE T == TypedOf(ledgers, "dispatch")
             w == [l \in T |-> 1]
             c == [S \in SUBSET T |-> Ledgers!Cardinality(S)]
             v == [i \in 1..n |-> [j \in 0..Len(ledgers[i]) |-> LedgerRowOf(ledgers[i])[j].turns]]
             t == [i \in 0..n |-> s[i].turns]
  <1>1. T \subseteq Cells(ledgers) /\ IsFiniteSet(T)
    <2>1. T \subseteq Cells(ledgers) /\ T \in SUBSET Cells(ledgers)
      BY LinesAre, Zenon
    <2> QED
      BY <2>1, CellsAre, FS_Subset, Zenon
  <1>2. \A l \in T : w[l] = 1 /\ w[l] \in Nat
    OBVIOUS
  <1>3. Adds(c, w, T)
    <2> HIDE DEF T, w
    <2> QED
      BY <1>1, <1>2, CountsAdd, Zenon
  <1>4. ASSUME NEW i \in 1..n
        PROVE  /\ v[i][0] = 0
               /\ \A j \in 0..Len(ledgers[i]) : v[i][j] \in Nat
               /\ \A j \in 1..Len(ledgers[i]) :
                     v[i][j] = v[i][j - 1] + (IF <<i, j>> \in T THEN w[<<i, j>>] ELSE 0)
    <2>1. PICK m \in Nat : \E r : r = LedgerRowOf(ledgers[i]) /\ m = Len(ledgers[i]) /\ IsSession(ledgers[i], m, r)
      BY SessionRow, ASession, Zenon
    <2>6. PICK r : r = LedgerRowOf(ledgers[i]) /\ m = Len(ledgers[i]) /\ IsSession(ledgers[i], m, r)
      BY <2>1
    <2>2. \A j \in 0..m : v[i][j] = r[j].turns
      BY <2>6, Zenon
    <2>3. 0 \in 0..m /\ \A j \in 1..m : j \in 0..m /\ j - 1 \in 0..m
      BY <2>1
    <2>4. v[i][0] = 0 /\ \A j \in 0..m : v[i][j] \in Nat
      BY <2>6, <2>2, <2>3, Zenon DEF IsSession
    <2>5. ASSUME NEW j \in 1..m PROVE v[i][j] = v[i][j - 1] + (IF <<i, j>> \in T THEN w[<<i, j>>] ELSE 0)
      <3>1. <<i, j>> \in Cells(ledgers)
        BY <2>6, CellsAre, Zenon
      <3>2. <<i, j>> \in T <=> ledgers[i][j].type = "dispatch"
        <4>1. \A type : type # "bad" =>
                 (<<i, j>> \in TypedOf(ledgers, type) <=> ledgers[i][j].type = type)
          BY <3>1, LinesAre, Zenon
        <4>2. "dispatch" # "bad"
          OBVIOUS
        <4> QED
          BY <4>1, <4>2, Zenon
      <3>3. <<i, j>> \in T => w[<<i, j>>] = 1
        BY <1>2, Zenon
      <3>4. v[i][j] = v[i][j - 1] + One(ledgers[i][j].type = "dispatch")
        BY <2>6, <2>2, <2>3, Zenon DEF IsSession
      <3> HIDE DEF T, w, v
      <3> QED
        BY <3>2, <3>3, <3>4, Zenon DEF One
    <2> QED
      BY <2>6, <2>4, <2>5, Zenon
  <1>5. t[0] = 0 /\ \A i \in 1..n : t[i] = t[i - 1] + v[i][Len(ledgers[i])]
    <2>1. 0 \in 0..n /\ \A i \in 1..n : i \in 0..n /\ i - 1 \in 0..n
      OBVIOUS
    <2>2. t[0] = 0
      BY <2>1, ShareOf, Zenon
    <2>3. ASSUME NEW i \in 1..n PROVE t[i] = t[i - 1] + v[i][Len(ledgers[i])]
      <3>1. PICK m \in Nat : m = Len(ledgers[i])
        BY ASession, Zenon
      <3>2. m \in 0..m
        OBVIOUS
      <3>3. v[i][m] = LedgerRowOf(ledgers[i])[m].turns
        BY <3>1, <3>2, Zenon
      <3>4. PICK r \in Aggs : r = LedgerRowOf(ledgers[i])[Len(ledgers[i])] /\ SharedBy(r, s[i - 1], s[i])
        BY ShareOf, Zenon
      <3>5. s[i].turns = s[i - 1].turns + v[i][Len(ledgers[i])]
        BY <3>1, <3>3, <3>4, Zenon DEF SharedBy
      <3>6. t[i] = s[i].turns /\ t[i - 1] = s[i - 1].turns
        BY <2>1, Zenon
      <3> QED
        BY <3>5, <3>6, Zenon
    <2> QED
      BY <2>2, <2>3
  <1>6. GridEnds(T, c, n, t)
    <2> HIDE DEF T, c, w, v, t
    <2>1. IsCount(ledgers, n, T, c, w, v, t)
      BY <1>1, <1>2, <1>3, <1>4, <1>5, Zenon DEF IsCount
    <2> QED
      BY <2>1, FigureCounts, Zenon
  <1>7. T \in SUBSET T /\ n \in 0..n
    OBVIOUS
  <1>8. c[T] = Ledgers!Cardinality(T) /\ t[n] = s[n].turns
    BY <1>7, Zenon
  <1> HIDE DEF c, t
  <1>9. s[n].turns = Ledgers!Cardinality(T)
    BY <1>6, <1>8, Zenon DEF GridEnds
  <1> QED
    BY <1>9, Zenon

\* The calls are the results of tools.
LEMMA CallsAre ==
    ASSUME NEW ledgers \in Places, NEW n \in Nat, n = Len(ledgers), NEW s, IsStatsRow(ledgers, n, s)
    PROVE  s[n].calls = Ledgers!Cardinality(TypedOf(ledgers, "tool_result"))
  <1> DEFINE T == TypedOf(ledgers, "tool_result")
             w == [l \in T |-> 1]
             c == [S \in SUBSET T |-> Ledgers!Cardinality(S)]
             v == [i \in 1..n |-> [j \in 0..Len(ledgers[i]) |-> LedgerRowOf(ledgers[i])[j].calls]]
             t == [i \in 0..n |-> s[i].calls]
  <1>1. T \subseteq Cells(ledgers) /\ IsFiniteSet(T)
    <2>1. T \subseteq Cells(ledgers) /\ T \in SUBSET Cells(ledgers)
      BY LinesAre, Zenon
    <2> QED
      BY <2>1, CellsAre, FS_Subset, Zenon
  <1>2. \A l \in T : w[l] = 1 /\ w[l] \in Nat
    OBVIOUS
  <1>3. Adds(c, w, T)
    <2> HIDE DEF T, w
    <2> QED
      BY <1>1, <1>2, CountsAdd, Zenon
  <1>4. ASSUME NEW i \in 1..n
        PROVE  /\ v[i][0] = 0
               /\ \A j \in 0..Len(ledgers[i]) : v[i][j] \in Nat
               /\ \A j \in 1..Len(ledgers[i]) :
                     v[i][j] = v[i][j - 1] + (IF <<i, j>> \in T THEN w[<<i, j>>] ELSE 0)
    <2>1. PICK m \in Nat : \E r : r = LedgerRowOf(ledgers[i]) /\ m = Len(ledgers[i]) /\ IsSession(ledgers[i], m, r)
      BY SessionRow, ASession, Zenon
    <2>6. PICK r : r = LedgerRowOf(ledgers[i]) /\ m = Len(ledgers[i]) /\ IsSession(ledgers[i], m, r)
      BY <2>1
    <2>2. \A j \in 0..m : v[i][j] = r[j].calls
      BY <2>6, Zenon
    <2>3. 0 \in 0..m /\ \A j \in 1..m : j \in 0..m /\ j - 1 \in 0..m
      BY <2>1
    <2>4. v[i][0] = 0 /\ \A j \in 0..m : v[i][j] \in Nat
      BY <2>6, <2>2, <2>3, Zenon DEF IsSession
    <2>5. ASSUME NEW j \in 1..m PROVE v[i][j] = v[i][j - 1] + (IF <<i, j>> \in T THEN w[<<i, j>>] ELSE 0)
      <3>1. <<i, j>> \in Cells(ledgers)
        BY <2>6, CellsAre, Zenon
      <3>2. <<i, j>> \in T <=> ledgers[i][j].type = "tool_result"
        <4>1. \A type : type # "bad" =>
                 (<<i, j>> \in TypedOf(ledgers, type) <=> ledgers[i][j].type = type)
          BY <3>1, LinesAre, Zenon
        <4>2. "tool_result" # "bad"
          OBVIOUS
        <4> QED
          BY <4>1, <4>2, Zenon
      <3>3. <<i, j>> \in T => w[<<i, j>>] = 1
        BY <1>2, Zenon
      <3>4. v[i][j] = v[i][j - 1] + One(ledgers[i][j].type = "tool_result")
        BY <2>6, <2>2, <2>3, Zenon DEF IsSession
      <3> HIDE DEF T, w, v
      <3> QED
        BY <3>2, <3>3, <3>4, Zenon DEF One
    <2> QED
      BY <2>6, <2>4, <2>5, Zenon
  <1>5. t[0] = 0 /\ \A i \in 1..n : t[i] = t[i - 1] + v[i][Len(ledgers[i])]
    <2>1. 0 \in 0..n /\ \A i \in 1..n : i \in 0..n /\ i - 1 \in 0..n
      OBVIOUS
    <2>2. t[0] = 0
      BY <2>1, ShareOf, Zenon
    <2>3. ASSUME NEW i \in 1..n PROVE t[i] = t[i - 1] + v[i][Len(ledgers[i])]
      <3>1. PICK m \in Nat : m = Len(ledgers[i])
        BY ASession, Zenon
      <3>2. m \in 0..m
        OBVIOUS
      <3>3. v[i][m] = LedgerRowOf(ledgers[i])[m].calls
        BY <3>1, <3>2, Zenon
      <3>4. PICK r \in Aggs : r = LedgerRowOf(ledgers[i])[Len(ledgers[i])] /\ SharedBy(r, s[i - 1], s[i])
        BY ShareOf, Zenon
      <3>5. s[i].calls = s[i - 1].calls + v[i][Len(ledgers[i])]
        BY <3>1, <3>3, <3>4, Zenon DEF SharedBy
      <3>6. t[i] = s[i].calls /\ t[i - 1] = s[i - 1].calls
        BY <2>1, Zenon
      <3> QED
        BY <3>5, <3>6, Zenon
    <2> QED
      BY <2>2, <2>3
  <1>6. GridEnds(T, c, n, t)
    <2> HIDE DEF T, c, w, v, t
    <2>1. IsCount(ledgers, n, T, c, w, v, t)
      BY <1>1, <1>2, <1>3, <1>4, <1>5, Zenon DEF IsCount
    <2> QED
      BY <2>1, FigureCounts, Zenon
  <1>7. T \in SUBSET T /\ n \in 0..n
    OBVIOUS
  <1>8. c[T] = Ledgers!Cardinality(T) /\ t[n] = s[n].calls
    BY <1>7, Zenon
  <1> HIDE DEF c, t
  <1>9. s[n].calls = Ledgers!Cardinality(T)
    BY <1>6, <1>8, Zenon DEF GridEnds
  <1> QED
    BY <1>9, Zenon

\* The errors are the results that are errors.
LEMMA ErrorsAre ==
    ASSUME NEW ledgers \in Places, NEW n \in Nat, n = Len(ledgers), NEW s, IsStatsRow(ledgers, n, s)
    PROVE  s[n].errors = Ledgers!Cardinality(ErrorLines(ledgers))
  <1> DEFINE T == ErrorLines(ledgers)
             w == [l \in T |-> 1]
             c == [S \in SUBSET T |-> Ledgers!Cardinality(S)]
             v == [i \in 1..n |-> [j \in 0..Len(ledgers[i]) |-> LedgerRowOf(ledgers[i])[j].errors]]
             t == [i \in 0..n |-> s[i].errors]
  <1>1. T \subseteq Cells(ledgers) /\ IsFiniteSet(T)
    <2>1. T \subseteq Cells(ledgers) /\ T \in SUBSET Cells(ledgers)
      BY LinesAre, Zenon
    <2> QED
      BY <2>1, CellsAre, FS_Subset, Zenon
  <1>2. \A l \in T : w[l] = 1 /\ w[l] \in Nat
    OBVIOUS
  <1>3. Adds(c, w, T)
    <2> HIDE DEF T, w
    <2> QED
      BY <1>1, <1>2, CountsAdd, Zenon
  <1>4. ASSUME NEW i \in 1..n
        PROVE  /\ v[i][0] = 0
               /\ \A j \in 0..Len(ledgers[i]) : v[i][j] \in Nat
               /\ \A j \in 1..Len(ledgers[i]) :
                     v[i][j] = v[i][j - 1] + (IF <<i, j>> \in T THEN w[<<i, j>>] ELSE 0)
    <2>1. PICK m \in Nat : \E r : r = LedgerRowOf(ledgers[i]) /\ m = Len(ledgers[i]) /\ IsSession(ledgers[i], m, r)
      BY SessionRow, ASession, Zenon
    <2>6. PICK r : r = LedgerRowOf(ledgers[i]) /\ m = Len(ledgers[i]) /\ IsSession(ledgers[i], m, r)
      BY <2>1
    <2>2. \A j \in 0..m : v[i][j] = r[j].errors
      BY <2>6, Zenon
    <2>3. 0 \in 0..m /\ \A j \in 1..m : j \in 0..m /\ j - 1 \in 0..m
      BY <2>1
    <2>4. v[i][0] = 0 /\ \A j \in 0..m : v[i][j] \in Nat
      BY <2>6, <2>2, <2>3, Zenon DEF IsSession
    <2>5. ASSUME NEW j \in 1..m PROVE v[i][j] = v[i][j - 1] + (IF <<i, j>> \in T THEN w[<<i, j>>] ELSE 0)
      <3>1. <<i, j>> \in Cells(ledgers)
        BY <2>6, CellsAre, Zenon
      <3>2. <<i, j>> \in T <=> ledgers[i][j].type = "tool_result" /\ ledgers[i][j].is_error
        BY <3>1, LinesAre, Zenon
      <3>3. <<i, j>> \in T => w[<<i, j>>] = 1
        BY <1>2, Zenon
      <3>4. v[i][j] = v[i][j - 1] + One(ledgers[i][j].type = "tool_result" /\ ledgers[i][j].is_error)
        BY <2>6, <2>2, <2>3, Zenon DEF IsSession
      <3> HIDE DEF T, w, v
      <3> QED
        BY <3>2, <3>3, <3>4, Zenon DEF One
    <2> QED
      BY <2>6, <2>4, <2>5, Zenon
  <1>5. t[0] = 0 /\ \A i \in 1..n : t[i] = t[i - 1] + v[i][Len(ledgers[i])]
    <2>1. 0 \in 0..n /\ \A i \in 1..n : i \in 0..n /\ i - 1 \in 0..n
      OBVIOUS
    <2>2. t[0] = 0
      BY <2>1, ShareOf, Zenon
    <2>3. ASSUME NEW i \in 1..n PROVE t[i] = t[i - 1] + v[i][Len(ledgers[i])]
      <3>1. PICK m \in Nat : m = Len(ledgers[i])
        BY ASession, Zenon
      <3>2. m \in 0..m
        OBVIOUS
      <3>3. v[i][m] = LedgerRowOf(ledgers[i])[m].errors
        BY <3>1, <3>2, Zenon
      <3>4. PICK r \in Aggs : r = LedgerRowOf(ledgers[i])[Len(ledgers[i])] /\ SharedBy(r, s[i - 1], s[i])
        BY ShareOf, Zenon
      <3>5. s[i].errors = s[i - 1].errors + v[i][Len(ledgers[i])]
        BY <3>1, <3>3, <3>4, Zenon DEF SharedBy
      <3>6. t[i] = s[i].errors /\ t[i - 1] = s[i - 1].errors
        BY <2>1, Zenon
      <3> QED
        BY <3>5, <3>6, Zenon
    <2> QED
      BY <2>2, <2>3
  <1>6. GridEnds(T, c, n, t)
    <2> HIDE DEF T, c, w, v, t
    <2>1. IsCount(ledgers, n, T, c, w, v, t)
      BY <1>1, <1>2, <1>3, <1>4, <1>5, Zenon DEF IsCount
    <2> QED
      BY <2>1, FigureCounts, Zenon
  <1>7. T \in SUBSET T /\ n \in 0..n
    OBVIOUS
  <1>8. c[T] = Ledgers!Cardinality(T) /\ t[n] = s[n].errors
    BY <1>7, Zenon
  <1> HIDE DEF c, t
  <1>9. s[n].errors = Ledgers!Cardinality(T)
    BY <1>6, <1>8, Zenon DEF GridEnds
  <1> QED
    BY <1>9, Zenon

\* The tokens are those of the dispatches.
LEMMA TokensAre ==
    ASSUME NEW ledgers \in Places, NEW n \in Nat, n = Len(ledgers), NEW s, IsStatsRow(ledgers, n, s)
    PROVE  s[n].tokens = Sum([l \in TypedOf(ledgers, "dispatch") |-> ledgers[l[1]][l[2]].tokens], TypedOf(ledgers, "dispatch"))
  <1> DEFINE T == TypedOf(ledgers, "dispatch")
             w == [l \in T |-> ledgers[l[1]][l[2]].tokens]
             c == [S \in SUBSET T |-> Sum(w, S)]
             v == [i \in 1..n |-> [j \in 0..Len(ledgers[i]) |-> LedgerRowOf(ledgers[i])[j].tokens]]
             t == [i \in 0..n |-> s[i].tokens]
  <1>1. T \subseteq Cells(ledgers) /\ IsFiniteSet(T)
    <2>1. T \subseteq Cells(ledgers) /\ T \in SUBSET Cells(ledgers)
      BY LinesAre, Zenon
    <2> QED
      BY <2>1, CellsAre, FS_Subset, Zenon
  <1>2. \A l \in T : w[l] \in Nat
    <2>1. ASSUME NEW l \in T PROVE w[l] \in Nat
      <3>1. l \in Cells(ledgers)
        BY <1>1
      <3>2. PICK i \in 1..n : \E j \in 1..Len(ledgers[i]) : l = <<i, j>>
        BY <3>1, CellsAre, Zenon
      <3>3. PICK j \in 1..Len(ledgers[i]) : l = <<i, j>>
        BY <3>2
      <3>4. l[1] = i /\ l[2] = j
        BY <3>3
      <3>5. PICK line \in Ledgers!LedgerLines : line = ledgers[i][j]
        BY ASession, Zenon
      <3>6. line.tokens \in Nat
        BY DEF Ledgers!LedgerLines
      <3>7. w[l] = ledgers[l[1]][l[2]].tokens
        BY Zenon
      <3> QED
        BY <3>4, <3>5, <3>6, <3>7, Zenon
    <2> QED
      BY <2>1
  <1>3. Adds(c, w, T)
    <2> HIDE DEF T, w
    <2> QED
      BY <1>1, <1>2, CountsAdd, Zenon
  <1>4. ASSUME NEW i \in 1..n
        PROVE  /\ v[i][0] = 0
               /\ \A j \in 0..Len(ledgers[i]) : v[i][j] \in Nat
               /\ \A j \in 1..Len(ledgers[i]) :
                     v[i][j] = v[i][j - 1] + (IF <<i, j>> \in T THEN w[<<i, j>>] ELSE 0)
    <2>1. PICK m \in Nat : \E r : r = LedgerRowOf(ledgers[i]) /\ m = Len(ledgers[i]) /\ IsSession(ledgers[i], m, r)
      BY SessionRow, ASession, Zenon
    <2>6. PICK r : r = LedgerRowOf(ledgers[i]) /\ m = Len(ledgers[i]) /\ IsSession(ledgers[i], m, r)
      BY <2>1
    <2>2. \A j \in 0..m : v[i][j] = r[j].tokens
      BY <2>6, Zenon
    <2>3. 0 \in 0..m /\ \A j \in 1..m : j \in 0..m /\ j - 1 \in 0..m
      BY <2>1
    <2>4. v[i][0] = 0 /\ \A j \in 0..m : v[i][j] \in Nat
      BY <2>6, <2>2, <2>3, Zenon DEF IsSession
    <2>5. ASSUME NEW j \in 1..m PROVE v[i][j] = v[i][j - 1] + (IF <<i, j>> \in T THEN w[<<i, j>>] ELSE 0)
      <3>1. <<i, j>> \in Cells(ledgers)
        BY <2>6, CellsAre, Zenon
      <3>2. <<i, j>> \in T <=> ledgers[i][j].type = "dispatch"
        <4>1. \A type : type # "bad" =>
                 (<<i, j>> \in TypedOf(ledgers, type) <=> ledgers[i][j].type = type)
          BY <3>1, LinesAre, Zenon
        <4>2. "dispatch" # "bad"
          OBVIOUS
        <4> QED
          BY <4>1, <4>2, Zenon
      <3>3. <<i, j>> \in T => w[<<i, j>>] = ledgers[i][j].tokens
        <4>1. <<i, j>>[1] = i /\ <<i, j>>[2] = j
          OBVIOUS
        <4> QED
          BY <4>1, Zenon
      <3>4. v[i][j] = v[i][j - 1] + (IF ledgers[i][j].type = "dispatch" THEN ledgers[i][j].tokens ELSE 0)
        BY <2>6, <2>2, <2>3, Zenon DEF IsSession
      <3> HIDE DEF T, w, v
      <3> QED
        BY <3>2, <3>3, <3>4, Zenon
    <2> QED
      BY <2>6, <2>4, <2>5, Zenon
  <1>5. t[0] = 0 /\ \A i \in 1..n : t[i] = t[i - 1] + v[i][Len(ledgers[i])]
    <2>1. 0 \in 0..n /\ \A i \in 1..n : i \in 0..n /\ i - 1 \in 0..n
      OBVIOUS
    <2>2. t[0] = 0
      BY <2>1, ShareOf, Zenon
    <2>3. ASSUME NEW i \in 1..n PROVE t[i] = t[i - 1] + v[i][Len(ledgers[i])]
      <3>1. PICK m \in Nat : m = Len(ledgers[i])
        BY ASession, Zenon
      <3>2. m \in 0..m
        OBVIOUS
      <3>3. v[i][m] = LedgerRowOf(ledgers[i])[m].tokens
        BY <3>1, <3>2, Zenon
      <3>4. PICK r \in Aggs : r = LedgerRowOf(ledgers[i])[Len(ledgers[i])] /\ SharedBy(r, s[i - 1], s[i])
        BY ShareOf, Zenon
      <3>5. s[i].tokens = s[i - 1].tokens + v[i][Len(ledgers[i])]
        BY <3>1, <3>3, <3>4, Zenon DEF SharedBy
      <3>6. t[i] = s[i].tokens /\ t[i - 1] = s[i - 1].tokens
        BY <2>1, Zenon
      <3> QED
        BY <3>5, <3>6, Zenon
    <2> QED
      BY <2>2, <2>3
  <1>6. GridEnds(T, c, n, t)
    <2> HIDE DEF T, c, w, v, t
    <2>1. IsCount(ledgers, n, T, c, w, v, t)
      BY <1>1, <1>2, <1>3, <1>4, <1>5, Zenon DEF IsCount
    <2> QED
      BY <2>1, FigureCounts, Zenon
  <1>7. T \in SUBSET T /\ n \in 0..n
    OBVIOUS
  <1>8. c[T] = Sum(w, T) /\ t[n] = s[n].tokens
    BY <1>7, Zenon
  <1> HIDE DEF c, t
  <1>9. s[n].tokens = Sum(w, T)
    BY <1>6, <1>8, Zenon DEF GridEnds
  <1> QED
    BY <1>9, Zenon

\* The sessions that count are those of which a line parses.
LEMMA SessionsAre ==
    ASSUME NEW ledgers \in Places, NEW n \in Nat, n = Len(ledgers), NEW s, IsStatsRow(ledgers, n, s)
    PROVE  s[n].sessions = Ledgers!Cardinality({l[1] : l \in LinesOf(ledgers)})
  <1> DEFINE M == {l[1] : l \in LinesOf(ledgers)}
             w == [i \in 1..n |-> 1]
             p == [i \in 1..n |-> i]
             c == [S \in SUBSET (1..n) |-> Ledgers!Cardinality(S)]
             t == [i \in 0..n |-> s[i].sessions]
  <1>1. \A i \in 1..n : i \in M <=> \E j \in 1..Len(ledgers[i]) : ledgers[i][j].type # "bad"
    <2>1. ASSUME NEW i \in 1..n, i \in M PROVE \E j \in 1..Len(ledgers[i]) : ledgers[i][j].type # "bad"
      <3>1. PICK l \in LinesOf(ledgers) : l[1] = i
        BY <2>1, Zenon
      <3>2. l \in Cells(ledgers)
        BY LinesAre, Zenon
      <3>3. PICK k \in 1..n : \E j \in 1..Len(ledgers[k]) : l = <<k, j>>
        BY <3>2, CellsAre, Zenon
      <3>4. PICK j \in 1..Len(ledgers[k]) : l = <<k, j>>
        BY <3>3, Zenon
      <3>5. l[1] = k
        BY <3>4
      <3>6. ledgers[k][j].type # "bad"
        BY <3>2, <3>4, LinesAre, Zenon
      <3> QED
        BY <3>1, <3>5, <3>6, Zenon
    <2>2. ASSUME NEW i \in 1..n, NEW j \in 1..Len(ledgers[i]), ledgers[i][j].type # "bad" PROVE i \in M
      <3>1. <<i, j>> \in LinesOf(ledgers)
        BY <2>2, CellsAre, LinesAre, Zenon
      <3>2. <<i, j>>[1] = i
        OBVIOUS
      <3> QED
        BY <3>1, <3>2, Zenon
    <2> QED
      BY <2>1, <2>2, Zenon
  <1>2. M \in SUBSET (1..n) /\ IsFiniteSet(1..n)
    <2>1. ASSUME NEW l \in LinesOf(ledgers) PROVE l[1] \in 1..n
      <3>1. l \in Cells(ledgers)
        BY LinesAre, Zenon
      <3>2. PICK k \in 1..n : \E j \in 1..Len(ledgers[k]) : l = <<k, j>>
        BY <3>1, CellsAre, Zenon
      <3> QED
        BY <3>2
    <2>2. \A i \in M : i \in 1..n
      BY <2>1, Zenon
    <2>3. M \in SUBSET (1..n)
      BY <2>2, Zenon
    <2>4. IsFiniteSet(1..n)
      BY FS_Interval
    <2> QED
      BY <2>3, <2>4, Zenon
  <1>3. Adds(c, w, 1..n)
    <2>1. \A i \in 1..n : w[i] = 1
      OBVIOUS
    <2> HIDE DEF w
    <2> QED
      BY <1>2, <2>1, CountsAdd, Zenon
  <1>4. ASSUME NEW i \in 1..n, NEW r, r = LedgerRowOf(ledgers[i])[Len(ledgers[i])]
        PROVE  r.any <=> i \in M
    <2>1. PICK m \in Nat : \E x : x = LedgerRowOf(ledgers[i]) /\ m = Len(ledgers[i]) /\ IsSession(ledgers[i], m, x)
      BY SessionRow, ASession, Zenon
    <2>2. PICK x : x = LedgerRowOf(ledgers[i]) /\ m = Len(ledgers[i]) /\ IsSession(ledgers[i], m, x)
      BY <2>1
    <2>3. /\ x[0].any = FALSE
          /\ \A j \in 1..m : x[j].any <=> x[j - 1].any \/ ledgers[i][j].type # "bad"
      BY <2>2, Zenon DEF IsSession
    <2> DEFINE P == {k \in 0..m : x[k].any <=> \E j \in 1..k : ledgers[i][j].type # "bad"}
    <2>4. 0 \in P
      <3>1. 1..0 = {} /\ 0 \in 0..m
        BY NoneYet
      <3>2. ~ \E j \in 1..0 : ledgers[i][j].type # "bad"
        BY <3>1, Zenon
      <3> QED
        BY <2>3, <3>1, <3>2, Zenon
    <2>5. ASSUME NEW k \in 0..m, k < m, k \in P PROVE k + 1 \in P
      <3>1. k + 1 \in 1..m /\ k + 1 \in 0..m /\ (k + 1) - 1 = k /\ 1..k + 1 = (1..k) \cup {k + 1}
        BY <2>5, NextIn
      <3>2. \A j : j \in 1..k + 1 <=> j \in 1..k \/ j = k + 1
        BY <3>1, Zenon
      <3>3. x[k + 1].any <=> x[k].any \/ ledgers[i][k + 1].type # "bad"
        BY <2>3, <3>1, Zenon
      <3>4. x[k].any <=> \E j \in 1..k : ledgers[i][j].type # "bad"
        BY <2>5, Zenon
      <3>5. x[k + 1].any <=> \E j \in 1..k + 1 : ledgers[i][j].type # "bad"
        BY <3>2, <3>3, <3>4, Zenon
      <3> QED
        BY <3>1, <3>5, Zenon
    <2>6. m \in P
      <3>1. m \in 0..m
        BY NoneYet
      <3> HIDE DEF P
      <3> QED
        BY <2>4, <2>5, <3>1, Induction, Zenon
    <2>7. x[m].any <=> \E j \in 1..m : ledgers[i][j].type # "bad"
      BY <2>6, Zenon
    <2> QED
      BY <1>1, <1>4, <2>2, <2>7, Zenon
  <1>5. ASSUME NEW i \in 1..n PROVE Goes(M, p, w, t, i)
    <2>1. i \in 0..n /\ i - 1 \in 0..n
      OBVIOUS
    <2>2. PICK r \in Aggs : r = LedgerRowOf(ledgers[i])[Len(ledgers[i])] /\ SharedBy(r, s[i - 1], s[i])
      BY ShareOf, Zenon
    <2>3. r.any <=> i \in M
      BY <1>4, <2>2, Zenon
    <2>4. t[i] = t[i - 1] + One(r.any)
      BY <2>1, <2>2, Zenon DEF SharedBy
    <2>5. t[i - 1] \in Nat
      <3>1. s[i - 1] \in Stats
        BY <2>1, Zenon DEF IsStatsRow
      <3> QED
        BY <2>1, <3>1, StatsAre, Zenon
    <2>6. \A l \in M : p[l] = l
      BY <1>2
    <2>7. w[i] = 1
      OBVIOUS
    <2> HIDE DEF M, p, w, t
    <2>8. CASE i \in M
      <3>1. t[i] = t[i - 1] + 1
        BY <2>3, <2>4, <2>8, Zenon DEF One
      <3> QED
        BY <2>6, <2>7, <2>8, <3>1, Zenon DEF Goes
    <2>9. CASE i \notin M
      <3>1. t[i] = t[i - 1] + 0
        BY <2>3, <2>4, <2>9, Zenon DEF One
      <3>2. t[i] = t[i - 1]
        BY <2>5, <3>1
      <3> QED
        BY <2>6, <2>9, <3>2, Zenon DEF Goes
    <2> QED
      BY <2>8, <2>9
  <1>6. t[0] = c[{}] /\ \A l \in M : p[l] = l
    <2>1. 0 \in 0..n
      OBVIOUS
    <2>2. t[0] = 0
      BY <2>1, ShareOf, Zenon
    <2> QED
      BY <1>2, <1>3, <2>2, Zenon DEF Adds
  <1>7. RowEnds(c, {}, M, n, t)
    <2> HIDE DEF M, p, w, t, c
    <2>1. {} \cap M = {} /\ {} \subseteq 1..n
      OBVIOUS
    <2>2. \A l \in M : p[l] \in 1..n
      BY <1>2, <1>6
    <2>3. \A l, k \in M : p[l] = p[k] => l = k
      BY <1>6
    <2>4. IsRow(1..n, c, w, {}, M, p, n, t)
      BY <1>2, <1>3, <1>5, <1>6, <2>1, <2>2, <2>3, Zenon DEF IsRow
    <2> QED
      BY <2>4, CountUp, Zenon
  <1>8. {} \cup M = M /\ n \in 0..n
    OBVIOUS
  <1>9. c[M] = Ledgers!Cardinality(M) /\ t[n] = s[n].sessions
    BY <1>2, <1>8, Zenon
  <1> HIDE DEF c, t, M
  <1>10. s[n].sessions = Ledgers!Cardinality(M)
    BY <1>7, <1>8, <1>9, Zenon DEF RowEnds
  <1> QED
    BY <1>10 DEF M

\* The figures count every line of ledgers that have been read once.
LEMMA SummedExact ==
    ASSUME NEW ledgers \in Places, NEW f, f = Ledgers!Summed(ledgers)
    PROVE  /\ f.turns = Ledgers!Cardinality(TypedOf(ledgers, "dispatch"))
           /\ f.calls = Ledgers!Cardinality(TypedOf(ledgers, "tool_result"))
           /\ f.errors = Ledgers!Cardinality(ErrorLines(ledgers))
           /\ f.sessions = Ledgers!Cardinality({l[1] : l \in LinesOf(ledgers)})
           /\ f.tokens = Sum([l \in TypedOf(ledgers, "dispatch") |-> ledgers[l[1]][l[2]].tokens],
                             TypedOf(ledgers, "dispatch"))
           /\ f.calls = Total(f.byName)
  <1>1. PICK n \in Nat : n = Len(ledgers)
    BY DEF Places
  <1>2. PICK s : IsStatsRow(ledgers, n, s)
    BY <1>1, StatsRow, Zenon
  <1>3. f = s[n] /\ f.calls = Total(f.byName)
    <2>1. n \in 0..n
      OBVIOUS
    <2> QED
      BY <1>2, <2>1, Zenon DEF IsStatsRow
  <1>4. s[n].turns = Ledgers!Cardinality(TypedOf(ledgers, "dispatch"))
    BY <1>1, <1>2, TurnsAre, Zenon
  <1>5. s[n].calls = Ledgers!Cardinality(TypedOf(ledgers, "tool_result"))
    BY <1>1, <1>2, CallsAre, Zenon
  <1>6. s[n].errors = Ledgers!Cardinality(ErrorLines(ledgers))
    BY <1>1, <1>2, ErrorsAre, Zenon
  <1>7. s[n].sessions = Ledgers!Cardinality({l[1] : l \in LinesOf(ledgers)})
    BY <1>1, <1>2, SessionsAre, Zenon
  <1>8. s[n].tokens = Sum([l \in TypedOf(ledgers, "dispatch") |-> ledgers[l[1]][l[2]].tokens],
                          TypedOf(ledgers, "dispatch"))
    BY <1>1, <1>2, TokensAre, Zenon
  <1> QED
    BY <1>3, <1>4, <1>5, <1>6, <1>7, <1>8, Zenon

\* What is read of the ledgers: all of one that is text throughout, nothing of another.
ReadOf(ledgers) == [i \in DOMAIN ledgers |-> Ledgers!Read(ledgers[i])]

\* Ledgers that have been read are ledgers, each in its place.
LEMMA ReadIs ==
    ASSUME NEW ledgers \in Places, NEW n \in Nat, n = Len(ledgers)
    PROVE  /\ ReadOf(ledgers) \in Places /\ Len(ReadOf(ledgers)) = n
           /\ DOMAIN ledgers = 1..n /\ DOMAIN ReadOf(ledgers) = 1..n
           /\ \A i \in 1..n : ReadOf(ledgers)[i] = Ledgers!Read(ledgers[i])
  <1>1. DOMAIN ledgers = 1..n
    BY DEF Places
  <1>2. PICK A : A = Seq(Ledgers!LedgerLines)
    BY Zenon
  <1>3. \A i \in 1..n : ledgers[i] \in A
    BY <1>2 DEF Places
  <1>4. <<>> \in A
    BY <1>2
  <1>5. \A i \in 1..n : Ledgers!Read(ledgers[i]) \in A
    BY <1>3, <1>4, Zenon DEF Ledgers!Read
  <1>6. PICK p : p = ReadOf(ledgers)
    BY Zenon
  <1>7. p = [i \in 1..n |-> Ledgers!Read(ledgers[i])]
    BY <1>1, <1>6, Zenon DEF ReadOf
  <1>8. /\ p \in [1..n -> A] /\ DOMAIN p = 1..n
        /\ \A i \in 1..n : p[i] = Ledgers!Read(ledgers[i])
    BY <1>5, <1>7, Zenon
  <1>9. p \in Seq(A) /\ Len(p) = n
    BY <1>8
  <1> QED
    BY <1>1, <1>2, <1>6, <1>8, <1>9, Zenon DEF Places

\* The lines of the ledgers that are text throughout are those of what is read.
LEMMA ReadLines ==
    ASSUME NEW ledgers \in Places, NEW p, p = ReadOf(ledgers)
    PROVE  /\ Ledgers!Lines(ledgers) = LinesOf(p)
           /\ \A l \in LinesOf(p) : p[l[1]][l[2]] = ledgers[l[1]][l[2]]
  <1>1. PICK n \in Nat : n = Len(ledgers)
    BY DEF Places
  <1>2. /\ DOMAIN ledgers = 1..n /\ DOMAIN p = 1..n
        /\ \A i \in 1..n : p[i] = Ledgers!Read(ledgers[i])
    BY <1>1, ReadIs, Zenon
  <1>3. ASSUME NEW i \in 1..n
        PROVE  /\ i \in Ledgers!Legible(ledgers) => p[i] = ledgers[i]
               /\ i \notin Ledgers!Legible(ledgers) => DOMAIN p[i] = {}
    <2>1. CASE i \in Ledgers!Legible(ledgers)
      BY <1>2, <2>1, Zenon DEF Ledgers!Legible, Ledgers!Read
    <2>2. CASE i \notin Ledgers!Legible(ledgers)
      <3>1. p[i] = <<>>
        BY <1>2, <2>2, Zenon DEF Ledgers!Legible, Ledgers!Read
      <3>2. DOMAIN <<>> = {}
        OBVIOUS
      <3> QED
        BY <2>2, <3>1, <3>2, Zenon
    <2> QED
      BY <2>1, <2>2, Zenon
  <1>4. Ledgers!Legible(ledgers) \subseteq 1..n
    BY <1>2, Zenon DEF Ledgers!Legible
  <1>5. ASSUME NEW l
        PROVE  l \in Cells(p) <=>
                 \E i \in Ledgers!Legible(ledgers) : l \in {i} \X DOMAIN ledgers[i]
    <2>1. l \in Cells(p) <=> \E i \in 1..n : l \in {i} \X DOMAIN p[i]
      BY <1>2, Zenon DEF Cells
    <2>2. \A i \in 1..n : l \in {i} \X DOMAIN p[i] => DOMAIN p[i] # {}
      BY Zenon
    <2> QED
      BY <1>3, <1>4, <2>1, <2>2, Zenon
  <1>6. \A l \in Cells(p) : p[l[1]][l[2]] = ledgers[l[1]][l[2]]
    <2>1. ASSUME NEW l \in Cells(p) PROVE p[l[1]][l[2]] = ledgers[l[1]][l[2]]
      <3>1. PICK i \in Ledgers!Legible(ledgers) : l \in {i} \X DOMAIN ledgers[i]
        BY <1>5, Zenon
      <3>2. l[1] = i
        BY <3>1
      <3>3. p[i] = ledgers[i]
        BY <1>3, <1>4, Zenon
      <3> QED
        BY <3>2, <3>3, Zenon
    <2> QED
      BY <2>1, Zenon
  <1>7. ASSUME NEW l PROVE l \in Ledgers!Lines(ledgers) <=> l \in LinesOf(p)
    <2>1. l \in Ledgers!Lines(ledgers) <=>
            /\ \E i \in Ledgers!Legible(ledgers) : l \in {i} \X DOMAIN ledgers[i]
            /\ ledgers[l[1]][l[2]].type # "bad"
      BY Zenon DEF Ledgers!Lines
    <2> QED
      BY <1>5, <1>6, <2>1, Zenon DEF LinesOf
  <1>8. Ledgers!Lines(ledgers) = LinesOf(p)
    BY <1>7, Zenon
  <1> QED
    BY <1>6, <1>8, Zenon DEF LinesOf

\* The figures count every line of every ledger that can be read once.
LEMMA StatsAreExact ==
    ASSUME NEW ledgers \in Places, NEW stats, stats.from = Ledgers!AllSessions(ledgers)
    PROVE  Ledgers!StatsExact(ledgers, stats)
  <1>1. PICK p \in Places : p = ReadOf(ledgers)
    <2>1. PICK n \in Nat : n = Len(ledgers)
      BY DEF Places
    <2> QED
      BY <2>1, ReadIs, Zenon
  <1>2. PICK f : f = stats.from /\ f = Ledgers!Summed(p)
    BY <1>1, Zenon DEF Ledgers!AllSessions, ReadOf
  <1> DEFINE T == Ledgers!Typed(ledgers, "dispatch")
             R == Ledgers!Typed(ledgers, "tool_result")
             E == {l \in R : ledgers[l[1]][l[2]].is_error}
             w == [l \in T |-> ledgers[l[1]][l[2]].tokens]
             v == [l \in T |-> p[l[1]][l[2]].tokens]
  <1>3. /\ Ledgers!Lines(ledgers) = LinesOf(p)
        /\ \A l \in LinesOf(p) : p[l[1]][l[2]] = ledgers[l[1]][l[2]]
    BY <1>1, ReadLines, Zenon
  <1>4. T = TypedOf(p, "dispatch") /\ R = TypedOf(p, "tool_result")
    <2>1. ASSUME NEW type, NEW l
          PROVE  l \in Ledgers!Typed(ledgers, type) <=> l \in TypedOf(p, type)
      BY <1>3, Zenon DEF Ledgers!Typed, TypedOf
    <2>2. ASSUME NEW type PROVE Ledgers!Typed(ledgers, type) = TypedOf(p, type)
      <3>1. \A l : l \in Ledgers!Typed(ledgers, type) <=> l \in TypedOf(p, type)
        BY <2>1, Zenon
      <3> QED
        BY <3>1
    <2> QED
      BY <2>2, Zenon
  <1>5. \A l \in T \cup R : p[l[1]][l[2]] = ledgers[l[1]][l[2]]
    BY <1>3, <1>4, Zenon DEF TypedOf
  <1>6. E = ErrorLines(p)
    <2> HIDE DEF T
    <2>1. \A l : l \in E <=> l \in ErrorLines(p)
      BY <1>4, <1>5, Zenon DEF ErrorLines
    <2> QED
      BY <2>1, Zenon
  <1>7. w = v
    <2> HIDE DEF T, R
    <2>1. \A l \in T : ledgers[l[1]][l[2]].tokens = p[l[1]][l[2]].tokens
      BY <1>5, Zenon
    <2> QED
      BY <2>1, Zenon
  <1>8. /\ f.turns = Ledgers!Cardinality(T) /\ f.calls = Ledgers!Cardinality(R)
        /\ f.errors = Ledgers!Cardinality(E)
        /\ f.sessions = Ledgers!Cardinality({l[1] : l \in Ledgers!Lines(ledgers)})
        /\ f.tokens = Sum(v, T) /\ f.calls = Total(f.byName)
    <2> HIDE DEF E, R
    <2>1. /\ f.turns = Ledgers!Cardinality(TypedOf(p, "dispatch"))
          /\ f.calls = Ledgers!Cardinality(TypedOf(p, "tool_result"))
          /\ f.errors = Ledgers!Cardinality(ErrorLines(p))
          /\ f.sessions = Ledgers!Cardinality({l[1] : l \in LinesOf(p)})
          /\ f.tokens = Sum([l \in TypedOf(p, "dispatch") |-> p[l[1]][l[2]].tokens],
                            TypedOf(p, "dispatch"))
          /\ f.calls = Total(f.byName)
      BY <1>2, SummedExact, Zenon
    <2>2. v = [l \in TypedOf(p, "dispatch") |-> p[l[1]][l[2]].tokens]
      BY <1>4, Zenon
    <2> HIDE DEF T, v
    <2> QED
      BY <1>3, <1>4, <1>6, <2>1, <2>2, Zenon
  <1>9. f.tokens = (CHOOSE g : IterTokens(g, ledgers, T))[T]
    <2>1. (CHOOSE g : IterTokens(g, ledgers, T))[T] = Sum(w, T)
      <3> HIDE DEF T
      <3> QED
        BY TokensFold, Zenon
    <2> HIDE DEF T, w, v
    <2> QED
      BY <1>7, <1>8, <2>1, Zenon
  <1>10. f.calls = (CHOOSE g : IterSum(g, f.byName, DOMAIN f.byName))[DOMAIN f.byName]
    <2> HIDE DEF R, E, T, v
    <2> QED
      BY <1>8, SumFold, Zenon DEF Total
  <1> HIDE DEF T, R, E, w, v
  <1>11. Ledgers!StatsExact(ledgers, stats) <=>
          /\ f.turns = Ledgers!Cardinality(T)
          /\ f.calls = Ledgers!Cardinality(R)
          /\ f.errors = Ledgers!Cardinality(E)
          /\ f.tokens = (CHOOSE g : IterTokens(g, ledgers, T))[T]
          /\ f.calls = (CHOOSE g : IterSum(g, f.byName, DOMAIN f.byName))[DOMAIN f.byName]
          /\ f.sessions = Ledgers!Cardinality({l[1] : l \in Ledgers!Lines(ledgers)})
    BY <1>2 DEF Ledgers!StatsExact, T, R, E, Ledgers!FoldSet, Ledgers!MapThenFoldSet, IterSum, IterTokens, Some
  <1> QED
    BY <1>8, <1>9, <1>10, <1>11, Zenon

-----------------------------------------------------------------------------
(* The order of the sessions                                               *)

\* Statistics added up from the first on, and from the last on.
Rows(n, x, r, q) ==
    /\ \A i \in 1..n : x[i] \in Stats
    /\ \A i \in 0..n : r[i] \in Stats /\ q[i] \in Stats
    /\ r[0] = Ledgers!NoStats /\ q[0] = Ledgers!NoStats
    /\ \A i \in 1..n : r[i] = Plus(r[i - 1], x[i])
    /\ \A i \in 1..n : q[i] = Plus(q[i - 1], x[(n - i) + 1])

\* The two rows meet: what the one has left to add, the other has added.
LEMMA RowsMeet ==
    ASSUME NEW n \in Nat, NEW x, NEW r, NEW q, Rows(n, x, r, q)
    PROVE  q[n] = r[n]
  <1> DEFINE P == {i \in 0..n : Plus(q[i], r[n - i]) = r[n]}
  <1>1. 0 \in 0..n /\ n \in 0..n /\ n - 0 = n /\ n - n = 0
    OBVIOUS
  <1>2. 0 \in P
    <2>1. PICK s \in Stats : s = r[n]
      BY <1>1, Zenon DEF Rows
    <2>2. Plus(Ledgers!NoStats, s) = s
      BY PlusNone, Zenon
    <2>3. q[0] = Ledgers!NoStats
      BY Zenon DEF Rows
    <2>4. r[n - 0] = s
      BY <1>1, <2>1, Zenon
    <2>5. Plus(q[0], r[n - 0]) = r[n]
      BY <2>1, <2>2, <2>3, <2>4, Zenon
    <2> QED
      BY <1>1, <2>5, Zenon
  <1>3. ASSUME NEW k \in 0..n, k < n, k \in P PROVE k + 1 \in P
    <2>1. k + 1 \in 1..n /\ k + 1 \in 0..n /\ (k + 1) - 1 = k
      BY <1>3, NextIn
    <2>2. PICK m \in 1..n : m = n - k /\ m - 1 \in 0..n /\ n - (k + 1) = m - 1 /\ (n - (k + 1)) + 1 = m /\ m \in 0..n
      BY <1>3
    <2>3. PICK s \in Stats, y \in Stats, u \in Stats : s = q[k] /\ y = x[m] /\ u = r[m - 1]
      BY <2>2, Zenon DEF Rows
    <2>4. r[m] = Plus(u, y)
      BY <2>2, <2>3, Zenon DEF Rows
    <2>5. q[k + 1] = Plus(s, y)
      <3>1. q[k + 1] = Plus(q[(k + 1) - 1], x[(n - (k + 1)) + 1])
        BY <2>1, Zenon DEF Rows
      <3>2. q[(k + 1) - 1] = s /\ x[(n - (k + 1)) + 1] = y
        BY <2>1, <2>2, <2>3, Zenon
      <3> QED
        BY <3>1, <3>2, Zenon
    <2>6. Plus(s, r[m]) = r[n]
      <3>1. Plus(q[k], r[n - k]) = r[n]
        BY <1>3, Zenon
      <3> QED
        BY <2>2, <2>3, <3>1, Zenon
    <2>7. Plus(Plus(s, y), u) = Plus(s, Plus(y, u))
      BY PlusAssociates, Zenon
    <2>8. Plus(y, u) = Plus(u, y)
      BY PlusCommutes, Zenon
    <2>9. Plus(q[k + 1], r[n - (k + 1)]) = r[n]
      <3>1. r[n - (k + 1)] = u
        BY <2>2, <2>3, Zenon
      <3> QED
        BY <2>4, <2>5, <2>6, <2>7, <2>8, <3>1, Zenon
    <2> QED
      BY <2>1, <2>9, Zenon
  <1>4. n \in P
    <2> HIDE DEF P
    <2> QED
      BY <1>1, <1>2, <1>3, Induction, Zenon
  <1>5. PICK s \in Stats : s = q[n]
    BY <1>1, Zenon DEF Rows
  <1>6. Plus(s, Ledgers!NoStats) = s
    BY PlusNone, Zenon
  <1>7. r[n - n] = Ledgers!NoStats
    BY <1>1, Zenon DEF Rows
  <1>8. Plus(q[n], r[n - n]) = r[n]
    BY <1>4, Zenon
  <1> QED
    BY <1>5, <1>6, <1>7, <1>8, Zenon

\* The ledgers from the last to the first.
LEMMA Reversed ==
    ASSUME NEW ledgers \in Places, NEW n \in Nat, n = Len(ledgers)
    PROVE  /\ Ledgers!Reverse(ledgers) \in Places /\ Len(Ledgers!Reverse(ledgers)) = n
           /\ \A i \in 1..n : Ledgers!Reverse(ledgers)[i] = ledgers[(n - i) + 1]
  <1>1. Ledgers!Reverse(ledgers) = [i \in 1..n |-> ledgers[(n - i) + 1]]
    BY DEF Ledgers!Reverse
  <1>2. \A i \in 1..n : (n - i) + 1 \in 1..n
    OBVIOUS
  <1>3. \A i \in 1..n : ledgers[i] \in Seq(Ledgers!LedgerLines)
    BY DEF Places
  <1>4. \A i \in 1..n : ledgers[(n - i) + 1] \in Seq(Ledgers!LedgerLines)
    BY <1>2, <1>3, Zenon
  <1>5. PICK back : back = Ledgers!Reverse(ledgers)
    BY Zenon
  <1>6. back \in [1..n -> Seq(Ledgers!LedgerLines)]
    BY <1>1, <1>4, <1>5, Zenon
  <1>7. back \in Places /\ Len(back) = n
    <2>1. PICK A : A = Seq(Ledgers!LedgerLines)
      BY Zenon
    <2>2. back \in [1..n -> A]
      BY <1>6, <2>1, Zenon
    <2>3. back \in Seq(A) /\ Len(back) = n
      BY <2>2
    <2> QED
      BY <2>1, <2>3, Zenon DEF Places
  <1>8. \A i \in 1..n : back[i] = ledgers[(n - i) + 1]
    BY <1>1, <1>5, Zenon
  <1> QED
    BY <1>5, <1>7, <1>8, Zenon

\* The sum does not depend on the order of the ledgers that have been read.
LEMMA SumOrderFree ==
    ASSUME NEW ledgers \in Places
    PROVE  Ledgers!Summed(Ledgers!Reverse(ledgers)) = Ledgers!Summed(ledgers)
  <1>1. PICK n \in Nat : n = Len(ledgers)
    BY DEF Places
  <1>2. PICK back \in Places : /\ back = Ledgers!Reverse(ledgers) /\ Len(back) = n
                               /\ \A i \in 1..n : back[i] = ledgers[(n - i) + 1]
    BY <1>1, Reversed, Zenon
  <1>3. PICK r : IsStatsRow(ledgers, n, r)
    BY <1>1, StatsRow, Zenon
  <1>4. PICK q : IsStatsRow(back, n, q)
    BY <1>2, StatsRow, Zenon
  <1> DEFINE x == [i \in 1..n |-> ShareAt(ledgers, i)]
  <1>5. ASSUME NEW i \in 1..n PROVE x[i] \in Stats
    <2>1. IsShare(Ledgers!ParseSessionEvents(ledgers[i]), ShareAt(ledgers, i))
      BY <1>1, ASession, Zenon
    <2> QED
      BY <2>1, Zenon DEF IsShare
  <1>6. ASSUME NEW i \in 1..n PROVE ShareAt(back, i) = x[(n - i) + 1]
    <2>1. (n - i) + 1 \in 1..n
      OBVIOUS
    <2> QED
      BY <1>2, <2>1, Zenon DEF ShareAt
  <1>7. Rows(n, x, r, q)
    <2>1. \A i \in 0..n : r[i] \in Stats /\ q[i] \in Stats
      BY <1>3, <1>4, Zenon DEF IsStatsRow
    <2>2. r[0] = Ledgers!NoStats /\ q[0] = Ledgers!NoStats
      BY <1>3, <1>4, Zenon DEF IsStatsRow
    <2>3. \A i \in 1..n : r[i] = Plus(r[i - 1], x[i])
      BY <1>3, Zenon DEF IsStatsRow
    <2>4. \A i \in 1..n : q[i] = Plus(q[i - 1], x[(n - i) + 1])
      BY <1>4, <1>6, Zenon DEF IsStatsRow
    <2> HIDE DEF x
    <2> QED
      BY <1>5, <2>1, <2>2, <2>3, <2>4, Zenon DEF Rows
  <1>8. q[n] = r[n]
    <2> HIDE DEF x
    <2> QED
      BY <1>7, RowsMeet, Zenon
  <1> QED
    BY <1>2, <1>3, <1>4, <1>8, Zenon DEF IsStatsRow

\* The statistics do not depend on the order in which the directory lists the ledgers.
LEMMA OrderIsFree ==
    ASSUME NEW ledgers \in Places, NEW tasks
    PROVE  Ledgers!OrderFree(ledgers, tasks)
  <1>1. PICK n \in Nat : n = Len(ledgers)
    BY DEF Places
  <1>2. PICK back \in Places : /\ back = Ledgers!Reverse(ledgers) /\ Len(back) = n
                               /\ \A i \in 1..n : back[i] = ledgers[(n - i) + 1]
    BY <1>1, Reversed, Zenon
  <1>3. PICK p \in Places : /\ p = ReadOf(ledgers) /\ Len(p) = n
                            /\ \A i \in 1..n : p[i] = Ledgers!Read(ledgers[i])
    BY <1>1, ReadIs, Zenon
  <1>4. PICK q \in Places : /\ q = ReadOf(back) /\ DOMAIN q = 1..n
                            /\ \A i \in 1..n : q[i] = Ledgers!Read(back[i])
    BY <1>2, ReadIs, Zenon
  <1>5. PICK r \in Places : /\ r = Ledgers!Reverse(p) /\ Len(r) = n
                            /\ \A i \in 1..n : r[i] = p[(n - i) + 1]
    BY <1>3, Reversed, Zenon
  <1>6. \A i \in 1..n : (n - i) + 1 \in 1..n
    OBVIOUS
  <1>7. ASSUME NEW i \in 1..n PROVE q[i] = r[i]
    <2>1. PICK j \in 1..n : j = (n - i) + 1
      BY <1>6
    <2>2. q[i] = Ledgers!Read(ledgers[j])
      BY <1>2, <1>4, <2>1, Zenon
    <2>3. r[i] = Ledgers!Read(ledgers[j])
      BY <1>3, <1>5, <2>1, Zenon
    <2> QED
      BY <2>2, <2>3, Zenon
  <1>8. q = r
    <2>1. PICK A : A = Seq(Ledgers!LedgerLines)
      BY Zenon
    <2>2. q \in Seq(A) /\ r \in Seq(A)
      BY <2>1, Zenon DEF Places
    <2>3. Len(q) = n
      BY <1>4, <2>2
    <2> QED
      BY <1>5, <1>7, <2>2, <2>3
  <1>9. /\ Ledgers!AllSessions(back) = Ledgers!Summed(q)
        /\ Ledgers!AllSessions(ledgers) = Ledgers!Summed(p)
    BY <1>3, <1>4, Zenon DEF Ledgers!AllSessions, ReadOf
  <1>10. Ledgers!AllSessions(Ledgers!Reverse(ledgers)) = Ledgers!AllSessions(ledgers)
    BY <1>2, <1>5, <1>8, <1>9, SumOrderFree, Zenon
  <1> QED
    BY <1>10, Zenon DEF Ledgers!OrderFree, Ledgers!DeriveStats

-----------------------------------------------------------------------------
(* What is read from files                                                 *)

\* The questions that are not about files or figures.
NoRecord == {"none", "read", "list", "search", "grep", "matches", "rewrite", "web", "fetch", "docs",
             "tool", "host", "delegate", "dispatch", "task", "chat"}

\* Nothing is said of an answer to them.
LEMMA OfNoRecord ==
    ASSUME topic' \in NoRecord
    PROVE  RecordsExact'
  BY DEF RecordsExact, NoRecord

\* The configuration.
LEMMA ConfigIsExact == ASSUME AskConfig PROVE RecordsExact'
  <1>1. PICK env \in Environments, file \in ConfigFiles :
            Ask("config", [env |-> env, file |-> file], Config!Load(env, file))
    BY Zenon DEF AskConfig
  <1>2. env \in [Config!Fields -> Config!EnvValues] /\ file \in Config!ConfigurationFiles
    BY RecordInputs DEF RecordInputs
  <1>3. Config!LayersExact(env, file, Config!Load(env, file))
    BY <1>2, LayersAreExact, Zenon
  <1>4. topic' = "config" /\ input' = [env |-> env, file |-> file] /\ answer' = Config!Load(env, file)
    BY <1>1, Zenon DEF Ask
  <1>5. input'.env = env /\ input'.file = file
    BY <1>4
  <1> QED
    BY <1>3, <1>4, <1>5, Zenon DEF RecordsExact

\* install.
LEMMA InstallIsExact == ASSUME AskInstall PROVE RecordsExact'
  <1>1. PICK client \in {"claude", "antigravity", "all", "vim"},
             files \in [{"claude", "antigravity"} -> ClientFiles], broken \in SUBSET {"claude", "antigravity"} :
            Ask("install", [client |-> client, files |-> files], Config!Install(client, files, broken))
    BY Zenon DEF AskInstall
  <1>2. files \in [{"claude", "antigravity"} -> Config!InstallFiles]
    BY RecordInputs, Zenon DEF RecordInputs
  <1>3. Config!MergeKeeps(client, files, Config!Install(client, files, broken))
    BY <1>2, MergesKeep
  <1>4. topic' = "install" /\ input' = [client |-> client, files |-> files]
        /\ answer' = Config!Install(client, files, broken)
    BY <1>1, Zenon DEF Ask
  <1>5. input'.client = client /\ input'.files = files
    BY <1>4
  <1> QED
    BY <1>3, <1>4, <1>5, Zenon DEF RecordsExact

\* anser stats.
LEMMA FiguresAreExact == ASSUME AskStats PROVE RecordsExact'
  <1>1. PICK ledgers \in LedgerFolders, status \in {"completed", "executing"} :
            Ask("stats", ledgers, Ledgers!DeriveStats(ledgers, <<status, "failed">>))
    BY Zenon DEF AskStats
  <1>2. ledgers \in Places
    BY RecordInputs DEF RecordInputs, Places
  <1>3. PICK stats : stats = Ledgers!DeriveStats(ledgers, <<status, "failed">>)
    BY Zenon
  <1>4. stats.from = Ledgers!AllSessions(ledgers)
    BY <1>3 DEF Ledgers!DeriveStats
  <1>5. Ledgers!StatsExact(ledgers, stats)
    BY <1>2, <1>4, StatsAreExact, Zenon
  <1>6. Ledgers!OrderFree(ledgers, <<"completed">>)
    BY <1>2, OrderIsFree, Zenon
  <1>7. topic' = "stats" /\ input' = ledgers /\ answer' = stats
    BY <1>1, <1>3, Zenon DEF Ask
  <1> QED
    BY <1>5, <1>6, <1>7, Zenon DEF RecordsExact

\* The index of the skills.
LEMMA SkillsAreExact == ASSUME AskSkills PROVE RecordsExact'
  <1>1. PICK dirs \in SkillDirs : Ask("skills", dirs, Config!LoadSkills(dirs))
    BY Zenon DEF AskSkills
  <1>2. dirs \in Seq(Seq(Config!Folders))
    BY RecordInputs DEF RecordInputs
  <1>3. Config!IndexSound(dirs, Config!LoadSkills(dirs))
    BY <1>2, IndexIsSound, Zenon
  <1>4. topic' = "skills" /\ input' = dirs /\ answer' = Config!LoadSkills(dirs)
    BY <1>1, Zenon DEF Ask
  <1> QED
    BY <1>3, <1>4, Zenon DEF RecordsExact

\* The assertions on a trace.
LEMMA TraceIsExact == ASSUME AskTrace PROVE RecordsExact'
  <1>1. PICK steps \in Traces : topic' = "trace" /\ input' = steps
    BY DEF AskTrace, Ask
  <1>2. PICK A : steps \in Seq(A)
    BY RecordInputs, Zenon DEF RecordInputs
  <1>3. Harness!AssertionsExact(steps)
    BY <1>2, AssertionsAreExact, Zenon
  <1> QED
    BY <1>1, <1>3, Zenon DEF RecordsExact

\* A task of the evaluation.
LEMMA EvalIsExact == ASSUME AskEval PROVE RecordsExact'
  <1>1. PICK task \in EvalTasks, variant \in {"golden", "known-fail"} :
            Ask("eval", <<>>, Harness!RunTask(task, variant))
    BY Zenon DEF AskEval
  <1>2. task.checks \in Seq(Range(task.checks))
    BY RecordInputs, Zenon DEF RecordInputs
  <1>3. Harness!OutcomeExact(Harness!RunTask(task, variant))
    BY <1>2, OutcomesExact, Zenon
  <1>4. topic' = "eval" /\ answer' = Harness!RunTask(task, variant)
    BY <1>1, Zenon DEF Ask
  <1> QED
    BY <1>3, <1>4, Zenon DEF RecordsExact

\* A day.
LEMMA DayIsExact == ASSUME AskDay PROVE RecordsExact'
  <1>1. PICK z \in Days : Ask("day", z, Ledgers!CivilFromDays(z))
    BY Zenon DEF AskDay
  <1>2. z \in Nat
    BY RecordInputs DEF RecordInputs
  <1>3. Ledgers!CalendarExact(z, Ledgers!CivilFromDays(z))
    BY <1>2, CalendarIsExact, Zenon
  <1>4. topic' = "day" /\ input' = z /\ answer' = Ledgers!CivilFromDays(z)
    BY <1>1, Zenon DEF Ask
  <1> QED
    BY <1>3, <1>4, Zenon DEF RecordsExact

\* A command.
LEMMA RunIsExact == ASSUME AskRun PROVE RecordsExact'
  <1>1. PICK cmd \in AllCommands, broken \in Breakages, locked \in BOOLEAN, yes \in BOOLEAN :
            Ask("run", [cmd |-> cmd, env |-> [broken |-> broken, locked |-> locked, yes |-> yes]],
                Commands!RunCommand(cmd, [broken |-> broken, locked |-> locked, yes |-> yes]))
    BY Zenon DEF AskRun
  <1>2. PICK env : env = [broken |-> broken, locked |-> locked, yes |-> yes]
    BY Zenon
  <1>3. env.locked \in BOOLEAN /\ env.yes \in BOOLEAN
    BY <1>2
  <1>4. Commands!ExitHonest(cmd, env, Commands!RunCommand(cmd, env))
    BY <1>3, ExitsHonest
  <1>5. topic' = "run" /\ input' = [cmd |-> cmd, env |-> env] /\ answer' = Commands!RunCommand(cmd, env)
    BY <1>1, <1>2, Zenon DEF Ask
  <1>6. input'.cmd = cmd /\ input'.env = env
    BY <1>5
  <1> QED
    BY <1>4, <1>5, <1>6, Zenon DEF RecordsExact

\* evo run.
LEMMA EvoIsExact == ASSUME AskEvo PROVE RecordsExact'
  <1>1. PICK override \in EvalDirs \cup {"none"}, dirs \in SUBSET EvalDirs,
             broken \in SUBSET {"score", "load", "commit", "save"} :
            Ask("evo", <<override, dirs>>, Commands!EvoRun(override, dirs, broken))
    BY Zenon DEF AskEvo
  <1>2. "error" \notin dirs /\ override # "error"
    <2>1. "error" \notin EvalDirs
      BY RecordInputs, Zenon DEF RecordInputs
    <2>2. "none" # "error"
      OBVIOUS
    <2> QED
      BY <2>1, <2>2
  <1>3. Commands!CommitReported(override, dirs, Commands!EvoRun(override, dirs, broken))
    BY <1>2, CommitsReported
  <1>4. topic' = "evo" /\ input' = <<override, dirs>> /\ answer' = Commands!EvoRun(override, dirs, broken)
    BY <1>1, Zenon DEF Ask
  <1>5. input'[1] = override /\ input'[2] = dirs
    BY <1>4
  <1> QED
    BY <1>3, <1>4, <1>5, Zenon DEF RecordsExact

\* The other questions are not about files or figures.
LEMMA AskedElsewhere ==
    ASSUME \/ AskRead \/ AskList \/ AskSearch \/ AskGrep \/ AskMatches \/ AskRewrite
           \/ AskWeb \/ AskFetch \/ AskDocs \/ AskTool \/ AskHostPath
           \/ AskDelegate \/ AskDispatch \/ AskTask \/ AskChat
    PROVE  topic' \in NoRecord
  <1>1. \A t \in {"read", "list", "search", "grep", "matches", "rewrite", "web", "fetch", "docs",
                  "tool", "host", "delegate", "dispatch", "task", "chat"} :
          \A i, a : Ask(t, i, a) => topic' \in NoRecord
    BY DEF Ask, NoRecord
  <1>2. CASE AskRead
    BY <1>1, <1>2, Zenon DEF AskRead
  <1>3. CASE AskList
    BY <1>1, <1>3, Zenon DEF AskList
  <1>4. CASE AskSearch
    BY <1>1, <1>4, Zenon DEF AskSearch
  <1>5. CASE AskGrep
    BY <1>1, <1>5, Zenon DEF AskGrep
  <1>6. CASE AskMatches
    BY <1>1, <1>6, Zenon DEF AskMatches
  <1>7. CASE AskRewrite
    BY <1>1, <1>7, Zenon DEF AskRewrite
  <1>8. CASE AskWeb
    BY <1>1, <1>8, Zenon DEF AskWeb
  <1>9. CASE AskFetch
    BY <1>1, <1>9, Zenon DEF AskFetch
  <1>10. CASE AskDocs
    BY <1>1, <1>10, Zenon DEF AskDocs
  <1>11. CASE AskTool
    BY <1>1, <1>11, Zenon DEF AskTool
  <1>12. CASE AskHostPath
    BY <1>1, <1>12, Zenon DEF AskHostPath
  <1>13. CASE AskDelegate
    BY <1>1, <1>13, Zenon DEF AskDelegate
  <1>14. CASE AskDispatch
    BY <1>1, <1>14, Zenon DEF AskDispatch
  <1>15. CASE AskTask
    BY <1>1, <1>15, Zenon DEF AskTask
  <1>16. CASE AskChat
    BY <1>1, <1>16, Zenon DEF AskChat
  <1> QED
    BY <1>2, <1>3, <1>4, <1>5, <1>6, <1>7, <1>8, <1>9, <1>10, <1>11, <1>12, <1>13, <1>14, <1>15, <1>16, Zenon

\* For any files and folders: each field of the configuration comes from the highest
\* layer that has it, and install takes nothing from any file; the statistics count
\* every line of every ledger once, in whatever order the directory lists them; the
\* index has each skill once; the assertions on a trace mean what they say, and a report
\* of an evaluation is an error exactly where something could not be evaluated; dates are
\* those of the calendar and are read back, on every day from 1970 on; the exit code
\* tells whether a command did what was asked; and what evo run reports as committed is
\* in the lineage.
THEOREM DecisionsRecordsExact == Spec => []RecordsExact
  <1>1. Init => RecordsExact
    BY DEF Init, RecordsExact
  <1>2. RecordsExact /\ [Next]_vars => RecordsExact'
    <2> SUFFICES ASSUME RecordsExact, [Next]_vars
                 PROVE  RecordsExact'
      OBVIOUS
    <2>1. CASE UNCHANGED vars
      BY <2>1 DEF RecordsExact, vars
    <2>2. CASE \/ AskRead \/ AskList \/ AskSearch \/ AskGrep \/ AskMatches \/ AskRewrite
               \/ AskWeb \/ AskFetch \/ AskDocs \/ AskTool \/ AskHostPath
               \/ AskDelegate \/ AskDispatch \/ AskTask \/ AskChat
      BY <2>2, AskedElsewhere, OfNoRecord, Zenon
    <2>3. CASE AskConfig
      BY <2>3, ConfigIsExact
    <2>4. CASE AskInstall
      BY <2>4, InstallIsExact
    <2>5. CASE AskStats
      BY <2>5, FiguresAreExact
    <2>6. CASE AskSkills
      BY <2>6, SkillsAreExact
    <2>7. CASE AskTrace
      BY <2>7, TraceIsExact
    <2>8. CASE AskEval
      BY <2>8, EvalIsExact
    <2>9. CASE AskDay
      BY <2>9, DayIsExact
    <2>10. CASE AskRun
      BY <2>10, RunIsExact
    <2>11. CASE AskEvo
      BY <2>11, EvoIsExact
    <2> QED
      BY <2>1, <2>2, <2>3, <2>4, <2>5, <2>6, <2>7, <2>8, <2>9, <2>10, <2>11, Zenon DEF Next
  <1> QED
    BY <1>1, <1>2, PTL DEF Spec

=============================================================================
