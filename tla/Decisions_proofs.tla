-------------------------- MODULE Decisions_proofs --------------------------
(***************************************************************************)
(* The tools and the requests of Decisions, for any inputs of their types: *)
(* files and their lines, directories, searches, syntax-tree edits, web    *)
(* searches, fetched pages and documentation; the gate of a delegation,    *)
(* the dispatch, the task tool and the engine's reply; and, for            *)
(* Records_proofs, the calendar. A loop of the code is a fold of the       *)
(* model. A fold is a recursive function on sets of places, of which the   *)
(* provers see only its equation, so each is first turned into a row of    *)
(* steps, one per place (the lemmas called ...Walks), along which an       *)
(* induction can go.                                                       *)
(***************************************************************************)
EXTENDS Decisions, FiniteSetTheorems, SequenceTheorems, TLAPS

-----------------------------------------------------------------------------
(* Cardinality, as the modules that are composed have it.                  *)

\* They are all the one of FiniteSets.
LEMMA SameCount ==
    ASSUME NEW S
    PROVE  Web!Cardinality(S) = Cardinality(S) /\ Gate!Cardinality(S) = Cardinality(S) /\ Ledgers!Cardinality(S) = Cardinality(S)
  BY Zenon DEF Web!Cardinality, Gate!Cardinality, Ledgers!Cardinality, Cardinality

-----------------------------------------------------------------------------
(* Induction                                                               *)

\* A set of numbers that is not empty has a least one.
LEMMA LeastNat ==
    ASSUME NEW N \in SUBSET Nat, N # {}
    PROVE  \E n \in N : \A m \in N : n <= m
  <1> DEFINE R == OpToRel(<, Nat)
  <1>1. IsWellFoundedOn(R, Nat)
    BY NatLessThanWellFounded, Zenon
  <1>2. \A m, n \in Nat : m < n => <<m, n>> \in R
    BY DEF OpToRel
  <1> HIDE DEF R
  <1>3. PICK n \in N : \A m \in N : ~ (<<m, n>> \in R)
    BY <1>1, WFMin
  <1>4. \A m \in N : ~(m < n)
    BY <1>2, <1>3
  <1> QED
    BY <1>4

\* The same as an induction: what holds at 0 and is kept from each number to the
\* next holds of all, P being the set of the numbers of which it holds.
LEMMA Induction ==
    ASSUME NEW P, NEW n \in Nat, 0 \in P, \A k \in 0..n : k < n /\ k \in P => k + 1 \in P
    PROVE  \A k \in 0..n : k \in P
  <1> DEFINE N == {k \in 0..n : k \notin P}
  <1> SUFFICES ASSUME N # {} PROVE FALSE
    OBVIOUS
  <1>0. N \in SUBSET Nat
    OBVIOUS
  <1>1. PICK k \in N : \A m \in N : k <= m
    BY <1>0, LeastNat
  <1>2. k # 0
    OBVIOUS
  <1>3. k - 1 \in 0..n /\ k - 1 < n /\ ~(k <= k - 1) /\ (k - 1) + 1 = k
    BY <1>2
  <1>4. k - 1 \in P
    BY <1>1, <1>3
  <1> QED
    BY <1>3, <1>4

\* The next place.
LEMMA NextIn ==
    ASSUME NEW n \in Nat, NEW i \in 0..n, i < n
    PROVE  /\ i + 1 \in 1..n /\ i + 1 \in 0..n /\ (i + 1) - 1 = i
           /\ 1..i + 1 = (1..i) \cup {i + 1} /\ i + 1 \notin 1..i
  OBVIOUS

\* No place.
LEMMA NoneYet ==
    ASSUME NEW n \in Nat
    PROVE  1..0 = {} /\ 0 \in 0..n /\ n \in 0..n
  OBVIOUS

-----------------------------------------------------------------------------
(* The folds                                                               *)

\* One step of each fold over a sequence: at its i-th element.
Op(fold, arg, s, i, acc) ==
    CASE fold = "flatten" -> acc \o s[i]
      [] fold = "matches" ->
            IF s[i] /\ Len(acc) < arg[2] THEN Append(acc, <<arg[1], i>>) ELSE acc
      [] fold = "search" ->
            IF Len(acc) >= arg \/ ~Files!Searched(s[i]) THEN acc
            ELSE acc \o Files!FileMatches(s[i], arg - Len(acc))
      [] fold = "ast" ->
            IF acc >= arg \/ ~Files!Candidate(s[i]) THEN acc
            ELSE Files!Least(arg, acc + s[i].matches)
      [] fold = "all" -> IF Files!Candidate(s[i]) THEN acc + s[i].matches ELSE acc
      [] fold = "replace" -> Files!ReplaceIn(acc, s[i])
      [] fold = "applied" -> IF s[i].name \in arg THEN acc + s[i].matches ELSE acc
      [] fold = "urls" ->
            IF s[i].url # "" /\ (arg => s[i].title) THEN Append(acc, s[i].url) ELSE acc
      [] fold = "type" -> IF s[i].type = arg THEN Append(acc, s[i]) ELSE acc
      [] fold = "line" -> Ledgers!Line(acc, s[i])
      [] fold = "session" -> Ledgers!WithSession(acc, s[i])
      [] fold = "folder" -> Config!WithFolder(acc, s[i])
      [] fold = "pass" -> Gate!Pass(s, arg, acc, i)
      [] fold = "spread" ->
            IF i \in Gate!Kept(s) /\ acc[i] = "target" THEN Gate!Spread(s, acc, i) ELSE acc

\* The equation that the function of a fold solves, for the subsets of D.
Iter(fold, arg, g, b, s, D) ==
    g = [S \in SUBSET D |->
            IF S = {} THEN b ELSE Op(fold, arg, s, Max(S), g[S \ {Max(S)}])]

\* A fold gets from b to z in n steps.
Walks(fold, arg, b, s, n, z) ==
    \E r : /\ r[0] = b /\ r[n] = z
          /\ \A i \in 1..n : r[i] = Op(fold, arg, s, i, r[i - 1])

\* Max is the greatest.
LEMMA MaxIs ==
    ASSUME NEW S, NEW m \in S, m \in Nat, \A y \in S : y \in Nat /\ y <= m
    PROVE  Max(S) = m
  <1>1. PICK x : x = CHOOSE y \in S : \A z \in S : y >= z
    OBVIOUS
  <1>2. x \in S /\ \A z \in S : x >= z
    BY <1>1
  <1>3. x = m
    BY <1>2
  <1> QED
    BY <1>1, <1>3 DEF Max

\* The equation has a solution.
LEMMA IterExists ==
    ASSUME NEW fold, NEW arg, NEW b, NEW s, NEW n \in Nat
    PROVE  \E g : Iter(fold, arg, g, b, s, 1..n)
  <1> DEFINE P == {k \in 0..n : \E g : Iter(fold, arg, g, b, s, 1..k)}
  <1>1. 0 \in P
    <2> DEFINE h == [S \in SUBSET (1..0) |-> b]
    <2>1. SUBSET (1..0) = {{}}
      OBVIOUS
    <2>2. Iter(fold, arg, h, b, s, 1..0)
      BY <2>1 DEF Iter
    <2> QED
      BY <2>2
  <1>2. ASSUME NEW k \in 0..n, k < n, k \in P PROVE k + 1 \in P
    <2>1. PICK g : Iter(fold, arg, g, b, s, 1..k)
      BY <1>2
    <2>2. g = [S \in SUBSET (1..k) |->
                  IF S = {} THEN b ELSE Op(fold, arg, s, Max(S), g[S \ {Max(S)}])]
      BY <2>1 DEF Iter
    <2> DEFINE h == [S \in SUBSET (1..k + 1) |->
                        IF k + 1 \in S THEN Op(fold, arg, s, k + 1, g[S \ {k + 1}]) ELSE g[S]]
    <2>3. ASSUME NEW S \in SUBSET (1..k + 1)
          PROVE  h[S] = IF S = {} THEN b ELSE Op(fold, arg, s, Max(S), h[S \ {Max(S)}])
      <3>1. CASE k + 1 \in S
        <4>1. S \ {k + 1} \in SUBSET (1..k) /\ S \ {k + 1} \in SUBSET (1..k + 1)
          OBVIOUS
        <4>2. Max(S) = k + 1
          <5>1. k + 1 \in Nat /\ \A y \in S : y \in Nat /\ y <= k + 1
            OBVIOUS
          <5> QED
            BY <3>1, <5>1, MaxIs
        <4>3. h[S \ {k + 1}] = g[S \ {k + 1}]
          BY <4>1
        <4>4. h[S] = Op(fold, arg, s, k + 1, g[S \ {k + 1}])
          BY <3>1
        <4> QED
          BY <3>1, <4>2, <4>3, <4>4
      <3>2. CASE k + 1 \notin S
        <4>1. S \in SUBSET (1..k)
          BY <3>2
        <4>2. h[S] = g[S] /\ h[S \ {Max(S)}] = g[S \ {Max(S)}]
          BY <3>2, <4>1
        <4> QED
          BY <2>2, <4>1, <4>2
      <3> QED
        BY <3>1, <3>2
    <2>4. Iter(fold, arg, h, b, s, 1..k + 1)
      BY <2>3 DEF Iter
    <2> QED
      BY <1>2, <2>4
  <1> HIDE DEF P
  <1>3. n \in P
    BY <1>1, <1>2, Induction
  <1> QED
    BY <1>3 DEF P

\* Any solution goes through the elements one by one.
LEMMA IterSteps ==
    ASSUME NEW fold, NEW arg, NEW b, NEW s, NEW n \in Nat, NEW g, Iter(fold, arg, g, b, s, 1..n)
    PROVE  Walks(fold, arg, b, s, n, g[1..n])
  <1>1. \A S \in SUBSET (1..n) :
            g[S] = IF S = {} THEN b ELSE Op(fold, arg, s, Max(S), g[S \ {Max(S)}])
    BY DEF Iter
  <1> DEFINE r == [i \in 0..n |-> g[1..i]]
  <1>2. r[0] = b /\ r[n] = g[1..n]
    <2>1. 1..0 = {} /\ 1..0 \in SUBSET (1..n) /\ 0 \in 0..n /\ n \in 0..n
      OBVIOUS
    <2> QED
      BY <1>1, <2>1
  <1>3. ASSUME NEW i \in 1..n PROVE r[i] = Op(fold, arg, s, i, r[i - 1])
    <2>1. i - 1 \in Nat /\ i - 1 \in 0..n /\ (i - 1) + 1 = i
      OBVIOUS
    <2>2. i \in Nat /\ i \in 1..i /\ \A y \in 1..i : y \in Nat /\ y <= i
      OBVIOUS
    <2>3. Max(1..i) = i
      BY <2>2, MaxIs
    <2>4. 1..i # {} /\ 1..i \in SUBSET (1..n) /\ (1..i) \ {i} = 1..(i - 1)
      OBVIOUS
    <2>5. g[1..i] = Op(fold, arg, s, i, g[1..i - 1])
      BY <1>1, <2>3, <2>4
    <2> QED
      BY <2>1, <2>5
  <1> HIDE DEF r
  <1> QED
    BY <1>2, <1>3 DEF Walks

-----------------------------------------------------------------------------
(* What the folds of the models are: steps from their first value          *)

\* The greatest element is one of the elements.
LEMMA MaxIn ==
    ASSUME NEW n \in Nat, NEW S \in SUBSET (1..n), S # {}
    PROVE  Max(S) \in S
  <1> DEFINE N == {n - i : i \in S}
  <1>0. PICK x \in S : n - x \in N
    OBVIOUS
  <1>1. N \in SUBSET Nat /\ N # {}
    BY <1>0
  <1>2. PICK k \in N : \A m \in N : k <= m
    BY <1>1, LeastNat
  <1>3. PICK i \in S : k = n - i
    BY <1>2
  <1>4. \A j \in S : n - i <= n - j
    BY <1>2, <1>3
  <1>5. i \in Nat /\ \A j \in S : j \in Nat /\ j <= i
    BY <1>4
  <1>6. Max(S) = i
    BY <1>5, MaxIs
  <1> QED
    BY <1>6

IterSearch(g, files, limit) ==
    g = [S \in SUBSET (DOMAIN files) |->
            IF S = {} THEN <<>>
            ELSE IF Len(g[S \ {Max(S)}]) >= limit \/ ~Files!Searched(files[Max(S)]) THEN g[S \ {Max(S)}]
                 ELSE g[S \ {Max(S)}] \o Files!FileMatches(files[Max(S)], limit - Len(g[S \ {Max(S)}]))]

\* search_code goes through the files.
LEMMA SearchWalks ==
    ASSUME NEW A, NEW files \in Seq(A), NEW limit
    PROVE  Walks("search", limit, <<>>, files, Len(files), Files!FallbackSearch(files, limit))
  <1>1. DOMAIN files = 1..Len(files) /\ Len(files) \in Nat
    OBVIOUS
  <1>2. Files!FallbackSearch(files, limit) = (CHOOSE g : IterSearch(g, files, limit))[DOMAIN files]
    BY DEF Files!FallbackSearch, Files!FoldLeft, Files!MapThenFoldSet, Files!Max, Max, IterSearch
  <1>3. \A g : IterSearch(g, files, limit) <=> Iter("search", limit, g, <<>>, files, 1..Len(files))
    BY <1>1 DEF IterSearch, Iter, Op
  <1>4. \E g : Iter("search", limit, g, <<>>, files, 1..Len(files))
    BY <1>1, IterExists
  <1>5. PICK g : g = CHOOSE h : IterSearch(h, files, limit)
    OBVIOUS
  <1>6. Iter("search", limit, g, <<>>, files, 1..Len(files))
    BY <1>3, <1>4, <1>5
  <1> DEFINE n == Len(files)
  <1>7. n \in Nat /\ Iter("search", limit, g, <<>>, files, 1..n)
    BY <1>1, <1>6
  <1> HIDE DEF n
  <1>8. Walks("search", limit, <<>>, files, n, g[1..n])
    BY <1>7, IterSteps
  <1> QED
    BY <1>1, <1>2, <1>5, <1>8 DEF n

IterMatches(g, file, lines, room) ==
    g = [S \in SUBSET (DOMAIN [i \in DOMAIN lines |-> i]) |->
            IF S = {} THEN <<>>
            ELSE IF file.lines[[i \in DOMAIN lines |-> i][Max(S)]] /\ Len(g[S \ {Max(S)}]) < room THEN Append(g[S \ {Max(S)}], <<file.path, [i \in DOMAIN lines |-> i][Max(S)]>>) ELSE g[S \ {Max(S)}]]

\* The search of a file goes through its lines.
LEMMA MatchesWalks ==
    ASSUME NEW A, NEW lines \in Seq(A), NEW path, NEW file, file.lines = lines, file.path = path, NEW room
    PROVE  Walks("matches", <<path, room>>, <<>>, lines, Len(lines), Files!FileMatches(file, room))
  <1>1. DOMAIN lines = 1..Len(lines) /\ Len(lines) \in Nat
    OBVIOUS
  <1>2. Files!FileMatches(file, room) = (CHOOSE g : IterMatches(g, file, lines, room))[DOMAIN [i \in DOMAIN lines |-> i]]
    BY DEF Files!FileMatches, Files!FoldLeft, Files!MapThenFoldSet, Files!Max, Files!FoldLeftDomain, Max, IterMatches
  <1>9. /\ DOMAIN [i \in DOMAIN lines |-> i] = 1..Len(lines)
        /\ \A m \in 1..Len(lines) : [i \in DOMAIN lines |-> i][m] = m
    BY <1>1
  <1>a. ASSUME NEW S \in SUBSET (1..Len(lines)), S # {}, NEW acc
        PROVE  Op("matches", <<path, room>>, lines, Max(S), acc) =
               IF file.lines[[i \in DOMAIN lines |-> i][Max(S)]] /\ Len(acc) < room THEN Append(acc, <<file.path, [i \in DOMAIN lines |-> i][Max(S)]>>) ELSE acc
    <2>0. PICK k \in Nat : k = Len(lines)
      BY <1>1, Zenon
    <2>5. S \in SUBSET (1..k)
      BY <2>0
    <2>6. Max(S) \in S
      BY <1>a, <2>5, MaxIn
    <2>1. PICK m \in 1..Len(lines) : m = Max(S)
      BY <2>6
    <2>2. [i \in DOMAIN lines |-> i][Max(S)] = m
      BY <1>9, <2>1
    <2>3. Op("matches", <<path, room>>, lines, m, acc) =
             IF file.lines[m] /\ Len(acc) < room THEN Append(acc, <<file.path, m>>) ELSE acc
      BY Zenon DEF Op
    <2> QED
      BY <2>1, <2>2, <2>3
  <1>3. ASSUME NEW g
        PROVE  IterMatches(g, file, lines, room) <=> Iter("matches", <<path, room>>, g, <<>>, lines, 1..Len(lines))
    <2>1. ASSUME NEW S \in SUBSET (1..Len(lines))
          PROVE  (IF S = {} THEN <<>> ELSE IF file.lines[[i \in DOMAIN lines |-> i][Max(S)]] /\ Len(g[S \ {Max(S)}]) < room THEN Append(g[S \ {Max(S)}], <<file.path, [i \in DOMAIN lines |-> i][Max(S)]>>) ELSE g[S \ {Max(S)}]) =
                 (IF S = {} THEN <<>> ELSE Op("matches", <<path, room>>, lines, Max(S), g[S \ {Max(S)}]))
      BY <1>a
    <2>2. SUBSET (DOMAIN [i \in DOMAIN lines |-> i]) = SUBSET (1..Len(lines))
      BY <1>9
    <2>3. [S \in SUBSET (DOMAIN [i \in DOMAIN lines |-> i]) |-> IF S = {} THEN <<>> ELSE IF file.lines[[i \in DOMAIN lines |-> i][Max(S)]] /\ Len(g[S \ {Max(S)}]) < room THEN Append(g[S \ {Max(S)}], <<file.path, [i \in DOMAIN lines |-> i][Max(S)]>>) ELSE g[S \ {Max(S)}]] =
          [S \in SUBSET (1..Len(lines)) |->
             IF S = {} THEN <<>> ELSE Op("matches", <<path, room>>, lines, Max(S), g[S \ {Max(S)}])]
      BY <2>1, <2>2, Zenon
    <2> QED
      BY <2>3, Zenon DEF IterMatches, Iter
  <1>4. \E g : Iter("matches", <<path, room>>, g, <<>>, lines, 1..Len(lines))
    BY <1>1, IterExists
  <1>5. PICK g : g = CHOOSE h : IterMatches(h, file, lines, room)
    OBVIOUS
  <1>6. Iter("matches", <<path, room>>, g, <<>>, lines, 1..Len(lines))
    BY <1>3, <1>4, <1>5
  <1> DEFINE n == Len(lines)
  <1>7. n \in Nat /\ Iter("matches", <<path, room>>, g, <<>>, lines, 1..n)
    BY <1>1, <1>6
  <1> HIDE DEF n
  <1>8. Walks("matches", <<path, room>>, <<>>, lines, n, g[1..n])
    BY <1>7, IterSteps
  <1> QED
    BY <1>1, <1>2, <1>5, <1>8, <1>9 DEF n

IterAst(g, files, limit) ==
    g = [S \in SUBSET (DOMAIN files) |->
            IF S = {} THEN 0
            ELSE IF g[S \ {Max(S)}] >= limit \/ ~Files!Candidate(files[Max(S)]) THEN g[S \ {Max(S)}]
                 ELSE Files!Least(limit, g[S \ {Max(S)}] + files[Max(S)].matches)]

\* ast_search goes through the files.
LEMMA AstWalks ==
    ASSUME NEW A, NEW files \in Seq(A), NEW limit
    PROVE  Walks("ast", limit, 0, files, Len(files), Files!AstSearch(files, limit))
  <1>1. DOMAIN files = 1..Len(files) /\ Len(files) \in Nat
    OBVIOUS
  <1>2. Files!AstSearch(files, limit) = (CHOOSE g : IterAst(g, files, limit))[DOMAIN files]
    BY DEF Files!AstSearch, Files!FoldLeft, Files!MapThenFoldSet, Files!Max, Max, IterAst
  <1>3. \A g : IterAst(g, files, limit) <=> Iter("ast", limit, g, 0, files, 1..Len(files))
    BY <1>1 DEF IterAst, Iter, Op
  <1>4. \E g : Iter("ast", limit, g, 0, files, 1..Len(files))
    BY <1>1, IterExists
  <1>5. PICK g : g = CHOOSE h : IterAst(h, files, limit)
    OBVIOUS
  <1>6. Iter("ast", limit, g, 0, files, 1..Len(files))
    BY <1>3, <1>4, <1>5
  <1> DEFINE n == Len(files)
  <1>7. n \in Nat /\ Iter("ast", limit, g, 0, files, 1..n)
    BY <1>1, <1>6
  <1> HIDE DEF n
  <1>8. Walks("ast", limit, 0, files, n, g[1..n])
    BY <1>7, IterSteps
  <1> QED
    BY <1>1, <1>2, <1>5, <1>8 DEF n

IterAll(g, files) ==
    g = [S \in SUBSET (DOMAIN files) |->
            IF S = {} THEN 0
            ELSE IF Files!Candidate(files[Max(S)]) THEN g[S \ {Max(S)}] + files[Max(S)].matches ELSE g[S \ {Max(S)}]]

\* All matches are counted file by file.
LEMMA AllWalks ==
    ASSUME NEW A, NEW arg, NEW files \in Seq(A)
    PROVE  Walks("all", arg, 0, files, Len(files), Files!AllMatches(files))
  <1>1. DOMAIN files = 1..Len(files) /\ Len(files) \in Nat
    OBVIOUS
  <1>2. Files!AllMatches(files) = (CHOOSE g : IterAll(g, files))[DOMAIN files]
    BY DEF Files!AllMatches, Files!FoldLeft, Files!MapThenFoldSet, Files!Max, Max, IterAll
  <1>3. \A g : IterAll(g, files) <=> Iter("all", arg, g, 0, files, 1..Len(files))
    BY <1>1 DEF IterAll, Iter, Op
  <1>4. \E g : Iter("all", arg, g, 0, files, 1..Len(files))
    BY <1>1, IterExists
  <1>5. PICK g : g = CHOOSE h : IterAll(h, files)
    OBVIOUS
  <1>6. Iter("all", arg, g, 0, files, 1..Len(files))
    BY <1>3, <1>4, <1>5
  <1> DEFINE n == Len(files)
  <1>7. n \in Nat /\ Iter("all", arg, g, 0, files, 1..n)
    BY <1>1, <1>6
  <1> HIDE DEF n
  <1>8. Walks("all", arg, 0, files, n, g[1..n])
    BY <1>7, IterSteps
  <1> QED
    BY <1>1, <1>2, <1>5, <1>8 DEF n

IterReplace(g, files) ==
    g = [S \in SUBSET (DOMAIN files) |->
            IF S = {} THEN Files!NoSummary
            ELSE Files!ReplaceIn(g[S \ {Max(S)}], files[Max(S)])]

\* ast_replace goes through the files.
LEMMA ReplaceWalks ==
    ASSUME NEW A, NEW arg, NEW files \in Seq(A)
    PROVE  Walks("replace", arg, Files!NoSummary, files, Len(files), Files!AstReplace(files))
  <1>1. DOMAIN files = 1..Len(files) /\ Len(files) \in Nat
    OBVIOUS
  <1>2. Files!AstReplace(files) = (CHOOSE g : IterReplace(g, files))[DOMAIN files]
    BY DEF Files!AstReplace, Files!FoldLeft, Files!MapThenFoldSet, Files!Max, Max, IterReplace
  <1>3. \A g : IterReplace(g, files) <=> Iter("replace", arg, g, Files!NoSummary, files, 1..Len(files))
    BY <1>1 DEF IterReplace, Iter, Op
  <1>4. \E g : Iter("replace", arg, g, Files!NoSummary, files, 1..Len(files))
    BY <1>1, IterExists
  <1>5. PICK g : g = CHOOSE h : IterReplace(h, files)
    OBVIOUS
  <1>6. Iter("replace", arg, g, Files!NoSummary, files, 1..Len(files))
    BY <1>3, <1>4, <1>5
  <1> DEFINE n == Len(files)
  <1>7. n \in Nat /\ Iter("replace", arg, g, Files!NoSummary, files, 1..n)
    BY <1>1, <1>6
  <1> HIDE DEF n
  <1>8. Walks("replace", arg, Files!NoSummary, files, n, g[1..n])
    BY <1>7, IterSteps
  <1> QED
    BY <1>1, <1>2, <1>5, <1>8 DEF n

IterApplied(g, files, names) ==
    g = [S \in SUBSET (DOMAIN files) |->
            IF S = {} THEN 0
            ELSE IF files[Max(S)].name \in names THEN g[S \ {Max(S)}] + files[Max(S)].matches ELSE g[S \ {Max(S)}]]

\* So does the count of the matches in some of them.
LEMMA AppliedWalks ==
    ASSUME NEW A, NEW files \in Seq(A), NEW names
    PROVE  Walks("applied", names, 0, files, Len(files), Files!MatchesIn(files, names))
  <1>1. DOMAIN files = 1..Len(files) /\ Len(files) \in Nat
    OBVIOUS
  <1>2. Files!MatchesIn(files, names) = (CHOOSE g : IterApplied(g, files, names))[DOMAIN files]
    BY DEF Files!MatchesIn, Files!FoldLeft, Files!MapThenFoldSet, Files!Max, Max, IterApplied
  <1>3. \A g : IterApplied(g, files, names) <=> Iter("applied", names, g, 0, files, 1..Len(files))
    BY <1>1 DEF IterApplied, Iter, Op
  <1>4. \E g : Iter("applied", names, g, 0, files, 1..Len(files))
    BY <1>1, IterExists
  <1>5. PICK g : g = CHOOSE h : IterApplied(h, files, names)
    OBVIOUS
  <1>6. Iter("applied", names, g, 0, files, 1..Len(files))
    BY <1>3, <1>4, <1>5
  <1> DEFINE n == Len(files)
  <1>7. n \in Nat /\ Iter("applied", names, g, 0, files, 1..n)
    BY <1>1, <1>6
  <1> HIDE DEF n
  <1>8. Walks("applied", names, 0, files, n, g[1..n])
    BY <1>7, IterSteps
  <1> QED
    BY <1>1, <1>2, <1>5, <1>8 DEF n

IterUrls(g, hits, titled) ==
    g = [S \in SUBSET (DOMAIN hits) |->
            IF S = {} THEN <<>>
            ELSE IF hits[Max(S)].url # "" /\ (titled => hits[Max(S)].title) THEN Append(g[S \ {Max(S)}], hits[Max(S)].url) ELSE g[S \ {Max(S)}]]

\* The hits are read one by one.
LEMMA UrlsWalks ==
    ASSUME NEW A, NEW hits \in Seq(A), NEW titled
    PROVE  Walks("urls", titled, <<>>, hits, Len(hits), Web!Urls(hits, titled))
  <1>1. DOMAIN hits = 1..Len(hits) /\ Len(hits) \in Nat
    OBVIOUS
  <1>2. Web!Urls(hits, titled) = (CHOOSE g : IterUrls(g, hits, titled))[DOMAIN hits]
    BY DEF Web!Urls, Web!FoldLeft, Web!MapThenFoldSet, Web!Max, Max, IterUrls
  <1>3. \A g : IterUrls(g, hits, titled) <=> Iter("urls", titled, g, <<>>, hits, 1..Len(hits))
    BY <1>1 DEF IterUrls, Iter, Op
  <1>4. \E g : Iter("urls", titled, g, <<>>, hits, 1..Len(hits))
    BY <1>1, IterExists
  <1>5. PICK g : g = CHOOSE h : IterUrls(h, hits, titled)
    OBVIOUS
  <1>6. Iter("urls", titled, g, <<>>, hits, 1..Len(hits))
    BY <1>3, <1>4, <1>5
  <1> DEFINE n == Len(hits)
  <1>7. n \in Nat /\ Iter("urls", titled, g, <<>>, hits, 1..n)
    BY <1>1, <1>6
  <1> HIDE DEF n
  <1>8. Walks("urls", titled, <<>>, hits, n, g[1..n])
    BY <1>7, IterSteps
  <1> QED
    BY <1>1, <1>2, <1>5, <1>8 DEF n

-----------------------------------------------------------------------------
(* Answers that are computed without a loop                                *)

\* A page of read_file has the lines that were asked for and exist.
LEMMA PagesExact ==
    ASSUME NEW total \in Nat, NEW first \in Nat, NEW last \in Nat
    PROVE  Files!LinesExact(total, first, last, Files!ReadFile("text", total, first, last))
  BY DEF Files!LinesExact, Files!ReadFile, Files!ReadLines, Files!Least, Files!Page, Files!NoLine

\* What git found is shown or counted, and a walk that keeps its limit shows no more.
LEMMA CountsDoAdd ==
    ASSUME NEW inRepo \in BOOLEAN, NEW exitCode \in Nat, NEW lines \in Nat, NEW limit \in Nat,
           NEW files, Len(Files!FallbackSearch(files, limit)) \in 0..limit
    PROVE  Files!CountsAdd(inRepo, [exitCode |-> exitCode, lines |-> lines], limit, 
              Files!SearchCode(inRepo, [exitCode |-> exitCode, lines |-> lines], files, limit))
  BY DEF Files!CountsAdd, Files!SearchCode, Files!GitGrep, Files!Least

\* What fetch_docs answers is what was fetched, or why it was not.
LEMMA DocsAreShown ==
    ASSUME NEW url, NEW reply PROVE Web!DocsShown(url, reply, Web!FetchDocs(url, reply))
  BY DEF Web!DocsShown, Web!FetchDocs, Web!Classify

\* The ledger shows as an error what was not carried out.
LEMMA ErrorsAreShown ==
    ASSUME NEW name, NEW args, NEW works \in BOOLEAN, NEW env, env.content \in {"text", "page"}
    PROVE  Dispatch!ErrorsShown(name, args, works, env, Dispatch!Execute(name, args, works, env))
  <1>1. PICK up : up = Dispatch!Bridge(env)
    OBVIOUS
  <1>2. PICK own : own = {e \o "_tool" : e \in up}
    OBVIOUS
  <1>3. Dispatch!ToolSchemas(env) = Dispatch!BuiltIn \cup own /\ (up = {} => own = {})
    BY <1>1, <1>2 DEF Dispatch!ToolSchemas
  <1> QED
    BY <1>1, <1>3 DEF Dispatch!ErrorsShown, Dispatch!Execute, Dispatch!IsError, Dispatch!Outcome,
       Dispatch!Err, Dispatch!BuiltIn, Dispatch!FileTool, Dispatch!OtherTool

\* A translated path is translated to itself.
LEMMA HostPathIsStable ==
    ASSUME NEW p \in [drive : BOOLEAN, root : STRING, comps : Seq(STRING), lead : Seq({"sep"})]
    PROVE  Dispatch!HostPathStable(p)
  BY DEF Dispatch!HostPathStable, Dispatch!ToHostPath

-----------------------------------------------------------------------------
(* FlattenSeq                                                              *)

IsFlatten(f, s) ==
    f = [i \in 1..Len(s) |-> IF i = 1 THEN s[i] ELSE f[i - 1] \o s[i]]

\* The equation of FlattenSeq has a solution, and a solution goes through the sequences.
LEMMA FlattenSteps ==
    ASSUME NEW A, NEW s \in Seq(Seq(A)), Len(s) # 0,
           NEW f, f = CHOOSE h : IsFlatten(h, s)
    PROVE  Walks("flatten", 0, <<>>, s, Len(s), f[Len(s)])
  <1>0. PICK n \in Nat : n = Len(s) /\ n # 0
    OBVIOUS
  <1>s. \A i \in 1..n : s[i] \in Seq(A)
    BY <1>0
  <1>1. PICK g : Iter("flatten", 0, g, <<>>, s, 1..n)
    BY IterExists
  <1>2. Walks("flatten", 0, <<>>, s, n, g[1..n])
    BY <1>1, IterSteps
  <1>3. PICK r : r[0] = <<>> /\ \A i \in 1..n : r[i] = Op("flatten", 0, s, i, r[i - 1])
    BY <1>2 DEF Walks
  <1>4. \A i \in 1..n : r[i] = r[i - 1] \o s[i]
    BY <1>3, Zenon DEF Op
  <1> DEFINE h == [i \in 1..n |-> r[i]]
  <1>5. ASSUME NEW i \in 1..n PROVE r[i] = IF i = 1 THEN s[i] ELSE h[i - 1] \o s[i]
    <2>1. CASE i = 1
      <3>1. i - 1 = 0 /\ s[i] \in Seq(A)
        BY <1>s, <2>1
      <3>2. r[i] = <<>> \o s[i]
        BY <1>3, <1>4, <3>1, Zenon
      <3>3. <<>> \o s[i] = s[i]
        BY <3>1
      <3> QED
        BY <2>1, <3>2, <3>3, Zenon
    <2>2. CASE i # 1
      <3>1. i - 1 \in 1..n
        BY <2>2
      <3> QED
        BY <1>4, <2>2, <3>1
    <2> QED
      BY <2>1, <2>2
  <1>6. IsFlatten(h, s)
    BY <1>0, <1>5, Zenon DEF IsFlatten
  <1> HIDE DEF h
  <1>7. IsFlatten(f, s)
    BY <1>6, Zenon
  <1>8. f = [i \in 1..n |-> IF i = 1 THEN s[i] ELSE f[i - 1] \o s[i]]
    BY <1>0, <1>7, Zenon DEF IsFlatten
  <1> DEFINE q == [i \in 0..n |-> IF i = 0 THEN <<>> ELSE f[i]]
  <1>9. q[0] = <<>> /\ q[n] = f[n]
    BY <1>0
  <1>10. ASSUME NEW i \in 1..n PROVE q[i] = Op("flatten", 0, s, i, q[i - 1])
    <2>0. Op("flatten", 0, s, i, q[i - 1]) = q[i - 1] \o s[i]
      BY Zenon DEF Op
    <2>1. f[i] = IF i = 1 THEN s[i] ELSE f[i - 1] \o s[i]
      BY <1>8, Zenon
    <2>2. q[i] = f[i]
      OBVIOUS
    <2>3. CASE i = 1
      <3>1. q[0] = <<>> /\ i - 1 = 0 /\ s[1] \in Seq(A)
        BY <1>s, <2>3
      <3>2. <<>> \o s[1] = s[1]
        BY <3>1
      <3> HIDE DEF q
      <3> QED
        BY <2>0, <2>1, <2>2, <2>3, <3>1, <3>2, Zenon
    <2>4. CASE i # 1
      <3>1. q[i - 1] = f[i - 1]
        BY <2>4
      <3> HIDE DEF q
      <3> QED
        BY <2>0, <2>1, <2>2, <2>4, <3>1, Zenon
    <2> QED
      BY <2>3, <2>4
  <1> HIDE DEF q
  <1> QED
    BY <1>0, <1>9, <1>10, Zenon DEF Walks

\* FlattenSeq goes through the sequences.
LEMMA FlattenWalks ==
    ASSUME NEW A, NEW s \in Seq(Seq(A))
    PROVE  /\ Walks("flatten", 0, <<>>, s, Len(s), Files!FlattenSeq(s))
           /\ Walks("flatten", 0, <<>>, s, Len(s), Config!FlattenSeq(s))
  <1>1. CASE Len(s) = 0
    <2>1. s = <<>>
      BY <1>1
    <2>2. Files!FlattenSeq(s) = <<>> /\ Config!FlattenSeq(s) = <<>>
      BY <1>1, <2>1 DEF Files!FlattenSeq, Config!FlattenSeq
    <2> DEFINE r == [i \in 0..0 |-> <<>>]
    <2>3. r[0] = <<>> /\ 1..0 = {}
      OBVIOUS
    <2> HIDE DEF r
    <2> QED
      BY <1>1, <2>2, <2>3 DEF Walks
  <1>2. CASE Len(s) # 0
    <2>1. PICK f : f = CHOOSE h : IsFlatten(h, s)
      OBVIOUS
    <2>2. Files!FlattenSeq(s) = f[Len(s)] /\ Config!FlattenSeq(s) = f[Len(s)]
      BY <1>2, <2>1, Zenon DEF Files!FlattenSeq, Config!FlattenSeq, IsFlatten
    <2>3. Walks("flatten", 0, <<>>, s, Len(s), f[Len(s)])
      BY <1>2, <2>1, FlattenSteps
    <2> QED
      BY <2>2, <2>3
  <1> QED
    BY <1>1, <1>2

-----------------------------------------------------------------------------
(* search_code                                                             *)

First(s, k) == SubSeq(s, 1, Files!Least(k, Len(s)))

\* The first elements of a sequence, and of a longer one.
LEMMA FirstOf ==
    ASSUME NEW A, NEW s \in Seq(A), NEW k \in Nat
    PROVE  /\ First(s, k) \in Seq(A)
           /\ Len(First(s, k)) = Files!Least(k, Len(s))
           /\ Len(s) <= k => First(s, k) = s
  <1>1. PICK n \in Nat : n = Files!Least(k, Len(s)) /\ n <= Len(s) /\ (Len(s) <= k => n = Len(s))
    BY DEF Files!Least
  <1>2. First(s, k) = SubSeq(s, 1, n)
    BY <1>1 DEF First
  <1>3. \A i \in 1..n : s[i] \in A
    BY <1>1
  <1>4. SubSeq(s, 1, n) \in Seq(A)
    BY <1>1, <1>3, SubSeqProperties
  <1>5. Len(SubSeq(s, 1, n)) = n
    BY <1>1
  <1>6. SubSeq(s, 1, Len(s)) = s
    OBVIOUS
  <1> QED
    BY <1>1, <1>2, <1>4, <1>5, <1>6

\* A sequence that is no longer than that is all there.
LEMMA FirstIsAll ==
    ASSUME NEW A, NEW s \in Seq(A), NEW k \in Nat, Len(s) <= k
    PROVE  First(s, k) = s
  BY FirstOf

\* There is nothing in an empty sequence.
LEMMA FirstOfNone ==
    ASSUME NEW k \in Nat
    PROVE  First(<<>>, k) = <<>>
  <1>1. <<>> \in Seq({}) /\ Len(<<>>) = 0
    OBVIOUS
  <1>2. Len(<<>>) <= k
    BY <1>1
  <1> QED
    BY <1>1, <1>2, FirstIsAll, Zenon

\* The length of the first elements.
LEMMA FirstLength ==
    ASSUME NEW A, NEW s \in Seq(A), NEW k \in Nat
    PROVE  First(s, k) \in Seq(A) /\ Len(First(s, k)) = Files!Least(k, Len(s)) /\ Len(First(s, k)) \in Nat
  <1>1. First(s, k) \in Seq(A)
    BY FirstOf
  <1>2. Len(First(s, k)) = Files!Least(k, Len(s))
    BY FirstOf
  <1>3. Len(s) \in Nat
    OBVIOUS
  <1> QED
    BY <1>1, <1>2, <1>3 DEF Files!Least

\* One element more.
LEMMA FirstAppended ==
    ASSUME NEW A, NEW s \in Seq(A), NEW k \in Nat, NEW x \in A
    PROVE  First(Append(s, x), k) = IF Len(First(s, k)) < k THEN Append(First(s, k), x) ELSE First(s, k)
  <1>0. Append(s, x) \in Seq(A) /\ Len(Append(s, x)) = Len(s) + 1
    OBVIOUS
  <1>a. \A i \in 1..Len(s) : Append(s, x)[i] = s[i]
    OBVIOUS
  <1>1. PICK t \in Seq(A) : t = Append(s, x) /\ Len(t) = Len(s) + 1 /\ \A i \in 1..Len(s) : t[i] = s[i]
    BY <1>0, <1>a, Zenon
  <1>2. CASE Len(s) < k
    <2>1. Len(s) <= k /\ Len(t) <= k
      BY <1>1, <1>2
    <2>2. First(s, k) = s /\ First(t, k) = t
      BY <2>1, FirstIsAll
    <2> QED
      BY <1>1, <1>2, <2>2, Zenon
  <1>3. CASE Len(s) >= k
    <2>1. Files!Least(k, Len(t)) = k /\ Files!Least(k, Len(s)) = k
      BY <1>1, <1>3 DEF Files!Least
    <2>2. SubSeq(t, 1, k) = SubSeq(s, 1, k)
      BY <1>1, <1>3
    <2>3. Len(First(s, k)) = k
      BY <2>1, FirstOf
    <2>4. First(t, k) = First(s, k)
      BY <2>1, <2>2, Zenon DEF First
    <2>5. ~(Len(First(s, k)) < k)
      BY <2>3
    <2> QED
      BY <1>1, <2>4, <2>5, Zenon
  <1>4. Len(s) \in Nat
    OBVIOUS
  <1> QED
    BY <1>2, <1>3, <1>4

\* A sequence more.
LEMMA FirstJoined ==
    ASSUME NEW A, NEW s \in Seq(A), NEW t \in Seq(A), NEW k \in Nat
    PROVE  First(s \o t, k) = IF Len(First(s, k)) >= k THEN First(s, k)
                              ELSE First(s, k) \o First(t, k - Len(First(s, k)))
  <1>0. PICK n \in Nat, m \in Nat : n = Len(s) /\ m = Len(t)
    OBVIOUS
  <1>1. PICK u \in Seq(A) : /\ u = s \o t /\ Len(u) = n + m
                            /\ \A i \in 1..n : u[i] = s[i]
                            /\ \A i \in 1..m : u[n + i] = t[i]
    <2>1. s \o t \in Seq(A) /\ Len(s \o t) = n + m
      BY <1>0
    <2>2. \A i \in 1..n : (s \o t)[i] = s[i]
      BY <1>0
    <2>3. \A i \in 1..m : (s \o t)[n + i] = t[i]
      BY <1>0
    <2> QED
      BY <2>1, <2>2, <2>3, Zenon
  <1>2. CASE n >= k
    <2>1. Files!Least(k, n + m) = k /\ Files!Least(k, n) = k
      BY <1>2 DEF Files!Least
    <2>2. SubSeq(u, 1, k) = SubSeq(s, 1, k)
      BY <1>0, <1>1, <1>2
    <2>3. Len(First(s, k)) = k
      BY <1>0, <2>1, FirstOf
    <2>4. First(u, k) = First(s, k)
      BY <1>0, <1>1, <2>1, <2>2, Zenon DEF First
    <2>5. Len(First(s, k)) >= k
      BY <2>3
    <2> QED
      BY <1>1, <2>4, <2>5, Zenon
  <1>3. CASE n < k
    <2>1. First(s, k) = s
      BY <1>0, <1>3, FirstOf
    <2>2. k - n \in Nat /\ k - n > 0
      BY <1>3
    <2>3. PICK j \in Nat : j = Files!Least(k - n, m) /\ j <= m /\ n + j = Files!Least(k, n + m)
      BY <2>2 DEF Files!Least
    <2>4. First(t, k - n) = SubSeq(t, 1, j) /\ First(u, k) = SubSeq(u, 1, n + j)
      BY <1>0, <1>1, <2>3 DEF First
    <2>5. PICK v : v = SubSeq(t, 1, j)
      OBVIOUS
    <2>6. v \in Seq(A) /\ Len(v) = j /\ \A i \in 1..j : v[i] = t[i]
      <3>1. v \in Seq(A)
        <4>1. First(t, k - n) \in Seq(A)
          BY <2>2, FirstOf
        <4> QED
          BY <2>4, <2>5, <4>1, Zenon
      <3>2. Len(v) = j /\ \A i \in 1..j : v[i] = t[i]
        BY <1>0, <2>3, <2>5
      <3> QED
        BY <3>1, <3>2
    <2>7. PICK w : w = SubSeq(u, 1, n + j)
      OBVIOUS
    <2>8. w \in Seq(A) /\ Len(w) = n + j /\ \A i \in 1..n + j : w[i] = u[i]
      <3>1. w \in Seq(A)
        BY <2>4, <2>7, FirstOf
      <3>2. Len(w) = n + j /\ \A i \in 1..n + j : w[i] = u[i]
        BY <1>1, <2>3, <2>7
      <3> QED
        BY <3>1, <3>2
    <2>9. ASSUME NEW i \in 1..n + j PROVE w[i] = (s \o v)[i]
      <3>1. CASE i \in 1..n
        BY <1>0, <1>1, <2>6, <2>8, <3>1
      <3>2. CASE i \notin 1..n
        <4>1. PICK l \in 1..j : i = n + l
          <5>1. i - n \in 1..j /\ i = n + (i - n)
            BY <3>2
          <5> QED
            BY <5>1
        <4>2. l \in 1..m
          BY <2>3
        <4>3. w[i] = t[l]
          BY <1>1, <2>8, <4>1, <4>2
        <4>4. (s \o v)[i] = v[l]
          BY <1>0, <2>6, <4>1
        <4> QED
          BY <2>6, <4>3, <4>4
      <3> QED
        BY <3>1, <3>2
    <2>10. s \o v \in Seq(A) /\ Len(s \o v) = n + j
      <3>1. s \o v \in Seq(A) /\ Len(s \o v) = Len(s) + Len(v)
        BY <2>6, ConcatProperties
      <3> QED
        BY <1>0, <2>6, <3>1
    <2>11. w = s \o v
      BY <2>8, <2>9, <2>10, SeqEqual
    <2>12. First(u, k) = s \o First(t, k - n)
      BY <2>4, <2>5, <2>7, <2>11, Zenon
    <2>13. ~(n >= k)
      BY <1>3
    <2> QED
      BY <1>0, <1>1, <2>1, <2>12, <2>13, Zenon
  <1> QED
    BY <1>2, <1>3

Hits == Seq(STRING) \X Nat

\* The matches of a file, up to a limit, are the first of all of them.
LEMMA MatchesFirst ==
    ASSUME NEW path \in Seq(STRING), NEW lines \in Seq(BOOLEAN),
           NEW file, file.path = path, file.lines = lines, NEW room \in Nat
    PROVE  /\ Files!FileMatches(file, Len(lines)) \in Seq(Hits)
           /\ Files!FileMatches(file, room) = First(Files!FileMatches(file, Len(lines)), room)
  <1>0. PICK n \in Nat : n = Len(lines)
    OBVIOUS
  <1>1. \A i \in 1..n : lines[i] \in BOOLEAN
    BY <1>0
  <1>2. PICK q : /\ q[0] = <<>> /\ q[n] = Files!FileMatches(file, n)
                 /\ \A i \in 1..n : q[i] = Op("matches", <<path, n>>, lines, i, q[i - 1])
    <2>1. Walks("matches", <<path, n>>, <<>>, lines, n, Files!FileMatches(file, n))
      BY <1>0, MatchesWalks
    <2> QED
      BY <2>1 DEF Walks
  <1>3. PICK r : /\ r[0] = <<>> /\ r[n] = Files!FileMatches(file, room)
                 /\ \A i \in 1..n : r[i] = Op("matches", <<path, room>>, lines, i, r[i - 1])
    <2>1. Walks("matches", <<path, room>>, <<>>, lines, n, Files!FileMatches(file, room))
      BY <1>0, MatchesWalks
    <2> QED
      BY <2>1 DEF Walks
  <1> DEFINE P == {i \in 0..n : q[i] \in Seq(Hits) /\ Len(q[i]) <= i /\ r[i] = First(q[i], room)}
  <1>4. 0 \in P
    <2>1. <<>> \in Seq(Hits) /\ Len(<<>>) <= 0 /\ 0 \in 0..n
      OBVIOUS
    <2>2. First(<<>>, room) = <<>>
      BY FirstOfNone
    <2> QED
      BY <1>2, <1>3, <2>1, <2>2, Zenon
  <1>5. ASSUME NEW i \in 0..n, i < n, i \in P PROVE i + 1 \in P
    <2>1. i + 1 \in 1..n /\ (i + 1) - 1 = i /\ i + 1 \in 0..n
      BY <1>5
    <2>2. PICK s \in Seq(Hits) : s = q[i] /\ Len(s) <= i /\ r[i] = First(s, room)
      BY <1>5
    <2>3. PICK x \in Hits : x = <<path, i + 1>>
      <3>1. i + 1 \in Nat
        BY <2>1
      <3> QED
        BY <3>1, Zenon DEF Hits
    <2>4. q[i + 1] = IF lines[i + 1] THEN Append(s, x) ELSE s
      <3>1. q[i + 1] = Op("matches", <<path, n>>, lines, i + 1, s)
        BY <1>2, <2>1, <2>2, Zenon
      <3>2. Len(s) < n
        BY <1>5, <2>2
      <3> QED
        BY <2>3, <3>1, <3>2, Zenon DEF Op
    <2>5. r[i + 1] = IF lines[i + 1] /\ Len(First(s, room)) < room THEN Append(First(s, room), x)
                     ELSE First(s, room)
      <3>1. r[i + 1] = Op("matches", <<path, room>>, lines, i + 1, First(s, room))
        BY <1>3, <2>1, <2>2, Zenon
      <3> QED
        BY <2>3, <3>1, Zenon DEF Op
    <2>6. CASE lines[i + 1]
      <3>a. Append(s, x) \in Seq(Hits) /\ Len(Append(s, x)) = Len(s) + 1
        OBVIOUS
      <3>b. Len(s) + 1 <= i + 1
        BY <2>2
      <3>1. PICK t \in Seq(Hits) : t = Append(s, x) /\ Len(t) <= i + 1
        BY <3>a, <3>b
      <3>2. r[i + 1] = First(t, room)
        BY <2>5, <2>6, <3>1, FirstAppended
      <3> QED
        BY <2>1, <2>4, <2>6, <3>1, <3>2
    <2>7. CASE ~lines[i + 1]
      <3>1. Len(s) <= i + 1
        BY <2>2
      <3> QED
        BY <2>1, <2>2, <2>4, <2>5, <2>7, <3>1
    <2> QED
      BY <2>6, <2>7
  <1> HIDE DEF P
  <1>6. n \in P
    <2>1. n \in 0..n
      OBVIOUS
    <2> QED
      BY <1>4, <1>5, <2>1, Induction, Zenon
  <1> QED
    BY <1>0, <1>2, <1>3, <1>6 DEF P

\* search_code answers with the first matches of all files.
LEMMA SearchIsFirst ==
    ASSUME NEW files \in Seq(Files!TextFiles), NEW limit \in Nat
    PROVE  /\ Files!FallbackSearch(files, limit) = Files!FirstMatches(files, limit)
           /\ Len(Files!FallbackSearch(files, limit)) \in 0..limit
  <1>0. PICK n \in Nat : n = Len(files) /\ DOMAIN files = 1..n
    OBVIOUS
  <1>1. \A i \in 1..n : files[i] \in Files!TextFiles
    BY <1>0
  <1>2. PICK t : t = [i \in DOMAIN files |->
                        IF Files!Searched(files[i]) THEN Files!FileMatches(files[i], Len(files[i].lines))
                        ELSE <<>>]
    OBVIOUS
  <1>3. ASSUME NEW f \in Files!TextFiles, NEW room \in Nat
        PROVE  /\ Files!FileMatches(f, Len(f.lines)) \in Seq(Hits)
               /\ Files!FileMatches(f, room) = First(Files!FileMatches(f, Len(f.lines)), room)
    <2>1. PICK path \in Seq(STRING), lines \in Seq(BOOLEAN) : f.path = path /\ f.lines = lines
      BY DEF Files!TextFiles
    <2> QED
      BY <2>1, MatchesFirst
  <1>4. t \in Seq(Seq(Hits)) /\ Len(t) = n
    <2>1. \A i \in 1..n : t[i] \in Seq(Hits)
      <3>1. <<>> \in Seq(Hits)
        OBVIOUS
      <3> QED
        BY <1>0, <1>1, <1>2, <1>3, <3>1
    <2>2. t \in [1..n -> Seq(Hits)]
      <3>1. t = [i \in 1..n |-> t[i]]
        BY <1>0, <1>2
      <3> QED
        BY <2>1, <3>1
    <2> QED
      BY <2>2
  <1>5. PICK q : /\ q[0] = <<>> /\ q[n] = Files!FlattenSeq(t)
                 /\ \A i \in 1..n : q[i] = Op("flatten", 0, t, i, q[i - 1])
    <2>1. Walks("flatten", 0, <<>>, t, n, Files!FlattenSeq(t))
      BY <1>4, FlattenWalks
    <2> QED
      BY <2>1 DEF Walks
  <1>6. PICK r : /\ r[0] = <<>> /\ r[n] = Files!FallbackSearch(files, limit)
                 /\ \A i \in 1..n : r[i] = Op("search", limit, files, i, r[i - 1])
    <2>1. Walks("search", limit, <<>>, files, n, Files!FallbackSearch(files, limit))
      BY <1>0, SearchWalks
    <2> QED
      BY <2>1 DEF Walks
  <1> DEFINE P == {i \in 0..n : q[i] \in Seq(Hits) /\ r[i] = First(q[i], limit)}
  <1>7. 0 \in P
    <2>1. <<>> \in Seq(Hits) /\ 0 \in 0..n
      OBVIOUS
    <2>2. First(<<>>, limit) = <<>>
      BY FirstOfNone
    <2> QED
      BY <1>5, <1>6, <2>1, <2>2, Zenon
  <1>8. ASSUME NEW i \in 0..n, i < n, i \in P PROVE i + 1 \in P
    <2>1. i + 1 \in 1..n /\ (i + 1) - 1 = i /\ i + 1 \in 0..n
      BY <1>8
    <2>2. PICK s \in Seq(Hits) : s = q[i] /\ r[i] = First(s, limit)
      BY <1>8
    <2>3. PICK a \in Seq(Hits) : a = First(s, limit) /\ Len(a) \in Nat
      BY FirstLength, Zenon
    <2>4. PICK f \in Files!TextFiles : f = files[i + 1]
      BY <1>1, <2>1
    <2>5. r[i + 1] = IF Len(a) >= limit \/ ~Files!Searched(f) THEN a
                     ELSE a \o Files!FileMatches(f, limit - Len(a))
      <3>1. r[i + 1] = Op("search", limit, files, i + 1, a)
        BY <1>6, <2>1, <2>2, <2>3, Zenon
      <3> QED
        BY <2>4, <3>1, Zenon DEF Op
    <2>6. PICK u : u = t[i + 1]
      OBVIOUS
    <2>7. u = IF Files!Searched(f) THEN Files!FileMatches(f, Len(f.lines)) ELSE <<>>
      BY <1>0, <1>2, <2>1, <2>4, <2>6, Zenon
    <2>8. q[i + 1] = s \o u
      <3>1. q[i + 1] = Op("flatten", 0, t, i + 1, s)
        BY <1>5, <2>1, <2>2, Zenon
      <3> QED
        BY <2>6, <3>1, Zenon DEF Op
    <2>9. CASE Files!Searched(f)
      <3>1. u = Files!FileMatches(f, Len(f.lines)) /\ u \in Seq(Hits)
        BY <1>3, <2>4, <2>7, <2>9
      <3>2. s \o u \in Seq(Hits)
        BY <3>1
      <3>3. First(s \o u, limit) = IF Len(a) >= limit THEN a ELSE a \o First(u, limit - Len(a))
        BY <2>3, <3>1, FirstJoined
      <3>4. Len(a) < limit => /\ limit - Len(a) \in Nat
                              /\ Files!FileMatches(f, limit - Len(a)) = First(u, limit - Len(a))
        BY <1>3, <2>3, <2>4, <3>1
      <3>5. r[i + 1] = First(s \o u, limit)
        BY <2>3, <2>5, <2>9, <3>3, <3>4
      <3> QED
        BY <2>1, <2>8, <3>2, <3>5
    <2>10. CASE ~Files!Searched(f)
      <3>1. s \o <<>> = s
        OBVIOUS
      <3> QED
        BY <2>1, <2>2, <2>3, <2>5, <2>7, <2>8, <2>10, <3>1
    <2> QED
      BY <2>9, <2>10
  <1> HIDE DEF P
  <1>9. n \in P
    <2>1. n \in 0..n
      OBVIOUS
    <2> QED
      BY <1>7, <1>8, <2>1, Induction, Zenon
  <1>10. PICK z \in Seq(Hits) : z = Files!FlattenSeq(t) /\ r[n] = First(z, limit)
    BY <1>5, <1>9 DEF P
  <1>11. Files!FirstMatches(files, limit) = First(z, limit)
    BY <1>2, <1>10, Zenon DEF Files!FirstMatches, First
  <1>12. Len(First(z, limit)) \in 0..limit
    <2>1. PICK k \in Nat : k = Len(z)
      OBVIOUS
    <2>2. Len(First(z, limit)) = Files!Least(limit, k)
      BY <2>1, FirstOf
    <2> QED
      BY <2>2 DEF Files!Least
  <1> QED
    BY <1>6, <1>10, <1>11, <1>12

-----------------------------------------------------------------------------
(* ast_search and ast_replace                                              *)

BatchFiles ==
    [name : Nat, lang : BOOLEAN, readable : BOOLEAN, matches : Nat,
     rewrite : {"same", "invalid", "writeFails", "written"}]

\* The files of a batch.
LEMMA BatchTyped ==
    ASSUME NEW files, Files!IsBatch(files)
    PROVE  /\ files \in Seq(BatchFiles)
           /\ Len(files) \in Nat /\ DOMAIN files = 1..Len(files)
           /\ \A i \in 1..Len(files) : files[i].matches \in Nat /\ files[i].name \in Nat
           /\ \A i, j \in 1..Len(files) : files[i].name = files[j].name => i = j
  <1>1. files \in Seq(BatchFiles)
    BY DEF Files!IsBatch, BatchFiles
  <1>2. Len(files) \in Nat /\ DOMAIN files = 1..Len(files) /\ \A i \in 1..Len(files) : files[i] \in BatchFiles
    BY <1>1
  <1>3. \A f \in BatchFiles : f.matches \in Nat /\ f.name \in Nat
    BY DEF BatchFiles
  <1>4. \A i, j \in DOMAIN files : files[i].name = files[j].name => i = j
    BY Zenon DEF Files!IsBatch
  <1> QED
    BY <1>1, <1>2, <1>3, <1>4, Zenon

\* ast_search stops at the limit, or counts all matches.
LEMMA AstIsLeast ==
    ASSUME NEW files, Files!IsBatch(files), NEW limit \in Nat
    PROVE  Files!AstSearch(files, limit) = Files!Least(limit, Files!AllMatches(files))
  <1>0. files \in Seq(BatchFiles)
    BY BatchTyped
  <1>1. PICK n \in Nat : n = Len(files) /\ \A i \in 1..n : files[i].matches \in Nat
    BY BatchTyped, Zenon
  <1>2. PICK r : /\ r[0] = 0 /\ r[n] = Files!AstSearch(files, limit)
                 /\ \A i \in 1..n : r[i] = Op("ast", limit, files, i, r[i - 1])
    <2>1. Walks("ast", limit, 0, files, n, Files!AstSearch(files, limit))
      BY <1>0, <1>1, AstWalks
    <2> QED
      BY <2>1 DEF Walks
  <1>3. PICK q : /\ q[0] = 0 /\ q[n] = Files!AllMatches(files)
                 /\ \A i \in 1..n : q[i] = Op("all", 0, files, i, q[i - 1])
    <2>1. Walks("all", 0, 0, files, n, Files!AllMatches(files))
      BY <1>0, <1>1, AllWalks
    <2> QED
      BY <2>1 DEF Walks
  <1> DEFINE P == {i \in 0..n : q[i] \in Nat /\ r[i] = Files!Least(limit, q[i])}
  <1>4. 0 \in P
    BY <1>2, <1>3 DEF Files!Least
  <1>5. ASSUME NEW i \in 0..n, i < n, i \in P PROVE i + 1 \in P
    <2>1. i + 1 \in 1..n /\ (i + 1) - 1 = i /\ i + 1 \in 0..n
      BY <1>5
    <2>2. PICK a \in Nat : a = q[i] /\ r[i] = Files!Least(limit, a)
      BY <1>5
    <2>3. PICK m \in Nat : m = files[i + 1].matches
      BY <1>1, <2>1
    <2>4. q[i + 1] = IF Files!Candidate(files[i + 1]) THEN a + m ELSE a
      <3>1. q[i + 1] = Op("all", 0, files, i + 1, a)
        BY <1>3, <2>1, <2>2, Zenon
      <3> QED
        BY <2>3, <3>1, Zenon DEF Op
    <2>5. r[i + 1] = IF Files!Least(limit, a) >= limit \/ ~Files!Candidate(files[i + 1])
                     THEN Files!Least(limit, a)
                     ELSE Files!Least(limit, Files!Least(limit, a) + m)
      <3>1. r[i + 1] = Op("ast", limit, files, i + 1, Files!Least(limit, a))
        BY <1>2, <2>1, <2>2, Zenon
      <3> QED
        BY <2>3, <3>1, Zenon DEF Op
    <2>6. q[i + 1] \in Nat /\ r[i + 1] = Files!Least(limit, q[i + 1])
      BY <2>4, <2>5 DEF Files!Least
    <2> QED
      BY <2>1, <2>6
  <1> HIDE DEF P
  <1>6. n \in P
    <2>1. n \in 0..n
      OBVIOUS
    <2> QED
      BY <1>4, <1>5, <2>1, Induction, Zenon
  <1> QED
    BY <1>2, <1>3, <1>6 DEF P

\* What becomes of a file of a batch.
IsWritten(f) == Files!Candidate(f) /\ f.rewrite \notin {"same", "invalid", "writeFails"}
IsRolledBack(f) == Files!Candidate(f) /\ f.rewrite \in {"invalid", "writeFails"}

Summaries == [applied : SUBSET Nat, rolledBack : SUBSET Nat, replacements : Nat]

\* One file of a batch in its summary.
LEMMA OneFile ==
    ASSUME NEW s \in Summaries, NEW f, f.name \in Nat, f.matches \in Nat,
           NEW t, t = Files!ReplaceIn(s, f)
    PROVE  /\ t \in Summaries
           /\ t.applied = IF IsWritten(f) THEN s.applied \cup {f.name} ELSE s.applied
           /\ t.rolledBack = IF IsRolledBack(f) THEN s.rolledBack \cup {f.name} ELSE s.rolledBack
           /\ t.replacements = IF IsWritten(f) THEN s.replacements + f.matches ELSE s.replacements
  <1>0. PICK name \in Nat, matches \in Nat : name = f.name /\ matches = f.matches
    OBVIOUS
  <1>1. CASE IsWritten(f)
    <2>1. t = [s EXCEPT !.applied = @ \cup {name}, !.replacements = @ + matches] /\ ~IsRolledBack(f)
      BY <1>0, <1>1, Zenon DEF Files!ReplaceIn, IsWritten, IsRolledBack
    <2> QED
      <3>1. /\ t.applied = s.applied \cup {name} /\ t.rolledBack = s.rolledBack
            /\ t.replacements = s.replacements + matches
            /\ t = [applied |-> t.applied, rolledBack |-> t.rolledBack, replacements |-> t.replacements]
        BY <2>1 DEF Summaries
      <3>2. s.applied \in SUBSET Nat /\ s.rolledBack \in SUBSET Nat /\ s.replacements \in Nat
        BY DEF Summaries
      <3>3. t \in Summaries
        BY <3>1, <3>2 DEF Summaries
      <3> QED
        BY <1>0, <1>1, <2>1, <3>1, <3>3
  <1>2. CASE IsRolledBack(f)
    <2>1. t = [s EXCEPT !.rolledBack = @ \cup {name}] /\ ~IsWritten(f)
      BY <1>0, <1>2 DEF Files!ReplaceIn, IsWritten, IsRolledBack
    <2> QED
      BY <1>0, <1>2, <2>1 DEF Summaries
  <1>3. CASE ~IsWritten(f) /\ ~IsRolledBack(f)
    <2>1. t = s
      BY <1>3 DEF Files!ReplaceIn, IsWritten, IsRolledBack
    <2> QED
      BY <1>3, <2>1
  <1> QED
    BY <1>1, <1>2, <1>3

\* The summary counts what was written.
LEMMA SummaryIsExact ==
    ASSUME NEW files, Files!IsBatch(files)
    PROVE  Files!SummaryExact(files, Files!AstReplace(files))
  <1>0. files \in Seq(BatchFiles)
    BY BatchTyped
  <1>1. PICK n \in Nat : n = Len(files) /\ \A i \in 1..n : files[i].matches \in Nat /\ files[i].name \in Nat
    BY BatchTyped, Zenon
  <1>2. \A i, j \in 1..n : files[i].name = files[j].name => i = j
    BY <1>1, BatchTyped, Zenon
  <1>3. PICK r : /\ r[0] = Files!NoSummary /\ r[n] = Files!AstReplace(files)
                 /\ \A i \in 1..n : r[i] = Op("replace", 0, files, i, r[i - 1])
    <2>1. Walks("replace", 0, Files!NoSummary, files, n, Files!AstReplace(files))
      BY <1>0, <1>1, ReplaceWalks
    <2> QED
      BY <2>1 DEF Walks
  <1> DEFINE Written(i) == {files[k].name : k \in {l \in 1..i : IsWritten(files[l])}}
             Back(i) == {files[k].name : k \in {l \in 1..i : IsRolledBack(files[l])}}
             P == {i \in 0..n : r[i] \in Summaries /\ r[i].applied = Written(i) /\ r[i].rolledBack = Back(i)}
  <1>4. ASSUME NEW i \in 0..n, i < n, r[i] \in Summaries
        PROVE  /\ r[i + 1] \in Summaries
               /\ r[i + 1].applied = IF IsWritten(files[i + 1]) THEN r[i].applied \cup {files[i + 1].name} ELSE r[i].applied
               /\ r[i + 1].rolledBack = IF IsRolledBack(files[i + 1]) THEN r[i].rolledBack \cup {files[i + 1].name} ELSE r[i].rolledBack
               /\ r[i + 1].replacements = IF IsWritten(files[i + 1]) THEN r[i].replacements + files[i + 1].matches ELSE r[i].replacements
    <2>1. i + 1 \in 1..n /\ (i + 1) - 1 = i
      BY <1>4
    <2>2. r[i + 1] = Files!ReplaceIn(r[i], files[i + 1])
      <3>1. r[i + 1] = Op("replace", 0, files, i + 1, r[i])
        BY <1>3, <2>1, Zenon
      <3> QED
        BY <3>1, Zenon DEF Op
    <2>3. files[i + 1].name \in Nat /\ files[i + 1].matches \in Nat
      BY <1>1, <2>1
    <2>4. PICK f : f = files[i + 1]
      OBVIOUS
    <2>5. PICK s \in Summaries : s = r[i]
      BY <1>4
    <2>6. PICK t : t = r[i + 1]
      OBVIOUS
    <2>7. t = Files!ReplaceIn(s, f) /\ f.name \in Nat /\ f.matches \in Nat
      BY <2>2, <2>3, <2>4, <2>5, <2>6, Zenon
    <2>8. /\ t \in Summaries
          /\ t.applied = IF IsWritten(f) THEN s.applied \cup {f.name} ELSE s.applied
          /\ t.rolledBack = IF IsRolledBack(f) THEN s.rolledBack \cup {f.name} ELSE s.rolledBack
          /\ t.replacements = IF IsWritten(f) THEN s.replacements + f.matches ELSE s.replacements
      BY <2>7, OneFile, Zenon
    <2> QED
      BY <2>4, <2>5, <2>6, <2>8, Zenon
  <1>5. 0 \in P
    <2>1. Written(0) = {} /\ Back(0) = {}
      OBVIOUS
    <2>2. r[0] \in Summaries /\ r[0].applied = {} /\ r[0].rolledBack = {}
      BY <1>3 DEF Files!NoSummary, Summaries
    <2> QED
      BY <2>1, <2>2
  <1>6. ASSUME NEW i \in 0..n, i < n, i \in P PROVE i + 1 \in P
    <2>1. i + 1 \in 1..n /\ i + 1 \in 0..n /\ 1..i + 1 = (1..i) \cup {i + 1}
      BY <1>6
    <2>2. /\ Written(i + 1) = IF IsWritten(files[i + 1]) THEN Written(i) \cup {files[i + 1].name} ELSE Written(i)
          /\ Back(i + 1) = IF IsRolledBack(files[i + 1]) THEN Back(i) \cup {files[i + 1].name} ELSE Back(i)
      BY <2>1, Zenon
    <2>3. r[i] \in Summaries /\ r[i].applied = Written(i) /\ r[i].rolledBack = Back(i)
      BY <1>6
    <2> HIDE DEF Written, Back
    <2>4. r[i + 1] \in Summaries /\ r[i + 1].applied = Written(i + 1) /\ r[i + 1].rolledBack = Back(i + 1)
      BY <1>4, <1>6, <2>2, <2>3
    <2> QED
      BY <2>1, <2>4
  <1>7. \A i \in 0..n : i \in P
    <2> HIDE DEF P
    <2> QED
      BY <1>5, <1>6, Induction, Zenon
  <1>8. r[n].applied = Written(n) /\ r[n].rolledBack = Back(n)
    BY <1>7
  <1>9. r[n].applied \cap r[n].rolledBack = {}
    <2>1. \A k, l \in 1..n : IsWritten(files[k]) /\ IsRolledBack(files[l]) => files[k].name # files[l].name
      BY <1>2, Zenon DEF IsWritten, IsRolledBack
    <2> QED
      BY <1>8, <2>1
  <1>10. \A k \in 1..n : files[k].name \in r[n].applied <=> IsWritten(files[k])
    BY <1>2, <1>8
  <1>11. PICK names : names = r[n].applied
    OBVIOUS
  <1>12. PICK q : /\ q[0] = 0 /\ q[n] = Files!MatchesIn(files, names)
                  /\ \A i \in 1..n : q[i] = Op("applied", names, files, i, q[i - 1])
    <2>1. Walks("applied", names, 0, files, n, Files!MatchesIn(files, names))
      BY <1>0, <1>1, AppliedWalks
    <2> QED
      BY <2>1 DEF Walks
  <1> DEFINE Q == {i \in 0..n : q[i] = r[i].replacements}
  <1>13. 0 \in Q
    BY <1>3, <1>12 DEF Files!NoSummary
  <1>14. ASSUME NEW i \in 0..n, i < n, i \in Q PROVE i + 1 \in Q
    <2>1. i + 1 \in 1..n /\ i + 1 \in 0..n /\ (i + 1) - 1 = i
      BY <1>14
    <2>2. q[i + 1] = IF files[i + 1].name \in names THEN q[i] + files[i + 1].matches ELSE q[i]
      <3>1. q[i + 1] = Op("applied", names, files, i + 1, q[i])
        BY <1>12, <2>1, Zenon
      <3> QED
        BY <3>1, Zenon DEF Op
    <2>3. r[i] \in Summaries
      BY <1>7
    <2>4. r[i + 1].replacements = IF IsWritten(files[i + 1]) THEN r[i].replacements + files[i + 1].matches ELSE r[i].replacements
      BY <1>4, <1>14, <2>3
    <2>5. files[i + 1].name \in names <=> IsWritten(files[i + 1])
      BY <1>10, <1>11, <2>1
    <2>6. q[i + 1] = r[i + 1].replacements
      BY <1>14, <2>2, <2>4, <2>5
    <2> QED
      BY <2>1, <2>6
  <1> HIDE DEF Q
  <1>15. n \in Q
    <2>1. n \in 0..n
      OBVIOUS
    <2> QED
      BY <1>13, <1>14, <2>1, Induction, Zenon
  <1>16. q[n] = r[n].replacements
    BY <1>15 DEF Q
  <1> QED
    BY <1>3, <1>9, <1>11, <1>12, <1>16, Zenon DEF Files!SummaryExact

-----------------------------------------------------------------------------
(* web_search and fetch_docs                                               *)

\* The hits that are shown are those that have a URL.
LEMMA UrlsSound ==
    ASSUME NEW hits \in Seq([url : STRING, title : BOOLEAN]), NEW titled \in BOOLEAN
    PROVE  /\ Web!Range(Web!Urls(hits, titled)) \subseteq {h.url : h \in Web!Range(hits)} \ {""}
           /\ ~titled => Len(Web!Urls(hits, titled)) = Cardinality({i \in DOMAIN hits : hits[i].url # ""})
  <1>1. PICK n \in Nat : n = Len(hits) /\ DOMAIN hits = 1..n
    OBVIOUS
  <1>2. PICK r : /\ r[0] = <<>> /\ r[n] = Web!Urls(hits, titled)
                 /\ \A i \in 1..n : r[i] = Op("urls", titled, hits, i, r[i - 1])
    <2>1. Walks("urls", titled, <<>>, hits, n, Web!Urls(hits, titled))
      BY <1>1, UrlsWalks
    <2> QED
      BY <2>1 DEF Walks
  <1> DEFINE T == {h.url : h \in Web!Range(hits)} \ {""}
             Those(i) == {k \in 1..i : hits[k].url # ""}
             P == {i \in 0..n : /\ r[i] \in Seq(T)
                                /\ IsFiniteSet(Those(i))
                                /\ ~titled => Len(r[i]) = Cardinality(Those(i))}
  <1>3. 0 \in P
    <2>1. Those(0) = {} /\ <<>> \in Seq(T) /\ Len(<<>>) = 0 /\ 0 \in 0..n
      OBVIOUS
    <2>2. IsFiniteSet({}) /\ Cardinality({}) = 0
      BY FS_EmptySet
    <2> QED
      BY <1>2, <2>1, <2>2, Zenon
  <1>4. ASSUME NEW i \in 0..n, i < n, i \in P PROVE i + 1 \in P
    <2>1. i + 1 \in 1..n /\ i + 1 \in 0..n /\ (i + 1) - 1 = i /\ 1..i + 1 = (1..i) \cup {i + 1} /\ i + 1 \notin 1..i
      BY <1>4, NextIn, Zenon
    <2>2. r[i + 1] = IF hits[i + 1].url # "" /\ (titled => hits[i + 1].title) THEN Append(r[i], hits[i + 1].url)
                     ELSE r[i]
      <3>1. r[i + 1] = Op("urls", titled, hits, i + 1, r[i])
        BY <1>2, <2>1, Zenon
      <3> QED
        BY <3>1, Zenon DEF Op
    <2>3. PICK a : a = hits[i + 1].url
      OBVIOUS
    <2>4. a # "" => a \in T
      BY <1>1, <2>1, <2>3, Zenon DEF Web!Range
    <2>5. PICK s \in Seq(T) : s = r[i] /\ IsFiniteSet(Those(i)) /\ (~titled => Len(s) = Cardinality(Those(i)))
      BY <1>4, Zenon
    <2>6. Those(i + 1) = (IF a # "" THEN Those(i) \cup {i + 1} ELSE Those(i)) /\ i + 1 \notin Those(i)
      BY <2>1, <2>3, Zenon
    <2> HIDE DEF T, Those
    <2>7. IsFiniteSet(Those(i + 1)) /\ Cardinality(Those(i + 1)) = IF a # "" THEN Cardinality(Those(i)) + 1 ELSE Cardinality(Those(i))
      <3>0. PICK S : S = Those(i) /\ IsFiniteSet(S) /\ i + 1 \notin S
        BY <2>5, <2>6, Zenon
      <3>1. IsFiniteSet(S \cup {i + 1}) /\ Cardinality(S \cup {i + 1}) = Cardinality(S) + 1
        BY <3>0, FS_AddElement
      <3> QED
        BY <2>6, <3>0, <3>1, Zenon
    <2>8. a # "" => Append(s, a) \in Seq(T) /\ Len(Append(s, a)) = Len(s) + 1
      <3> SUFFICES ASSUME a # "" PROVE Append(s, a) \in Seq(T) /\ Len(Append(s, a)) = Len(s) + 1
        BY Zenon
      <3>1. PICK b \in T : b = a
        BY <2>4, Zenon
      <3>2. Append(s, b) \in Seq(T) /\ Len(Append(s, b)) = Len(s) + 1
        BY AppendProperties, Zenon
      <3> QED
        BY <3>1, <3>2, Zenon
    <2>9. CASE a # "" /\ (titled => hits[i + 1].title)
      <3>1. r[i + 1] = Append(s, a)
        BY <2>2, <2>3, <2>5, <2>9, Zenon
      <3>2. ~titled => Len(Append(s, a)) = Cardinality(Those(i)) + 1
        BY <2>5, <2>8, <2>9, Zenon
      <3> QED
        BY <2>1, <2>7, <2>8, <2>9, <3>1, <3>2, Zenon
    <2>10. CASE ~(a # "" /\ (titled => hits[i + 1].title))
      <3>1. r[i + 1] = s
        BY <2>2, <2>3, <2>5, <2>10, Zenon
      <3> QED
        BY <2>1, <2>5, <2>7, <2>10, <3>1, Zenon
    <2> QED
      BY <2>9, <2>10, Zenon
  <1> HIDE DEF P
  <1>5. n \in P
    <2>1. n \in 0..n
      OBVIOUS
    <2> QED
      BY <1>3, <1>4, <2>1, Induction, Zenon
  <1>6. r[n] \in Seq(T) /\ (~titled => Len(r[n]) = Cardinality(Those(n)))
    BY <1>5, Zenon DEF P
  <1>7. Web!Range(r[n]) \subseteq T
    <2> HIDE DEF T
    <2>0. PICK s \in Seq(T) : s = r[n]
      BY <1>6, Zenon
    <2>1. \A k \in DOMAIN s : s[k] \in T
      OBVIOUS
    <2> QED
      BY <2>0, <2>1, Zenon DEF Web!Range
  <1> QED
    BY <1>1, <1>2, <1>6, <1>7, Zenon

\* A provider that is configured answers or fails.
LEMMA ChainIsStrict ==
    ASSUME NEW blank \in BOOLEAN, NEW net, net.hits \in Seq([url : STRING, title : BOOLEAN]),
           net.searxng # "none", net.brave # "none", net.ddg # "none"
    PROVE  Web!ChainStrict(net, Web!WebSearch(blank, net))
  <1>2. PICK own : own = Web!Urls(net.hits, FALSE)
    OBVIOUS
  <1>3. PICK ddg : ddg = Web!Urls(net.hits, TRUE)
    OBVIOUS
  <1> DEFINE urls == {h.url : h \in Web!Range(net.hits)} \ {""}
             count == Cardinality({i \in DOMAIN net.hits : net.hits[i].url # ""})
  <1>6. Web!Range(own) \subseteq urls /\ Web!Range(ddg) \subseteq urls /\ Len(own) = count
    BY <1>2, <1>3, UrlsSound, Zenon
  <1> HIDE DEF urls, count
  <1>7. PICK out : out = Web!WebSearch(blank, net)
    OBVIOUS
  <1>8. \A p, how : how # "none" /\ out = Web!Answered(p, how, net.hits) =>
            /\ out.provider = p
            /\ out.error = "none" => out.urls = IF p = "duckduckgo" THEN ddg ELSE own
    <2> SUFFICES ASSUME NEW p, NEW how, how # "none", out = Web!Answered(p, how, net.hits)
                 PROVE  /\ out.provider = p
                        /\ out.error = "none" => out.urls = IF p = "duckduckgo" THEN ddg ELSE own
      OBVIOUS
    <2>1. CASE how = "hits"
      <3>1. out = [provider |-> p, error |-> "none", urls |-> Web!Urls(net.hits, p = "duckduckgo")]
        BY <2>1 DEF Web!Answered
      <3>2. CASE p = "duckduckgo"
        <4>1. (p = "duckduckgo") = TRUE
          BY <3>2
        <4>2. Web!Urls(net.hits, p = "duckduckgo") = ddg
          BY <1>3, <4>1, Zenon
        <4> QED
          BY <3>1, <3>2, <4>2
      <3>3. CASE p # "duckduckgo"
        <4>1. (p = "duckduckgo") = FALSE
          BY <3>3
        <4>2. Web!Urls(net.hits, p = "duckduckgo") = own
          BY <1>2, <4>1, Zenon
        <4> QED
          BY <3>1, <3>3, <4>2
      <3> QED
        BY <3>2, <3>3
    <2>2. CASE how # "hits"
      BY <2>2 DEF Web!Answered, Web!Failed
    <2> QED
      BY <2>1, <2>2
  <1>9. \/ out.provider = "none" /\ out.error # "none"
        \/ net.searxng # "not set" /\ out = Web!Answered("searxng", net.searxng, net.hits)
        \/ net.searxng = "not set" /\ net.brave # "no key" /\ out = Web!Answered("brave", net.brave, net.hits)
        \/ net.searxng = "not set" /\ net.brave = "no key" /\ out = Web!Answered("duckduckgo", net.ddg, net.hits)
    <2>1. CASE blank
      BY <1>7, <2>1, Zenon DEF Web!WebSearch, Web!Failed
    <2>2. CASE ~blank
      BY <1>7, <2>2, Zenon DEF Web!WebSearch
    <2> QED
      BY <2>1, <2>2, Zenon
  <1>10. /\ net.searxng # "not set" => out.provider \in {"searxng", "none"}
         /\ net.searxng = "not set" /\ net.brave # "no key" => out.provider \in {"brave", "none"}
         /\ out.error = "none" => out.urls = IF out.provider = "duckduckgo" THEN ddg ELSE own
    BY <1>8, <1>9, Zenon
  <1>11. /\ out.error = "none" => Web!Range(out.urls) \subseteq urls
         /\ out.error = "none" /\ out.provider # "duckduckgo" => Len(out.urls) = count
    BY <1>6, <1>10, Zenon
  <1>12. count = Web!Cardinality({i \in DOMAIN net.hits : net.hits[i].url # ""})
    BY SameCount, Zenon DEF count
  <1> QED
    BY <1>7, <1>10, <1>11, <1>12, Zenon DEF Web!ChainStrict, urls

\* A set of places that is not empty has a last one.
LEMMA LastIn ==
    ASSUME NEW n \in Nat, NEW S \in SUBSET (1..n), S # {}
    PROVE  \E i \in S : \A j \in S : j <= i
  <1>1. PICK m : m = Max(S)
    OBVIOUS
  <1> DEFINE N == {n - i : i \in S}
  <1>2. PICK j \in S : n - j \in N
    OBVIOUS
  <1>3. N \in SUBSET Nat /\ N # {}
    BY <1>2
  <1>4. PICK k \in N : \A l \in N : k <= l
    BY <1>3, LeastNat
  <1>5. PICK i \in S : k = n - i
    BY <1>4
  <1>6. \A l \in S : n - i <= n - l
    BY <1>4, <1>5
  <1> QED
    BY <1>6

\* A sequence of one element, and of two.
LEMMA OneOf ==
    ASSUME NEW A, NEW u \in Seq(A), Len(u) = 1
    PROVE  u = <<u[1]>>
  OBVIOUS

\* A sequence of two.
LEMMA TwoOf ==
    ASSUME NEW A, NEW a \in A, NEW b \in A
    PROVE  <<a, b>> \in Seq(A) /\ Len(<<a, b>>) = 2 /\ <<a, b>>[1] = a /\ <<a, b>>[2] = b
  OBVIOUS

MarkedAt(text, mark, limit) ==
    {i \in 1..limit : /\ i + Len(mark) - 1 <= limit
                      /\ SubSeq(text, i, i + Len(mark) - 1) = mark}

\* The last mark before a limit.
LEMMA LastOfIs ==
    ASSUME NEW text, NEW mark, NEW limit \in Nat, NEW l, l = Web!LastOf(text, mark, limit)
    PROVE  /\ l \in 0..limit
           /\ l # 0 => l + 1 \in MarkedAt(text, mark, limit)
           /\ \A i \in MarkedAt(text, mark, limit) : i <= l + 1
  <1> DEFINE at == MarkedAt(text, mark, limit)
  <1>3. l = IF at = {} THEN 0 ELSE (CHOOSE i \in at : \A j \in at : j <= i) - 1
    BY Zenon DEF Web!LastOf, MarkedAt
  <1>2. at \in SUBSET (1..limit)
    BY DEF MarkedAt
  <1>1. at = MarkedAt(text, mark, limit)
    OBVIOUS
  <1> HIDE DEF at
  <1>4. CASE at = {}
    BY <1>1, <1>3, <1>4
  <1>5. CASE at # {}
    <2>1. \E i \in at : \A j \in at : j <= i
      BY <1>2, <1>5, LastIn
    <2>2. PICK i : i = CHOOSE k \in at : \A j \in at : j <= k
      OBVIOUS
    <2>3. i \in at /\ \A j \in at : j <= i
      BY <2>1, <2>2, Zenon
    <2>4. l = i - 1 /\ i \in 1..limit
      BY <1>2, <1>3, <1>5, <2>2, <2>3, Zenon
    <2>5. l \in 0..limit /\ l + 1 = i
      BY <2>4
    <2> QED
      BY <1>1, <2>3, <2>5
  <1> QED
    BY <1>4, <1>5

\* The marks are ends of lines.
LEMMA MarksAreEnds ==
    ASSUME NEW text \in Seq(STRING), NEW limit \in Nat, limit <= Len(text), NEW i \in 1..limit
    PROVE  /\ i \in MarkedAt(text, <<"nl">>, limit) <=> text[i] = "nl"
           /\ i \in MarkedAt(text, <<"nl", "nl">>, limit) => text[i] = "nl"
  <1>1. Len(<<"nl">>) = 1 /\ Len(<<"nl", "nl">>) = 2 /\ i + 1 - 1 = i /\ i + 2 - 1 = i + 1 /\ i \in 1..Len(text)
    OBVIOUS
  <1>2. SubSeq(text, i, i) = <<text[i]>>
    <2>1. SubSeq(text, i, i)[1] = text[i] /\ Len(SubSeq(text, i, i)) = 1
      BY <1>1
    <2>2. PICK u \in Seq(STRING) : u = SubSeq(text, i, i)
      <3>1. \A j \in i..i : text[j] \in STRING
        BY <1>1
      <3>2. i \in Int
        OBVIOUS
      <3> QED
        BY <3>1, <3>2, SubSeqProperties
    <2>3. u = <<u[1]>>
      BY <2>1, <2>2, OneOf, Zenon
    <2> QED
      BY <2>1, <2>2, <2>3, Zenon
  <1>3. ASSUME i + 1 <= limit PROVE SubSeq(text, i, i + 1)[1] = text[i]
    BY <1>3
  <1>4. <<text[i]>> = <<"nl">> <=> text[i] = "nl"
    OBVIOUS
  <1>5. <<"nl", "nl">>[1] = "nl"
    OBVIOUS
  <1>6. i \in MarkedAt(text, <<"nl">>, limit) <=> SubSeq(text, i, i) = <<"nl">>
    BY <1>1 DEF MarkedAt
  <1>7. i \in MarkedAt(text, <<"nl", "nl">>, limit) => i + 1 <= limit /\ SubSeq(text, i, i + 1) = <<"nl", "nl">>
    BY <1>1 DEF MarkedAt
  <1> QED
    BY <1>2, <1>3, <1>4, <1>5, <1>6, <1>7, Zenon

\* The cut is near the limit, and at the end of a line where one ends there.
LEMMA CutsAtLine ==
    ASSUME ToolInputs, NEW text \in Seq(STRING), Len(text) > MaxFetch, NEW own, own = Web!Cut(text)
    PROVE  /\ own \in MaxFetch - FetchWindow..MaxFetch
           /\ (\E i \in MaxFetch - FetchWindow + 1..MaxFetch : text[i] = "nl") => text[own + 1] = "nl"
  <1>1. MaxFetch \in Nat /\ FetchWindow \in Nat /\ FetchWindow < MaxFetch
    BY DEF ToolInputs
  <1>2. PICK near \in Nat : near = MaxFetch - FetchWindow /\ near # 0 /\ near <= MaxFetch
    BY <1>1
  <1>3. PICK blank : blank = Web!LastOf(text, <<"nl", "nl">>, MaxFetch)
    OBVIOUS
  <1>4. PICK line : line = Web!LastOf(text, <<"nl">>, MaxFetch)
    OBVIOUS
  <1>5. own = IF blank >= near THEN blank ELSE IF line >= near THEN line ELSE MaxFetch
    BY <1>2, <1>3, <1>4, Zenon DEF Web!Cut
  <1>6. /\ blank \in 0..MaxFetch
        /\ blank # 0 => blank + 1 \in MarkedAt(text, <<"nl", "nl">>, MaxFetch)
    BY <1>1, <1>3, LastOfIs, Zenon
  <1>7. /\ line \in 0..MaxFetch
        /\ line # 0 => line + 1 \in MarkedAt(text, <<"nl">>, MaxFetch)
        /\ \A i \in MarkedAt(text, <<"nl">>, MaxFetch) : i <= line + 1
    BY <1>1, <1>4, LastOfIs, Zenon
  <1>a. \A m, i : i \in MarkedAt(text, m, MaxFetch) => i \in 1..MaxFetch
    BY Zenon DEF MarkedAt
  <1>b. MaxFetch <= Len(text)
    BY <1>1
  <1>8. blank # 0 => text[blank + 1] = "nl"
    BY <1>1, <1>6, <1>a, <1>b, MarksAreEnds, Zenon
  <1>9. line # 0 => text[line + 1] = "nl"
    BY <1>1, <1>7, <1>a, <1>b, MarksAreEnds, Zenon
  <1>10. ASSUME NEW i \in near + 1..MaxFetch, text[i] = "nl" PROVE line >= near
    <2>1. i \in 1..MaxFetch
      BY <1>1, <1>2
    <2>2. i \in MarkedAt(text, <<"nl">>, MaxFetch)
      BY <1>1, <1>b, <1>10, <2>1, MarksAreEnds, Zenon
    <2>3. i <= line + 1
      BY <1>7, <2>2, Zenon
    <2> QED
      BY <1>1, <1>2, <1>7, <2>3
  <1>11. own \in near..MaxFetch
    BY <1>1, <1>2, <1>5, <1>6, <1>7
  <1>12. (blank >= near => blank # 0) /\ (line >= near => line # 0)
    BY <1>2
  <1>13. (\E i \in near + 1..MaxFetch : text[i] = "nl") => text[own + 1] = "nl"
    BY <1>5, <1>8, <1>9, <1>10, <1>12, Zenon
  <1> QED
    BY <1>2, <1>11, <1>13, Zenon

\* A fence more closes the one that was open.
LEMMA FenceClosed ==
    ASSUME NEW s \in Seq(STRING)
    PROVE  /\ Web!Fences(s) \in Nat
           /\ Web!Fences(s \o <<"nl", "fence">>) = Web!Fences(s) + 1
  <1>1. PICK n \in Nat : n = Len(s) /\ DOMAIN s = 1..n
    OBVIOUS
  <1> DEFINE A == STRING \cup {"nl", "fence"}
  <1>a. s \in Seq(A)
    OBVIOUS
  <1>b. "nl" \in A /\ "fence" \in A
    OBVIOUS
  <1> HIDE DEF A
  <1>2. PICK t \in Seq(A) : /\ t = s \o <<"nl", "fence">> /\ DOMAIN t = 1..n + 2
                                 /\ \A i \in 1..n : t[i] = s[i]
                                 /\ t[n + 1] = "nl" /\ t[n + 2] = "fence"
    <2>1. PICK m \in Seq(A) : m = <<"nl", "fence">> /\ Len(m) = 2 /\ m[1] = "nl" /\ m[2] = "fence"
      <3>1. PICK a \in A, b \in A : a = "nl" /\ b = "fence"
        BY <1>b
      <3>2. PICK m \in Seq(A) : m = <<a, b>> /\ Len(m) = 2 /\ m[1] = a /\ m[2] = b
        <4>1. <<a, b>> \in Seq(A) /\ Len(<<a, b>>) = 2 /\ <<a, b>>[1] = a /\ <<a, b>>[2] = b
          BY TwoOf
        <4> QED
          BY <4>1
      <3>3. m = <<"nl", "fence">>
        BY <3>1, <3>2
      <3> QED
        BY <3>1, <3>2, <3>3
    <2>2. s \o m \in Seq(A) /\ Len(s \o m) = n + 2
      BY <1>1, <1>a, <2>1
    <2>3. \A i \in 1..n : (s \o m)[i] = s[i]
      BY <1>1, <1>a, <2>1
    <2>4. (s \o m)[n + 1] = m[1] /\ (s \o m)[n + 2] = m[2]
      BY <1>1, <1>a, <2>1
    <2>5. DOMAIN (s \o m) = 1..n + 2
      BY <2>2
    <2> QED
      BY <2>1, <2>2, <2>3, <2>4, <2>5, Zenon
  <1> DEFINE S == {i \in 1..n : s[i] = "fence" /\ (i = 1 \/ s[i - 1] = "nl")}
             T == {i \in 1..n + 2 : t[i] = "fence" /\ (i = 1 \/ t[i - 1] = "nl")}
  <1>3. Web!Fences(s) = Cardinality(S) /\ Web!Fences(t) = Cardinality(T)
    BY <1>1, <1>2, SameCount, Zenon DEF Web!Fences
  <1>4. IsFiniteSet(S) /\ Cardinality(S) \in Nat
    <2>1. IsFiniteSet(1..n)
      BY FS_Interval
    <2> QED
      BY <2>1, FS_Subset, FS_CardinalityType
  <1>5. ASSUME NEW i \in 1..n PROVE i \in T <=> i \in S
    <2>1. i = 1 \/ i - 1 \in 1..n
      OBVIOUS
    <2>2. i \in 1..n + 2 /\ t[i] = s[i] /\ (i = 1 \/ t[i - 1] = s[i - 1])
      BY <1>2, <2>1
    <2> QED
      BY <2>2, Zenon
  <1>6. n + 1 \notin T
    BY <1>2
  <1>7. n + 2 \in T
    <2>1. n + 2 \in 1..n + 2 /\ (n + 2) - 1 = n + 1
      OBVIOUS
    <2> QED
      BY <1>2, <2>1
  <1>8. 1..n + 2 = (1..n) \cup {n + 1, n + 2} /\ n + 2 \notin 1..n
    OBVIOUS
  <1>9. S \subseteq 1..n /\ T \subseteq 1..n + 2
    OBVIOUS
  <1> HIDE DEF S, T
  <1>10. T = S \cup {n + 2} /\ n + 2 \notin S
    BY <1>5, <1>6, <1>7, <1>8, <1>9
  <1>11. Cardinality(T) = Cardinality(S) + 1
    BY <1>4, <1>10, FS_AddElement
  <1> QED
    BY <1>2, <1>3, <1>4, <1>11

\* A document that is cut is cut at a line, with its fences closed.
LEMMA CutIsClean ==
    ASSUME ToolInputs, NEW text \in Seq(STRING)
    PROVE  Web!CutClean(text, Web!CapOutput(text))
  <1>1. PICK cap : cap = Web!CapOutput(text)
    OBVIOUS
  <1> SUFFICES ASSUME cap.marked PROVE Web!CutClean(text, cap)
    BY <1>1 DEF Web!CutClean
  <1>2. MaxFetch \in Nat
    BY DEF ToolInputs
  <1>3. PICK own : own = Web!Cut(text)
    OBVIOUS
  <1>4. PICK s : s = SubSeq(text, 1, own)
    OBVIOUS
  <1>5. /\ ~(Len(text) <= MaxFetch)
        /\ cap.shown = IF Web!Fences(s) % 2 = 1 THEN s \o <<"nl", "fence">> ELSE s
    BY <1>1, <1>3, <1>4 DEF Web!CapOutput
  <1>6. Len(text) > MaxFetch
    BY <1>2, <1>5
  <1>7. /\ own \in MaxFetch - FetchWindow..MaxFetch
        /\ (\E i \in MaxFetch - FetchWindow + 1..MaxFetch : text[i] = "nl") => text[own + 1] = "nl"
    BY <1>3, <1>6, CutsAtLine, Zenon
  <1>8. s \in Seq(STRING)
    <2>1. own \in Nat /\ own <= Len(text)
      <3>1. FetchWindow \in Nat /\ FetchWindow < MaxFetch
        BY DEF ToolInputs
      <3> QED
        BY <1>2, <1>6, <1>7, <3>1
    <2>2. \A i \in 1..own : text[i] \in STRING
      BY <2>1
    <2> QED
      BY <1>4, <2>1, <2>2, SubSeqProperties
  <1>9. /\ Web!Fences(s) \in Nat
        /\ Web!Fences(s \o <<"nl", "fence">>) = Web!Fences(s) + 1
    BY <1>8, FenceClosed
  <1>10. Web!Fences(cap.shown) % 2 = 0
    <2>1. CASE Web!Fences(s) % 2 = 1
      <3>1. Web!Fences(cap.shown) = Web!Fences(s) + 1
        BY <1>5, <1>9, <2>1, Zenon
      <3> QED
        BY <1>9, <2>1, <3>1
    <2>2. CASE Web!Fences(s) % 2 # 1
      <3>1. Web!Fences(cap.shown) = Web!Fences(s)
        BY <1>5, <2>2, Zenon
      <3> QED
        BY <1>9, <2>2, <3>1
    <2> QED
      BY <2>1, <2>2
  <1>11. cap.shown = SubSeq(text, 1, own) \/ cap.shown = SubSeq(text, 1, own) \o <<"nl", "fence">>
    BY <1>4, <1>5, Zenon
  <1> QED
    BY <1>7, <1>10, <1>11, Zenon DEF Web!CutClean

-----------------------------------------------------------------------------
(* list_dir                                                                *)

Paths == Seq(STRING)
Entries == [path : Paths, kind : {"dir", "file"}, readable : BOOLEAN]
Up(p, n) == SubSeq(p, 1, n)

\* The way to a path.
LEMMA OnTheWay ==
    ASSUME NEW p \in Paths, NEW k \in Nat, k = Len(p), NEW n \in 0..k
    PROVE  /\ Up(p, n) \in Paths /\ Len(Up(p, n)) = n
           /\ \A i \in 1..n : Up(p, n)[i] = p[i]
           /\ \A i \in 0..n : Up(Up(p, n), i) = Up(p, i)
           /\ Up(p, k) = p
  <1>1. \A i \in 0..k : Up(p, i) \in Paths
    <2> TAKE i \in 0..k
    <2>1. \A j \in 1..i : p[j] \in STRING
      BY DEF Paths
    <2>2. SubSeq(p, 1, i) \in Seq(STRING)
      BY <2>1, SubSeqProperties
    <2> QED
      BY <2>2 DEF Up, Paths
  <1>2. \A i \in 0..k : Len(Up(p, i)) = i
    BY DEF Up, Paths
  <1>3. \A i \in 0..k : \A j \in 1..i : Up(p, i)[j] = p[j]
    BY DEF Up, Paths
  <1>4. Up(p, k) = p
    BY DEF Up, Paths
  <1>5. ASSUME NEW i \in 0..n PROVE Up(Up(p, n), i) = Up(p, i)
    <2>1. PICK q \in Paths : q = Up(p, n) /\ Len(q) = n /\ \A j \in 1..n : q[j] = p[j]
      BY <1>1, <1>2, <1>3
    <2>2. PICK s \in Paths : s = Up(p, i) /\ Len(s) = i /\ \A j \in 1..i : s[j] = p[j]
      BY <1>1, <1>2, <1>3
    <2>3. Up(q, i) \in Paths
      <3>1. \A j \in 1..i : q[j] \in STRING
        BY <2>1 DEF Paths
      <3>2. SubSeq(q, 1, i) \in Seq(STRING)
        BY <3>1, SubSeqProperties
      <3> QED
        BY <3>2 DEF Up, Paths
    <2>4. Len(Up(q, i)) = i /\ \A j \in 1..i : Up(q, i)[j] = q[j]
      BY <2>1 DEF Up, Paths
    <2>5. PICK t \in Paths : t = Up(q, i) /\ Len(t) = i /\ \A j \in 1..i : t[j] = p[j]
      BY <2>1, <2>3, <2>4
    <2>6. s = t
      BY <2>2, <2>5, SeqEqual DEF Paths
    <2> QED
      BY <2>1, <2>2, <2>5, <2>6, Zenon
  <1> QED
    BY <1>1, <1>2, <1>3, <1>4, <1>5

\* The front and the name of a path.
LEMMA FrontAndName ==
    ASSUME NEW p \in Paths, p # <<>>
    PROVE  /\ Len(p) \in Nat \ {0}
           /\ Files!Front(p) = Up(p, Len(p) - 1)
           /\ Files!Last(p) = p[Len(p)]
           /\ DOMAIN p = 1..Len(p)
  <1>1. Len(p) \in Nat \ {0} /\ DOMAIN p = 1..Len(p)
    BY DEF Paths
  <1> QED
    BY <1>1, Zenon DEF Files!Front, Files!Last, Up

\* What IsTree says.
LEMMA TreeIs ==
    ASSUME NEW tree, Files!IsTree(tree)
    PROVE  \A e \in tree :
              /\ e \in Entries /\ e.path \in Paths
              /\ Len(e.path) \in Nat \ {0}
              /\ \A f \in tree : f.path = e.path => f = e
              /\ Len(e.path) > 1 => \E f \in tree : f.path = Up(e.path, Len(e.path) - 1)
  <1> TAKE e \in tree
  <1>1. tree \subseteq Entries
    BY Zenon DEF Files!IsTree, Entries, Paths
  <1>2. e \in Entries /\ e.path \in Paths
    BY <1>1 DEF Entries
  <1>3. e.path # <<>> /\ (\A f \in tree : f.path = e.path => f = e)
    BY Zenon DEF Files!IsTree
  <1>4. Len(e.path) > 1 => \E f \in tree : f.path = Files!Front(e.path)
    BY Zenon DEF Files!IsTree
  <1> QED
    BY <1>2, <1>3, <1>4, FrontAndName, Zenon

\* Every step of the way is an entry, and Entry finds it.
LEMMA WayExists ==
    ASSUME NEW tree, Files!IsTree(tree), NEW e \in tree, NEW n \in 1..Len(e.path)
    PROVE  /\ Files!Entry(tree, Up(e.path, n)) \in tree
           /\ Files!Entry(tree, Up(e.path, n)).path = Up(e.path, n)
  <1>1. PICK p \in Paths, k \in Nat : p = e.path /\ k = Len(p) /\ k # 0
    BY TreeIs
  <1> DEFINE P == {j \in 0..k - 1 : \E f \in tree : f.path = Up(p, k - j)}
  <1>2. 0 \in P
    <2>1. Up(p, k) = p
      BY <1>1, OnTheWay
    <2>2. 0 \in 0..k - 1 /\ k - 0 = k
      BY <1>1
    <2> QED
      BY <1>1, <2>1, <2>2
  <1>3. ASSUME NEW j \in 0..k - 1, j < k - 1, j \in P PROVE j + 1 \in P
    <2>1. PICK f \in tree : f.path = Up(p, k - j)
      BY <1>3
    <2>2. PICK m \in Nat : m = k - j /\ m \in 0..k /\ m > 1 /\ m - 1 \in 0..m /\ m - 1 = k - (j + 1) /\ j + 1 \in 0..k - 1
      BY <1>3
    <2>3. f.path = Up(p, m)
      BY <2>1, <2>2
    <2>4. Len(f.path) = m
      BY <1>1, <2>2, <2>3, OnTheWay
    <2>5. PICK g \in tree : g.path = Up(f.path, m - 1)
      BY <2>2, <2>4, TreeIs
    <2>6. Up(f.path, m - 1) = Up(p, m - 1)
      BY <1>1, <2>2, <2>3, OnTheWay
    <2> QED
      BY <2>2, <2>5, <2>6
  <1>4. n \in 1..k /\ k - n \in 0..k - 1 /\ k - 1 \in Nat /\ k - (k - n) = n
    BY <1>1
  <1>5. k - n \in P
    <2> HIDE DEF P
    <2> QED
      BY <1>2, <1>3, <1>4, Induction, Zenon
  <1>6. \E f \in tree : f.path = Up(p, n)
    BY <1>4, <1>5
  <1> QED
    BY <1>1, <1>6, Zenon DEF Files!Entry

\* Entry finds an entry by its path.
LEMMA EntryIs ==
    ASSUME NEW tree, Files!IsTree(tree), NEW e \in tree
    PROVE  Files!Entry(tree, e.path) = e
  <1>1. PICK x : x = Files!Entry(tree, e.path)
    OBVIOUS
  <1>2. x \in tree /\ x.path = e.path
    BY <1>1, Zenon DEF Files!Entry
  <1>3. x = e
    BY <1>2, TreeIs, Zenon
  <1> QED
    BY <1>1, <1>3

Open(tree, p, n) ==
    Files!Entry(tree, Up(p, n)).kind = "dir" /\ Files!Entry(tree, Up(p, n)).readable

Clean(p) == \A i \in DOMAIN p : p[i] \notin Files!Ignored

\* What is within reach.
LEMMA ListedIs ==
    ASSUME NEW tree, NEW m
    PROVE  Files!Listed(tree, m) =
              {e \in tree : /\ Len(e.path) <= m /\ Clean(e.path)
                            /\ \A n \in 1..Len(e.path) - 1 : Open(tree, e.path, n)}
  BY Zenon DEF Files!Listed, Clean, Open, Up

SeenIn(tree, dirs) == {e \in Files!Children(tree, dirs) : Files!Name(e) \notin Files!Ignored}

IsLevel(f, tree, m) ==
    f = [d \in 0..m |->
            IF d = 0 THEN {}
            ELSE IF d = 1 THEN SeenIn(tree, {<<>>})
            ELSE SeenIn(tree, {x.path : x \in {e \in f[d - 1] : e.kind = "dir" /\ e.readable}})]

\* What is seen in some directories.
LEMMA SeenIs ==
    ASSUME NEW tree, Files!IsTree(tree), NEW dirs, NEW e
    PROVE  e \in SeenIn(tree, dirs) <=>
              e \in tree /\ Up(e.path, Len(e.path) - 1) \in dirs /\ e.path[Len(e.path)] \notin Files!Ignored
  <1>1. ASSUME NEW x \in tree
        PROVE  Files!Front(x.path) = Up(x.path, Len(x.path) - 1) /\ Files!Name(x) = x.path[Len(x.path)]
    <2>1. x.path \in Paths /\ x.path # <<>>
      <3>1. x.path \in Paths /\ Len(x.path) # 0
        BY TreeIs
      <3> QED
        BY <3>1 DEF Paths
    <2> QED
      BY <2>1, FrontAndName, Zenon DEF Files!Name
  <1> QED
    BY <1>1, Zenon DEF SeenIn, Files!Children

\* The top level of a tree.
LEMMA TopLevel ==
    ASSUME NEW tree, Files!IsTree(tree), NEW m \in Nat, m # 0
    PROVE  SeenIn(tree, {<<>>}) = {e \in Files!Listed(tree, m) : Len(e.path) = 1}
  <1>1. ASSUME NEW e \in tree
        PROVE  e \in SeenIn(tree, {<<>>}) <=> e \in Files!Listed(tree, m) /\ Len(e.path) = 1
    <2>1. PICK p \in Paths, k \in Nat : p = e.path /\ k = Len(p) /\ k # 0 /\ DOMAIN p = 1..k
      <3>1. PICK p \in Paths : p = e.path /\ Len(p) \in Nat \ {0}
        BY TreeIs
      <3>2. DOMAIN p = 1..Len(p)
        BY DEF Paths
      <3> QED
        BY <3>1, <3>2
    <2>2. Up(p, k - 1) = <<>> <=> k = 1
      <3>1. k - 1 \in 0..k
        BY <2>1
      <3>2. PICK s \in Paths : s = Up(p, k - 1) /\ Len(s) = k - 1
        BY <2>1, <3>1, OnTheWay
      <3>3. s = <<>> <=> Len(s) = 0
        BY DEF Paths
      <3>4. k - 1 = 0 <=> k = 1
        BY <2>1
      <3> QED
        BY <3>2, <3>3, <3>4, Zenon
    <2>3. e \in SeenIn(tree, {<<>>}) <=> k = 1 /\ p[k] \notin Files!Ignored
      BY <2>1, <2>2, SeenIs
    <2>4. k = 1 => 1..k = {1} /\ 1..k - 1 = {} /\ k <= m
      OBVIOUS
    <2>5. e \in Files!Listed(tree, m) <=> k <= m /\ Clean(p) /\ \A n \in 1..k - 1 : Open(tree, p, n)
      BY <2>1, ListedIs, Zenon
    <2>6. k = 1 => (Clean(p) <=> p[k] \notin Files!Ignored)
      BY <2>1, <2>4, Zenon DEF Clean
    <2> QED
      BY <2>1, <2>3, <2>4, <2>5, <2>6, Zenon
  <1>2. Files!Listed(tree, m) \subseteq tree
    BY ListedIs, Zenon
  <1>3. SeenIn(tree, {<<>>}) \subseteq tree
    BY SeenIs, Zenon
  <1> QED
    BY <1>1, <1>2, <1>3, Zenon

\* A level below.
LEMMA NextLevel ==
    ASSUME NEW tree, Files!IsTree(tree), NEW m \in Nat, NEW d \in 2..m
    PROVE  SeenIn(tree, {x.path : x \in {e \in {y \in Files!Listed(tree, m) : Len(y.path) = d - 1} :
                                            e.kind = "dir" /\ e.readable}})
           = {e \in Files!Listed(tree, m) : Len(e.path) = d}
  <1>0. d \in Nat /\ d > 1 /\ d <= m /\ d - 1 \in 1..d - 1 /\ d - 1 <= m
    OBVIOUS
  <1> DEFINE Above == {e \in {y \in Files!Listed(tree, m) : Len(y.path) = d - 1} : e.kind = "dir" /\ e.readable}
             dirs == {x.path : x \in Above}
  <1>1. ASSUME NEW e \in tree
        PROVE  e \in SeenIn(tree, dirs) <=> e \in Files!Listed(tree, m) /\ Len(e.path) = d
    <2>1. PICK p \in Paths, k \in Nat : p = e.path /\ k = Len(p) /\ k # 0 /\ DOMAIN p = 1..k
      <3>1. PICK p \in Paths : p = e.path /\ Len(p) \in Nat \ {0}
        BY TreeIs
      <3>2. DOMAIN p = 1..Len(p)
        BY DEF Paths
      <3> QED
        BY <3>1, <3>2
    <2>2. e \in SeenIn(tree, dirs) <=> Up(p, k - 1) \in dirs /\ p[k] \notin Files!Ignored
      BY <2>1, SeenIs, Zenon
    <2>3. e \in Files!Listed(tree, m) <=> k <= m /\ Clean(p) /\ \A n \in 1..k - 1 : Open(tree, p, n)
      BY <2>1, ListedIs, Zenon
    <2>4. ASSUME NEW x \in tree, x.path = Up(p, k - 1), k = d
          PROVE  /\ Len(x.path) = d - 1
                 /\ Clean(p) <=> Clean(x.path) /\ p[k] \notin Files!Ignored
                 /\ (\A n \in 1..k - 1 : Open(tree, p, n)) <=>
                       /\ \A n \in 1..d - 2 : Open(tree, x.path, n)
                       /\ x.kind = "dir" /\ x.readable
      <3>1. PICK q \in Paths : /\ q = Up(p, k - 1) /\ q = x.path /\ Len(q) = k - 1
                               /\ \A i \in 1..k - 1 : q[i] = p[i]
                               /\ \A i \in 0..k - 1 : Up(q, i) = Up(p, i)
        <4>1. k - 1 \in 0..k
          BY <2>1
        <4> QED
          BY <2>1, <2>4, <4>1, OnTheWay
      <3>2. DOMAIN q = 1..k - 1
        BY <3>1 DEF Paths
      <3>3. 1..k = (1..k - 1) \cup {k}
        BY <2>1
      <3>4. Clean(p) <=> Clean(q) /\ p[k] \notin Files!Ignored
        BY <2>1, <3>1, <3>2, <3>3, Zenon DEF Clean
      <3>5. \A n \in 1..d - 2 : Open(tree, q, n) <=> Open(tree, p, n)
        <4>1. \A n \in 1..d - 2 : n \in 0..k - 1
          BY <2>4
        <4> QED
          BY <3>1, <4>1, Zenon DEF Open
      <3>6. Files!Entry(tree, Up(p, k - 1)) = x
        BY <2>4, EntryIs, Zenon
      <3>7. Open(tree, p, k - 1) <=> x.kind = "dir" /\ x.readable
        BY <3>6, Zenon DEF Open
      <3>8. 1..k - 1 = (1..d - 2) \cup {k - 1}
        BY <1>0, <2>4
      <3> QED
        BY <2>4, <3>1, <3>4, <3>5, <3>7, <3>8, Zenon
    <2>5. ASSUME e \in SeenIn(tree, dirs) PROVE e \in Files!Listed(tree, m) /\ Len(e.path) = d
      <3>1. PICK x \in Above : x.path = Up(p, k - 1)
        BY <2>2, <2>5, Zenon
      <3>2. x \in tree /\ Len(x.path) = d - 1 /\ Clean(x.path) /\ x.kind = "dir" /\ x.readable
            /\ \A n \in 1..Len(x.path) - 1 : Open(tree, x.path, n)
        BY <3>1, ListedIs, Zenon
      <3>3. k = d
        <4>1. k - 1 \in 0..k
          BY <2>1
        <4>2. Len(Up(p, k - 1)) = k - 1
          BY <2>1, <4>1, OnTheWay
        <4> QED
          BY <1>0, <2>1, <3>1, <3>2, <4>2
      <3>4. (d - 1) - 1 = d - 2
        BY <1>0
      <3>5. \A n \in 1..d - 2 : Open(tree, x.path, n)
        BY <3>2, <3>4, Zenon
      <3>6. Clean(p) /\ \A n \in 1..k - 1 : Open(tree, p, n)
        BY <2>2, <2>4, <2>5, <3>1, <3>2, <3>3, <3>5, Zenon
      <3> QED
        BY <1>0, <2>1, <2>3, <3>3, <3>6, Zenon
    <2>6. ASSUME e \in Files!Listed(tree, m), Len(e.path) = d PROVE e \in SeenIn(tree, dirs)
      <3>1. k = d /\ k > 1
        BY <1>0, <2>1, <2>6
      <3>2. PICK x \in tree : x.path = Up(p, k - 1)
        <4>1. Len(e.path) > 1
          BY <2>1, <3>1, Zenon
        <4>2. \E x \in tree : x.path = Up(e.path, Len(e.path) - 1)
          BY <4>1, TreeIs, Zenon
        <4> QED
          BY <2>1, <4>2, Zenon
      <3>3. /\ Len(x.path) = d - 1 /\ Clean(x.path) /\ p[k] \notin Files!Ignored
            /\ \A n \in 1..d - 2 : Open(tree, x.path, n)
            /\ x.kind = "dir" /\ x.readable
        BY <2>3, <2>4, <2>6, <3>1, <3>2, Zenon
      <3>4. (d - 1) - 1 = d - 2
        BY <1>0
      <3>5. x \in Files!Listed(tree, m)
        BY <1>0, <3>3, <3>4, ListedIs, Zenon
      <3>6. x \in Above
        BY <3>3, <3>5, Zenon
      <3> QED
        BY <2>2, <3>2, <3>3, <3>6, Zenon
    <2> QED
      BY <2>5, <2>6
  <1>2. Files!Listed(tree, m) \subseteq tree
    BY ListedIs, Zenon
  <1>3. SeenIn(tree, dirs) \subseteq tree
    BY SeenIs, Zenon
  <1> QED
    BY <1>1, <1>2, <1>3, Zenon

\* list_dir lists what is within reach.
LEMMA ListsReach ==
    ASSUME NEW tree, Files!IsTree(tree), NEW m \in Nat
    PROVE  Files!ListDir(tree, m) = Files!Listed(tree, m)
  <1> DEFINE At(d) == {e \in Files!Listed(tree, m) : Len(e.path) = d}
             h == [d \in 0..m |-> At(d)]
  <1>1. At(0) = {}
    <2>1. \A e \in Files!Listed(tree, m) : e \in tree
      BY ListedIs, Zenon
    <2>2. \A e \in tree : Len(e.path) # 0
      BY TreeIs
    <2> QED
      BY <2>1, <2>2, Zenon
  <1>2. m # 0 => At(1) = SeenIn(tree, {<<>>})
    BY TopLevel, Zenon
  <1>3. \A d \in 2..m : At(d) = SeenIn(tree, {x.path : x \in {e \in At(d - 1) : e.kind = "dir" /\ e.readable}})
    <2> TAKE d \in 2..m
    <2> QED
      BY NextLevel
  <1> HIDE DEF At
  <1>4. \A d \in 0..m : At(d) = IF d = 0 THEN {}
            ELSE IF d = 1 THEN SeenIn(tree, {<<>>})
            ELSE SeenIn(tree, {x.path : x \in {e \in h[d - 1] : e.kind = "dir" /\ e.readable}})
    <2> TAKE d \in 0..m
    <2>1. CASE d = 0
      BY <1>1, <2>1, Zenon
    <2>2. CASE d = 1
      <3>1. m # 0
        BY <2>2
      <3> QED
        BY <1>2, <2>2, <3>1
    <2>3. CASE d # 0 /\ d # 1
      <3>1. d \in 2..m /\ d - 1 \in 0..m
        BY <2>3
      <3>2. h[d - 1] = At(d - 1)
        BY <3>1, Zenon
      <3> QED
        BY <1>3, <2>3, <3>1, <3>2, Zenon
    <2> QED
      BY <2>1, <2>2, <2>3
  <1>5. IsLevel(h, tree, m)
    BY <1>4, Zenon DEF IsLevel
  <1>6. \A d \in 0..m : h[d] = At(d)
    BY Zenon
  <1> HIDE DEF h
  <1>7. PICK f : f = CHOOSE g : IsLevel(g, tree, m)
    OBVIOUS
  <1>8. f = [d \in 0..m |->
            IF d = 0 THEN {}
            ELSE IF d = 1 THEN SeenIn(tree, {<<>>})
            ELSE SeenIn(tree, {x.path : x \in {e \in f[d - 1] : e.kind = "dir" /\ e.readable}})]
    <2>1. IsLevel(f, tree, m)
      BY <1>5, <1>7, Zenon
    <2> QED
      BY <2>1, Zenon DEF IsLevel
  <1> DEFINE P == {d \in 0..m : f[d] = At(d)}
  <1>9. 0 \in P
    <2>1. 0 \in 0..m
      OBVIOUS
    <2>2. f[0] = {}
      BY <1>8, <2>1, Zenon
    <2> QED
      BY <1>1, <2>1, <2>2, Zenon
  <1>10. ASSUME NEW d \in 0..m, d < m, d \in P PROVE d + 1 \in P
    <2>1. d + 1 \in 0..m /\ (d + 1) - 1 = d /\ d + 1 # 0
      BY <1>10
    <2>2. PICK c \in 0..m : c = d + 1 /\ c # 0 /\ c - 1 = d
      BY <2>1
    <2>3. f[c] = IF c = 1 THEN SeenIn(tree, {<<>>})
            ELSE SeenIn(tree, {x.path : x \in {e \in f[d] : e.kind = "dir" /\ e.readable}})
      BY <1>8, <2>2, Zenon
    <2>4. h[d] = f[d] /\ h[c - 1] = f[d]
      BY <1>6, <1>10, <2>2
    <2>5. At(c) = IF c = 1 THEN SeenIn(tree, {<<>>})
            ELSE SeenIn(tree, {x.path : x \in {e \in f[d] : e.kind = "dir" /\ e.readable}})
      BY <1>4, <2>2, <2>4, Zenon
    <2> QED
      BY <2>2, <2>3, <2>5, Zenon
  <1>11. \A d \in 0..m : f[d] = At(d)
    <2> HIDE DEF P
    <2>1. \A d \in 0..m : d \in P
      BY <1>9, <1>10, Induction, Zenon
    <2> QED
      BY <2>1 DEF P
  <1>12. Files!ListDir(tree, m) = UNION {f[d] : d \in 0..m}
    BY <1>7, Zenon DEF Files!ListDir, IsLevel, SeenIn
  <1>13. \A e \in Files!Listed(tree, m) : Len(e.path) \in 0..m
    <2>1. \A e \in Files!Listed(tree, m) : e \in tree /\ Len(e.path) <= m
      BY ListedIs, Zenon
    <2>2. \A e \in tree : Len(e.path) \in Nat
      BY TreeIs
    <2> QED
      BY <2>1, <2>2
  <1>14. ASSUME NEW e PROVE e \in UNION {f[d] : d \in 0..m} <=> e \in Files!Listed(tree, m)
    <2>1. ASSUME e \in Files!Listed(tree, m) PROVE e \in UNION {f[d] : d \in 0..m}
      <3>1. PICK d \in 0..m : d = Len(e.path)
        BY <1>13, <2>1, Zenon
      <3>2. e \in At(d)
        BY <2>1, <3>1, Zenon DEF At
      <3> QED
        BY <1>11, <3>2, Zenon
    <2>2. ASSUME e \in UNION {f[d] : d \in 0..m} PROVE e \in Files!Listed(tree, m)
      <3>1. PICK d \in 0..m : e \in f[d]
        BY <2>2, Zenon
      <3>2. e \in At(d)
        BY <1>11, <3>1, Zenon
      <3> QED
        BY <3>2, Zenon DEF At
    <2> QED
      BY <2>1, <2>2
  <1> QED
    BY <1>12, <1>14, Zenon

\* The tree with every directory open.
Opened(tree) == {[e EXCEPT !.readable = TRUE] : e \in tree}

\* An entry of it.
LEMMA OpenedIs ==
    ASSUME NEW tree, Files!IsTree(tree), NEW e \in tree, NEW f, f = [e EXCEPT !.readable = TRUE]
    PROVE  /\ f \in Opened(tree) /\ f.path = e.path /\ f.kind = e.kind /\ f.readable
           /\ Files!Entry(Opened(tree), e.path) = f
  <1>1. \A x \in tree : x \in Entries
    BY TreeIs
  <1>2. \A x \in Entries : LET y == [x EXCEPT !.readable = TRUE]
                           IN y.path = x.path /\ y.kind = x.kind /\ y.readable = TRUE
    BY DEF Entries
  <1>3. f \in Opened(tree) /\ f.path = e.path /\ f.kind = e.kind /\ f.readable
    BY <1>1, <1>2, Zenon DEF Opened
  <1>4. PICK y : y = Files!Entry(Opened(tree), e.path)
    OBVIOUS
  <1>5. y \in Opened(tree) /\ y.path = e.path
    BY <1>3, <1>4, Zenon DEF Files!Entry
  <1>6. PICK x \in tree : y = [x EXCEPT !.readable = TRUE]
    BY <1>5, Zenon DEF Opened
  <1>7. x.path = e.path
    BY <1>1, <1>2, <1>5, <1>6, Zenon
  <1>8. x = e
    BY <1>7, TreeIs, Zenon
  <1> QED
    BY <1>3, <1>4, <1>6, <1>8

\* A listing that leaves out what a closed directory may hold says so.
LEMMA PartialIsTold ==
    ASSUME NEW tree, Files!IsTree(tree), NEW m \in Nat
    PROVE  Files!PartialTold(tree, m, Files!Partial(tree, Files!ListDir(tree, m), m))
  <1>1. PICK items : items = Files!Listed(tree, m)
    OBVIOUS
  <1>2. PICK partial \in BOOLEAN : partial = Files!Partial(tree, items, m)
    BY Zenon DEF Files!Partial
  <1> SUFFICES ASSUME ~partial
               PROVE  {e.path : e \in Files!Listed(Opened(tree), m)} = {e.path : e \in Files!Listed(tree, m)}
    <2>1. Files!ListDir(tree, m) = items
      BY <1>1, ListsReach, Zenon
    <2> QED
      BY <1>2, <2>1, Zenon DEF Files!PartialTold, Opened
  <1>3. \A e \in items : e.kind = "dir" /\ Len(e.path) < m => e.readable
    BY <1>2, Zenon DEF Files!Partial
  <1>4. ASSUME NEW e \in tree, NEW f, f = [e EXCEPT !.readable = TRUE]
        PROVE  e \in Files!Listed(tree, m) <=> f \in Files!Listed(Opened(tree), m)
    <2>1. PICK p \in Paths, k \in Nat : p = e.path /\ k = Len(p) /\ k # 0
      BY TreeIs
    <2>2. f \in Opened(tree) /\ f.path = p
      BY <1>4, <2>1, OpenedIs
    <2>3. e \in Files!Listed(tree, m) <=> k <= m /\ Clean(p) /\ \A n \in 1..k - 1 : Open(tree, p, n)
      BY <2>1, ListedIs, Zenon
    <2>4. f \in Files!Listed(Opened(tree), m) <=> k <= m /\ Clean(p) /\ \A n \in 1..k - 1 : Open(Opened(tree), p, n)
      BY <2>1, <2>2, ListedIs, Zenon
    <2>5. ASSUME NEW n \in 1..k - 1
          PROVE  Open(Opened(tree), p, n) <=> Files!Entry(tree, Up(p, n)).kind = "dir"
      <3>1. PICK x : x = Files!Entry(tree, Up(p, n))
        OBVIOUS
      <3>2. n \in 1..k
        BY <2>5
      <3>3. x \in tree /\ x.path = Up(p, n)
        BY <2>1, <3>1, <3>2, WayExists, Zenon
      <3>4. PICK y : y = [x EXCEPT !.readable = TRUE]
        OBVIOUS
      <3>5. Files!Entry(Opened(tree), Up(p, n)) = y /\ y.kind = x.kind /\ y.readable
        <4>1. Files!Entry(Opened(tree), x.path) = y /\ y.kind = x.kind /\ y.readable
          BY <3>3, <3>4, OpenedIs
        <4> QED
          BY <3>3, <4>1, Zenon
      <3> QED
        BY <3>1, <3>5, Zenon DEF Open
    <2>6. (\A n \in 1..k - 1 : Open(tree, p, n)) => \A n \in 1..k - 1 : Open(Opened(tree), p, n)
      BY <2>5, Zenon DEF Open
    <2>7. ASSUME k <= m, Clean(p), \A n \in 1..k - 1 : Open(Opened(tree), p, n)
          PROVE  \A n \in 1..k - 1 : Open(tree, p, n)
      <3> DEFINE P == {j \in 0..k - 1 : \A n \in 1..j : Open(tree, p, n)}
      <3>1. 0 \in P
        <4>1. 1..0 = {} /\ 0 \in 0..k - 1
          BY <2>1
        <4> QED
          BY <4>1, Zenon
      <3>2. ASSUME NEW j \in 0..k - 1, j < k - 1, j \in P PROVE j + 1 \in P
        <4>1. PICK n \in Nat : /\ n = j + 1 /\ n \in 1..k - 1 /\ n \in 0..k - 1 /\ n \in 1..k /\ n \in 0..k /\ n - 1 = j
                               /\ 1..n = (1..j) \cup {n} /\ n < m /\ n <= m
          BY <2>1, <2>7, <3>2
        <4>2. PICK x : x = Files!Entry(tree, Up(p, n))
          OBVIOUS
        <4>3. x \in tree /\ x.path = Up(p, n) /\ x.kind = "dir"
          BY <2>1, <2>5, <2>7, <4>1, <4>2, WayExists, Zenon
        <4>4. PICK q \in Paths : /\ q = x.path /\ Len(q) = n
                                 /\ \A i \in 1..n : q[i] = p[i]
                                 /\ \A i \in 0..n : Up(q, i) = Up(p, i)
          BY <2>1, <4>1, <4>3, OnTheWay
        <4>5. Clean(q)
          <5>1. DOMAIN q = 1..n /\ DOMAIN p = 1..k
            BY <2>1, <4>4 DEF Paths
          <5>2. \A i \in 1..n : i \in 1..k
            BY <4>1
          <5> QED
            BY <2>7, <4>4, <5>1, <5>2, Zenon DEF Clean
        <4>6. \A i \in 1..n - 1 : Open(tree, q, i)
          <5>1. \A i \in 1..j : i \in 0..n
            BY <4>1
          <5>2. \A i \in 1..j : Open(tree, p, i)
            BY <3>2, Zenon
          <5> QED
            BY <4>1, <4>4, <5>1, <5>2, Zenon DEF Open
        <4>7. x \in items
          BY <1>1, <4>1, <4>3, <4>4, <4>5, <4>6, ListedIs, Zenon
        <4>8. x.readable
          BY <1>3, <4>1, <4>3, <4>4, <4>7, Zenon
        <4>9. Open(tree, p, n)
          BY <4>2, <4>3, <4>8, Zenon DEF Open
        <4> QED
          BY <3>2, <4>1, <4>9, Zenon
      <3>3. k - 1 \in P
        <4>1. k - 1 \in Nat /\ k - 1 \in 0..k - 1
          BY <2>1
        <4> HIDE DEF P
        <4> QED
          BY <3>1, <3>2, <4>1, Induction, Zenon
      <3> QED
        BY <3>3, Zenon
    <2> QED
      BY <2>3, <2>4, <2>6, <2>7, Zenon
  <1>5. \A e \in tree : [e EXCEPT !.readable = TRUE].path = e.path
    BY OpenedIs, Zenon
  <1>6. Files!Listed(tree, m) \subseteq tree /\ Files!Listed(Opened(tree), m) \subseteq Opened(tree)
    BY ListedIs, Zenon
  <1>7. ASSUME NEW e \in Files!Listed(tree, m) PROVE \E f \in Files!Listed(Opened(tree), m) : f.path = e.path
    BY <1>4, <1>5, <1>6, Zenon
  <1>8. ASSUME NEW f \in Files!Listed(Opened(tree), m) PROVE \E e \in Files!Listed(tree, m) : e.path = f.path
    <2>1. PICK e \in tree : f = [e EXCEPT !.readable = TRUE]
      BY <1>6, Zenon DEF Opened
    <2> QED
      BY <1>4, <1>5, <2>1, Zenon
  <1>9. ASSUME NEW p PROVE p \in {e.path : e \in Files!Listed(Opened(tree), m)} <=> p \in {e.path : e \in Files!Listed(tree, m)}
    <2>1. ASSUME NEW f \in Files!Listed(Opened(tree), m), p = f.path PROVE \E e \in Files!Listed(tree, m) : p = e.path
      BY <1>8, <2>1, Zenon
    <2>2. ASSUME NEW e \in Files!Listed(tree, m), p = e.path PROVE \E f \in Files!Listed(Opened(tree), m) : p = f.path
      BY <1>7, <2>2, Zenon
    <2> QED
      BY <2>1, <2>2, Zenon
  <1> QED
    BY <1>9, Zenon

-----------------------------------------------------------------------------
(* What a tool shows                                                       *)

\* The questions that are not asked of a tool.
NoTool == {"none", "config", "install", "delegate", "dispatch", "task", "chat", "stats", "skills",
           "trace", "eval", "day", "run", "evo"}

\* Nothing is said of an answer to them.
LEMMA OfNoTool ==
    ASSUME topic' \in NoTool
    PROVE  ToolsExact'
  BY DEF ToolsExact, NoTool

\* read_file.
LEMMA ReadIsExact == ASSUME AskRead PROVE ToolsExact'
  <1>1. PICK total \in Limits, first \in Limits, last \in Limits \cup {Files!NoLine} :
            Ask("read", <<total, first, last>>, Files!ReadFile("text", total, first, last))
    BY DEF AskRead
  <1>2. total \in Nat /\ first \in Nat /\ last \in Nat
    BY ToolInputs DEF ToolInputs, Files!NoLine
  <1>3. Files!LinesExact(total, first, last, Files!ReadFile("text", total, first, last))
    BY <1>2, PagesExact
  <1>4. /\ topic' = "read" /\ answer' = Files!ReadFile("text", total, first, last)
        /\ input'[1] = total /\ input'[2] = first /\ input'[3] = last
    BY <1>1 DEF Ask
  <1> QED
    BY <1>3, <1>4, Zenon DEF ToolsExact

\* list_dir.
LEMMA ListIsExact == ASSUME AskList PROVE ToolsExact'
  <1>1. PICK tree \in Trees, depth \in Limits :
            Ask("list", <<tree, depth>>,
                [items |-> Files!ListDir(tree, depth),
                 partial |-> Files!Partial(tree, Files!ListDir(tree, depth), depth)])
    BY DEF AskList
  <1>2. Files!IsTree(tree) /\ depth \in Nat
    BY ToolInputs DEF ToolInputs
  <1>3. /\ topic' = "list" /\ input'[1] = tree /\ input'[2] = depth
        /\ answer'.items = Files!ListDir(tree, depth)
        /\ answer'.partial = Files!Partial(tree, Files!ListDir(tree, depth), depth)
    BY <1>1 DEF Ask
  <1>4. /\ Files!ListDir(tree, depth) = Files!Listed(tree, depth)
        /\ Files!PartialTold(tree, depth, Files!Partial(tree, Files!ListDir(tree, depth), depth))
    BY <1>2, ListsReach, PartialIsTold
  <1> QED
    BY <1>3, <1>4, Zenon DEF ToolsExact

\* search_code and its fallback.
LEMMA SearchIsExact == ASSUME AskSearch PROVE ToolsExact'
  <1>1. PICK files \in SearchedFiles, limit \in Limits :
            Ask("search", <<files, limit>>, Files!FallbackSearch(files, limit))
    BY DEF AskSearch
  <1>2. files \in Seq(Files!TextFiles) /\ limit \in Nat
    BY ToolInputs DEF ToolInputs
  <1>3. Files!FallbackSearch(files, limit) = Files!FirstMatches(files, limit)
    BY <1>2, SearchIsFirst
  <1>4. /\ topic' = "search" /\ input'[1] = files /\ input'[2] = limit
        /\ answer' = Files!FallbackSearch(files, limit)
    BY <1>1 DEF Ask
  <1> QED
    BY <1>3, <1>4, Zenon DEF ToolsExact

\* search_code of a repository.
LEMMA GrepIsExact == ASSUME AskGrep PROVE ToolsExact'
  <1>1. PICK inRepo \in BOOLEAN, exitCode \in Limits, lines \in Limits, limit \in Limits, files \in SearchedFiles :
            Ask("grep", [inRepo |-> inRepo, git |-> [exitCode |-> exitCode, lines |-> lines], limit |-> limit],
                Files!SearchCode(inRepo, [exitCode |-> exitCode, lines |-> lines], files, limit))
    BY DEF AskGrep
  <1>2. files \in Seq(Files!TextFiles) /\ limit \in Nat /\ exitCode \in Nat /\ lines \in Nat
    BY ToolInputs DEF ToolInputs
  <1>3. Len(Files!FallbackSearch(files, limit)) \in 0..limit
    BY <1>2, SearchIsFirst
  <1>4. PICK git : git = [exitCode |-> exitCode, lines |-> lines]
    OBVIOUS
  <1>5. Files!CountsAdd(inRepo, git, limit, Files!SearchCode(inRepo, git, files, limit))
    BY <1>2, <1>3, <1>4, CountsDoAdd
  <1>6. /\ topic' = "grep" /\ input'.inRepo = inRepo /\ input'.git = git /\ input'.limit = limit
        /\ answer' = Files!SearchCode(inRepo, git, files, limit)
    BY <1>1, <1>4, Zenon DEF Ask
  <1> QED
    BY <1>5, <1>6, Zenon DEF ToolsExact

\* ast_search.
LEMMA MatchesAreExact == ASSUME AskMatches PROVE ToolsExact'
  <1>1. PICK batch \in RewriteBatches, limit \in Limits :
            Ask("matches", <<batch, limit>>, Files!AstSearch(batch, limit))
    BY DEF AskMatches
  <1>2. Files!IsBatch(batch) /\ limit \in Nat
    BY ToolInputs DEF ToolInputs
  <1>3. Files!AstSearch(batch, limit) = Files!Least(limit, Files!AllMatches(batch))
    BY <1>2, AstIsLeast
  <1>4. /\ topic' = "matches" /\ input'[1] = batch /\ input'[2] = limit
        /\ answer' = Files!AstSearch(batch, limit)
    BY <1>1 DEF Ask
  <1> QED
    BY <1>3, <1>4, Zenon DEF ToolsExact

\* ast_replace.
LEMMA RewriteIsExact == ASSUME AskRewrite PROVE ToolsExact'
  <1>1. PICK batch \in RewriteBatches : Ask("rewrite", batch, Files!AstReplace(batch))
    BY DEF AskRewrite
  <1>2. Files!IsBatch(batch)
    BY ToolInputs DEF ToolInputs
  <1>3. Files!SummaryExact(batch, Files!AstReplace(batch))
    BY <1>2, SummaryIsExact
  <1>4. topic' = "rewrite" /\ input' = batch /\ answer' = Files!AstReplace(batch)
    BY <1>1 DEF Ask
  <1> QED
    BY <1>3, <1>4, Zenon DEF ToolsExact

\* web_search.
LEMMA WebIsExact == ASSUME AskWeb PROVE ToolsExact'
  <1>1. PICK blank \in BOOLEAN, searxng \in {"not set", "down", "status", "garbled", "hits"},
             brave \in {"no key", "down", "hits"}, ddg \in {"down", "hits"}, hits \in HitLists :
            Ask("web", [searxng |-> searxng, brave |-> brave, ddg |-> ddg, hits |-> hits],
                Web!WebSearch(blank, [searxng |-> searxng, brave |-> brave, ddg |-> ddg, hits |-> hits]))
    BY Zenon DEF AskWeb
  <1>2. PICK net : net = [searxng |-> searxng, brave |-> brave, ddg |-> ddg, hits |-> hits]
    BY Zenon
  <1>3. hits \in Seq([url : STRING, title : BOOLEAN])
    BY ToolInputs, Zenon DEF ToolInputs
  <1>4. net.hits = hits /\ net.searxng = searxng /\ net.brave = brave /\ net.ddg = ddg
    BY <1>2, Zenon
  <1>5. searxng # "none" /\ brave # "none" /\ ddg # "none"
    BY Zenon
  <1>6. Web!ChainStrict(net, Web!WebSearch(blank, net))
    BY <1>3, <1>4, <1>5, ChainIsStrict, Zenon
  <1>7. topic' = "web" /\ input' = net /\ answer' = Web!WebSearch(blank, net)
    BY <1>1, <1>2, Zenon DEF Ask
  <1> QED
    BY <1>6, <1>7, Zenon DEF ToolsExact

\* web_fetch.
LEMMA FetchIsExact == ASSUME AskFetch PROVE ToolsExact'
  <1>1. PICK text \in FetchedTexts : Ask("fetch", text, Web!CapOutput(text))
    BY DEF AskFetch
  <1>2. text \in Seq(STRING)
    BY ToolInputs DEF ToolInputs
  <1>3. Web!CutClean(text, Web!CapOutput(text))
    BY <1>2, ToolInputs, CutIsClean
  <1>4. topic' = "fetch" /\ input' = text /\ answer' = Web!CapOutput(text)
    BY <1>1 DEF Ask
  <1> QED
    BY <1>3, <1>4, Zenon DEF ToolsExact

\* fetch_docs.
LEMMA DocsAreExact == ASSUME AskDocs PROVE ToolsExact'
  <1>1. PICK url, reply : Ask("docs", [url |-> url, reply |-> reply], Web!FetchDocs(url, reply))
    BY Zenon DEF AskDocs
  <1>2. Web!DocsShown(url, reply, Web!FetchDocs(url, reply))
    BY DocsAreShown
  <1>3. topic' = "docs" /\ input'.url = url /\ input'.reply = reply /\ answer' = Web!FetchDocs(url, reply)
    BY <1>1 DEF Ask
  <1> QED
    BY <1>2, <1>3, Zenon DEF ToolsExact

\* The executor of tools.
LEMMA ToolIsExact == ASSUME AskTool PROVE ToolsExact'
  <1>1. PICK name \in Dispatch!BuiltIn \cup ToolNames, args \in {"good", "bad"}, works \in BOOLEAN,
             up \in SUBSET Extensions, content \in {"text", "page"}, exit \in {0, 1} :
            Ask("tool", [name |-> <<name>>, args |-> args, works |-> works,
                         env |-> [asked |-> Extensions, up |-> up, content |-> content, exit |-> exit]],
                Dispatch!Execute(name, args, works,
                         [asked |-> Extensions, up |-> up, content |-> content, exit |-> exit]))
    BY DEF AskTool
  <1>2. PICK env : env = [asked |-> Extensions, up |-> up, content |-> content, exit |-> exit]
    OBVIOUS
  <1>3. env.content \in {"text", "page"}
    BY <1>2
  <1>4. Dispatch!ErrorsShown(name, args, works, env, Dispatch!Execute(name, args, works, env))
    BY <1>3, ErrorsAreShown
  <1>5. <<name>>[1] = name
    OBVIOUS
  <1>6. /\ topic' = "tool" /\ input'.name = <<name>> /\ input'.args = args /\ input'.works = works
        /\ input'.env = env /\ answer' = Dispatch!Execute(name, args, works, env)
    BY <1>1, <1>2, <1>5, Zenon DEF Ask
  <1> QED
    BY <1>4, <1>5, <1>6, Zenon DEF ToolsExact

\* Paths of another system.
LEMMA HostPathIsExact == ASSUME AskHostPath PROVE ToolsExact'
  <1>1. PICK p \in HostPaths : Ask("host", p, Dispatch!ToHostPath(p))
    BY DEF AskHostPath
  <1>2. p \in [drive : BOOLEAN, root : STRING, comps : Seq(STRING), lead : Seq({"sep"})]
    BY ToolInputs DEF ToolInputs
  <1>3. Dispatch!HostPathStable(p)
    BY <1>2, HostPathIsStable
  <1>4. topic' = "host" /\ input' = p
    BY <1>1 DEF Ask
  <1> QED
    BY <1>3, <1>4, Zenon DEF ToolsExact

\* The other questions.
LEMMA OtherTopics ==
    ASSUME \/ AskConfig \/ AskInstall \/ AskDelegate \/ AskDispatch \/ AskTask \/ AskChat
           \/ AskStats \/ AskSkills \/ AskTrace \/ AskEval \/ AskDay \/ AskRun \/ AskEvo
    PROVE  topic' \in NoTool
  <1>1. \A t, i, a : Ask(t, i, a) => topic' = t
    BY Zenon DEF Ask
  <1>2. \E t \in NoTool : topic' = t
    <2>1. \A t \in {"config", "install", "delegate", "dispatch", "task", "chat", "stats", "skills",
                    "trace", "eval", "day", "run", "evo"} : t \in NoTool
      BY DEF NoTool
    <2>2. CASE AskConfig
      BY <1>1, <2>1, <2>2, Zenon DEF AskConfig
    <2>3. CASE AskInstall
      BY <1>1, <2>1, <2>3, Zenon DEF AskInstall
    <2>4. CASE AskDelegate
      BY <1>1, <2>1, <2>4, Zenon DEF AskDelegate
    <2>5. CASE AskDispatch
      BY <1>1, <2>1, <2>5, Zenon DEF AskDispatch
    <2>6. CASE AskTask
      BY <1>1, <2>1, <2>6, Zenon DEF AskTask
    <2>7. CASE AskChat
      BY <1>1, <2>1, <2>7, Zenon DEF AskChat
    <2>8. CASE AskStats
      BY <1>1, <2>1, <2>8, Zenon DEF AskStats
    <2>9. CASE AskSkills
      BY <1>1, <2>1, <2>9, Zenon DEF AskSkills
    <2>10. CASE AskTrace
      BY <1>1, <2>1, <2>10, Zenon DEF AskTrace
    <2>11. CASE AskEval
      BY <1>1, <2>1, <2>11, Zenon DEF AskEval
    <2>12. CASE AskDay
      BY <1>1, <2>1, <2>12, Zenon DEF AskDay
    <2>13. CASE AskRun
      BY <1>1, <2>1, <2>13, Zenon DEF AskRun
    <2>14. CASE AskEvo
      BY <1>1, <2>1, <2>14, Zenon DEF AskEvo
    <2> QED
      BY <2>2, <2>3, <2>4, <2>5, <2>6, <2>7, <2>8, <2>9, <2>10, <2>11, <2>12, <2>13, <2>14, Zenon
  <1> QED
    BY <1>2, Zenon

\* What a tool shows is what there is, and what it changes is what it was asked to,
\* whatever the trees, the files, the batches, the hits, the texts and the paths.
THEOREM DecisionsToolsExact == Spec => []ToolsExact
  <1>1. Init => ToolsExact
    BY DEF Init, ToolsExact
  <1>2. ToolsExact /\ [Next]_vars => ToolsExact'
    <2> SUFFICES ASSUME ToolsExact, [Next]_vars PROVE ToolsExact'
      OBVIOUS
    <2>1. CASE UNCHANGED vars
      BY <2>1, Zenon DEF vars, ToolsExact
    <2>2. CASE Next
      <3>1. CASE AskRead \/ AskList \/ AskSearch \/ AskGrep \/ AskMatches \/ AskRewrite
        BY <3>1, ReadIsExact, ListIsExact, SearchIsExact, GrepIsExact, MatchesAreExact, RewriteIsExact, Zenon
      <3>2. CASE AskWeb \/ AskFetch \/ AskDocs \/ AskTool \/ AskHostPath
        BY <3>2, WebIsExact, FetchIsExact, DocsAreExact, ToolIsExact, HostPathIsExact, Zenon
      <3>3. CASE \/ AskConfig \/ AskInstall \/ AskDelegate \/ AskDispatch \/ AskTask \/ AskChat
                 \/ AskStats \/ AskSkills \/ AskTrace \/ AskEval \/ AskDay \/ AskRun \/ AskEvo
        BY <3>3, OtherTopics, OfNoTool, Zenon
      <3> QED
        BY <2>2, <3>1, <3>2, <3>3, Zenon DEF Next
    <2> QED
      BY <2>1, <2>2, Zenon
  <1> QED
    BY <1>1, <1>2, PTL DEF Spec

-----------------------------------------------------------------------------
(* More folds                                                              *)

IterType(g, steps, type) ==
    g = [S \in SUBSET (DOMAIN steps) |->
            IF S = {} THEN <<>>
            ELSE IF steps[Max(S)].type = type THEN Append(g[S \ {Max(S)}], steps[Max(S)]) ELSE g[S \ {Max(S)}]]

\* The steps of one type are taken one by one.
LEMMA TypeWalks ==
    ASSUME NEW A, NEW steps \in Seq(A), NEW type
    PROVE  Walks("type", type, <<>>, steps, Len(steps), Harness!OfType(steps, type))
  <1>1. DOMAIN steps = 1..Len(steps) /\ Len(steps) \in Nat
    OBVIOUS
  <1>2. Harness!OfType(steps, type) = (CHOOSE g : IterType(g, steps, type))[DOMAIN steps]
    BY DEF Harness!OfType, Harness!FoldLeft, Harness!MapThenFoldSet, Harness!Max, Max, IterType
  <1>3. \A g : IterType(g, steps, type) <=> Iter("type", type, g, <<>>, steps, 1..Len(steps))
    BY <1>1 DEF IterType, Iter, Op
  <1>4. \E g : Iter("type", type, g, <<>>, steps, 1..Len(steps))
    BY <1>1, IterExists
  <1>5. PICK g : g = CHOOSE h : IterType(h, steps, type)
    OBVIOUS
  <1>6. Iter("type", type, g, <<>>, steps, 1..Len(steps))
    BY <1>3, <1>4, <1>5
  <1> DEFINE n == Len(steps)
  <1>7. n \in Nat /\ Iter("type", type, g, <<>>, steps, 1..n)
    BY <1>1, <1>6
  <1> HIDE DEF n
  <1>8. Walks("type", type, <<>>, steps, n, g[1..n])
    BY <1>7, IterSteps
  <1> QED
    BY <1>1, <1>2, <1>5, <1>8 DEF n

IterLine(g, lines) ==
    g = [S \in SUBSET (DOMAIN lines) |->
            IF S = {} THEN Ledgers!EmptyAgg
            ELSE Ledgers!Line(g[S \ {Max(S)}], lines[Max(S)])]

\* A ledger is read line by line.
LEMMA LineWalks ==
    ASSUME NEW A, NEW arg, NEW lines \in Seq(A)
    PROVE  Walks("line", arg, Ledgers!EmptyAgg, lines, Len(lines), Ledgers!ParseSessionEvents(lines))
  <1>1. DOMAIN lines = 1..Len(lines) /\ Len(lines) \in Nat
    OBVIOUS
  <1>2. Ledgers!ParseSessionEvents(lines) = (CHOOSE g : IterLine(g, lines))[DOMAIN lines]
    BY DEF Ledgers!ParseSessionEvents, Ledgers!FoldLeft, Ledgers!MapThenFoldSet, Ledgers!Max, Max, IterLine
  <1>3. \A g : IterLine(g, lines) <=> Iter("line", arg, g, Ledgers!EmptyAgg, lines, 1..Len(lines))
    BY <1>1 DEF IterLine, Iter, Op
  <1>4. \E g : Iter("line", arg, g, Ledgers!EmptyAgg, lines, 1..Len(lines))
    BY <1>1, IterExists
  <1>5. PICK g : g = CHOOSE h : IterLine(h, lines)
    OBVIOUS
  <1>6. Iter("line", arg, g, Ledgers!EmptyAgg, lines, 1..Len(lines))
    BY <1>3, <1>4, <1>5
  <1> DEFINE n == Len(lines)
  <1>7. n \in Nat /\ Iter("line", arg, g, Ledgers!EmptyAgg, lines, 1..n)
    BY <1>1, <1>6
  <1> HIDE DEF n
  <1>8. Walks("line", arg, Ledgers!EmptyAgg, lines, n, g[1..n])
    BY <1>7, IterSteps
  <1> QED
    BY <1>1, <1>2, <1>5, <1>8 DEF n

IterSession(g, ledgers) ==
    g = [S \in SUBSET (DOMAIN ledgers) |->
            IF S = {} THEN Ledgers!NoStats
            ELSE Ledgers!WithSession(g[S \ {Max(S)}], ledgers[Max(S)])]

\* The ledgers are read one by one.
LEMMA SessionWalks ==
    ASSUME NEW A, NEW arg, NEW ledgers \in Seq(A)
    PROVE  Walks("session", arg, Ledgers!NoStats, ledgers, Len(ledgers), Ledgers!Summed(ledgers))
  <1>1. DOMAIN ledgers = 1..Len(ledgers) /\ Len(ledgers) \in Nat
    OBVIOUS
  <1>2. Ledgers!Summed(ledgers) = (CHOOSE g : IterSession(g, ledgers))[DOMAIN ledgers]
    BY DEF Ledgers!Summed, Ledgers!FoldLeft, Ledgers!MapThenFoldSet, Ledgers!Max, Max, IterSession
  <1>3. \A g : IterSession(g, ledgers) <=> Iter("session", arg, g, Ledgers!NoStats, ledgers, 1..Len(ledgers))
    BY <1>1 DEF IterSession, Iter, Op
  <1>4. \E g : Iter("session", arg, g, Ledgers!NoStats, ledgers, 1..Len(ledgers))
    BY <1>1, IterExists
  <1>5. PICK g : g = CHOOSE h : IterSession(h, ledgers)
    OBVIOUS
  <1>6. Iter("session", arg, g, Ledgers!NoStats, ledgers, 1..Len(ledgers))
    BY <1>3, <1>4, <1>5
  <1> DEFINE n == Len(ledgers)
  <1>7. n \in Nat /\ Iter("session", arg, g, Ledgers!NoStats, ledgers, 1..n)
    BY <1>1, <1>6
  <1> HIDE DEF n
  <1>8. Walks("session", arg, Ledgers!NoStats, ledgers, n, g[1..n])
    BY <1>7, IterSteps
  <1> QED
    BY <1>1, <1>2, <1>5, <1>8 DEF n

IterFolder(g, folders) ==
    g = [S \in SUBSET (DOMAIN folders) |->
            IF S = {} THEN <<>>
            ELSE Config!WithFolder(g[S \ {Max(S)}], folders[Max(S)])]

\* The folders of the skills are read one by one.
LEMMA FolderWalks ==
    ASSUME NEW A, NEW arg, NEW folders \in Seq(A), NEW dirs, Config!FlattenSeq(dirs) = folders
    PROVE  Walks("folder", arg, <<>>, folders, Len(folders), Config!LoadSkills(dirs))
  <1>1. DOMAIN folders = 1..Len(folders) /\ Len(folders) \in Nat
    OBVIOUS
  <1>2. Config!LoadSkills(dirs) = (CHOOSE g : IterFolder(g, folders))[DOMAIN folders]
    BY DEF Config!LoadSkills, Config!FoldLeft, Config!MapThenFoldSet, Config!Max, Max, IterFolder
  <1>3. \A g : IterFolder(g, folders) <=> Iter("folder", arg, g, <<>>, folders, 1..Len(folders))
    BY <1>1 DEF IterFolder, Iter, Op
  <1>4. \E g : Iter("folder", arg, g, <<>>, folders, 1..Len(folders))
    BY <1>1, IterExists
  <1>5. PICK g : g = CHOOSE h : IterFolder(h, folders)
    OBVIOUS
  <1>6. Iter("folder", arg, g, <<>>, folders, 1..Len(folders))
    BY <1>3, <1>4, <1>5
  <1> DEFINE n == Len(folders)
  <1>7. n \in Nat /\ Iter("folder", arg, g, <<>>, folders, 1..n)
    BY <1>1, <1>6
  <1> HIDE DEF n
  <1>8. Walks("folder", arg, <<>>, folders, n, g[1..n])
    BY <1>7, IterSteps
  <1> QED
    BY <1>1, <1>2, <1>5, <1>8 DEF n

IterPass(g, ms, from, roles) ==
    g = [S \in SUBSET (DOMAIN [i \in DOMAIN ms |-> i]) |->
            IF S = {} THEN [roles |-> roles, last |-> from, goes |-> TRUE]
            ELSE Gate!Pass(ms, from, g[S \ {Max(S)}], [i \in DOMAIN ms |-> i][Max(S)])]

\* The walk from a target goes over the mentions.
LEMMA PassWalks ==
    ASSUME NEW A, NEW ms \in Seq(A), NEW from, NEW roles
    PROVE  Walks("pass", from, [roles |-> roles, last |-> from, goes |-> TRUE], ms, Len(ms), Gate!Walk(ms, from, roles))
  <1>1. DOMAIN ms = 1..Len(ms) /\ Len(ms) \in Nat
    OBVIOUS
  <1>2. Gate!Walk(ms, from, roles) = (CHOOSE g : IterPass(g, ms, from, roles))[DOMAIN [i \in DOMAIN ms |-> i]]
    BY DEF Gate!Walk, Gate!FoldLeft, Gate!MapThenFoldSet, Gate!Max, Gate!FoldLeftDomain, Max, IterPass
  <1>9. /\ DOMAIN [i \in DOMAIN ms |-> i] = 1..Len(ms)
        /\ \A m \in 1..Len(ms) : [i \in DOMAIN ms |-> i][m] = m
    BY <1>1
  <1>a. ASSUME NEW S \in SUBSET (1..Len(ms)), S # {}, NEW acc
        PROVE  Op("pass", from, ms, Max(S), acc) =
               Gate!Pass(ms, from, acc, [i \in DOMAIN ms |-> i][Max(S)])
    <2>0. PICK k \in Nat : k = Len(ms)
      BY <1>1, Zenon
    <2>5. S \in SUBSET (1..k)
      BY <2>0
    <2>6. Max(S) \in S
      BY <1>a, <2>5, MaxIn
    <2>1. PICK m \in 1..Len(ms) : m = Max(S)
      BY <2>6
    <2>2. [i \in DOMAIN ms |-> i][Max(S)] = m
      BY <1>9, <2>1
    <2>3. Op("pass", from, ms, m, acc) =
             Gate!Pass(ms, from, acc, m)
      BY DEF Op
    <2> QED
      BY <2>1, <2>2, <2>3
  <1>3. ASSUME NEW g
        PROVE  IterPass(g, ms, from, roles) <=> Iter("pass", from, g, [roles |-> roles, last |-> from, goes |-> TRUE], ms, 1..Len(ms))
    <2>1. ASSUME NEW S \in SUBSET (1..Len(ms))
          PROVE  (IF S = {} THEN [roles |-> roles, last |-> from, goes |-> TRUE] ELSE Gate!Pass(ms, from, g[S \ {Max(S)}], [i \in DOMAIN ms |-> i][Max(S)])) =
                 (IF S = {} THEN [roles |-> roles, last |-> from, goes |-> TRUE] ELSE Op("pass", from, ms, Max(S), g[S \ {Max(S)}]))
      BY <1>a
    <2>2. SUBSET (DOMAIN [i \in DOMAIN ms |-> i]) = SUBSET (1..Len(ms))
      BY <1>9
    <2>3. [S \in SUBSET (DOMAIN [i \in DOMAIN ms |-> i]) |-> IF S = {} THEN [roles |-> roles, last |-> from, goes |-> TRUE] ELSE Gate!Pass(ms, from, g[S \ {Max(S)}], [i \in DOMAIN ms |-> i][Max(S)])] =
          [S \in SUBSET (1..Len(ms)) |->
             IF S = {} THEN [roles |-> roles, last |-> from, goes |-> TRUE] ELSE Op("pass", from, ms, Max(S), g[S \ {Max(S)}])]
      BY <2>1, <2>2, Zenon
    <2> QED
      BY <2>3, Zenon DEF IterPass, Iter
  <1>4. \E g : Iter("pass", from, g, [roles |-> roles, last |-> from, goes |-> TRUE], ms, 1..Len(ms))
    BY <1>1, IterExists
  <1>5. PICK g : g = CHOOSE h : IterPass(h, ms, from, roles)
    OBVIOUS
  <1>6. Iter("pass", from, g, [roles |-> roles, last |-> from, goes |-> TRUE], ms, 1..Len(ms))
    BY <1>3, <1>4, <1>5
  <1> DEFINE n == Len(ms)
  <1>7. n \in Nat /\ Iter("pass", from, g, [roles |-> roles, last |-> from, goes |-> TRUE], ms, 1..n)
    BY <1>1, <1>6
  <1> HIDE DEF n
  <1>8. Walks("pass", from, [roles |-> roles, last |-> from, goes |-> TRUE], ms, n, g[1..n])
    BY <1>7, IterSteps
  <1> QED
    BY <1>1, <1>2, <1>5, <1>8, <1>9 DEF n

IterSpread(g, ms, first) ==
    g = [S \in SUBSET (DOMAIN [i \in DOMAIN ms |-> i]) |->
            IF S = {} THEN first
            ELSE IF [i \in DOMAIN ms |-> i][Max(S)] \in Gate!Kept(ms) /\ g[S \ {Max(S)}][[i \in DOMAIN ms |-> i][Max(S)]] = "target" THEN Gate!Spread(ms, g[S \ {Max(S)}], [i \in DOMAIN ms |-> i][Max(S)]) ELSE g[S \ {Max(S)}]]

\* The walks begin at one mention after the other.
LEMMA SpreadWalks ==
    ASSUME NEW A, NEW arg, NEW ms \in Seq(A), NEW first
    PROVE  Walks("spread", arg, first, ms, Len(ms), Gate!SpreadAll(ms, first))
  <1>1. DOMAIN ms = 1..Len(ms) /\ Len(ms) \in Nat
    OBVIOUS
  <1>2. Gate!SpreadAll(ms, first) = (CHOOSE g : IterSpread(g, ms, first))[DOMAIN [i \in DOMAIN ms |-> i]]
    BY DEF Gate!SpreadAll, Gate!FoldLeft, Gate!MapThenFoldSet, Gate!Max, Gate!FoldLeftDomain, Max, IterSpread
  <1>9. /\ DOMAIN [i \in DOMAIN ms |-> i] = 1..Len(ms)
        /\ \A m \in 1..Len(ms) : [i \in DOMAIN ms |-> i][m] = m
    BY <1>1
  <1>a. ASSUME NEW S \in SUBSET (1..Len(ms)), S # {}, NEW acc
        PROVE  Op("spread", arg, ms, Max(S), acc) =
               IF [i \in DOMAIN ms |-> i][Max(S)] \in Gate!Kept(ms) /\ acc[[i \in DOMAIN ms |-> i][Max(S)]] = "target" THEN Gate!Spread(ms, acc, [i \in DOMAIN ms |-> i][Max(S)]) ELSE acc
    <2>0. PICK k \in Nat : k = Len(ms)
      BY <1>1, Zenon
    <2>5. S \in SUBSET (1..k)
      BY <2>0
    <2>6. Max(S) \in S
      BY <1>a, <2>5, MaxIn
    <2>1. PICK m \in 1..Len(ms) : m = Max(S)
      BY <2>6
    <2>2. [i \in DOMAIN ms |-> i][Max(S)] = m
      BY <1>9, <2>1
    <2>3. Op("spread", arg, ms, m, acc) =
             IF m \in Gate!Kept(ms) /\ acc[m] = "target" THEN Gate!Spread(ms, acc, m) ELSE acc
      BY DEF Op
    <2> QED
      BY <2>1, <2>2, <2>3
  <1>3. ASSUME NEW g
        PROVE  IterSpread(g, ms, first) <=> Iter("spread", arg, g, first, ms, 1..Len(ms))
    <2>1. ASSUME NEW S \in SUBSET (1..Len(ms))
          PROVE  (IF S = {} THEN first ELSE IF [i \in DOMAIN ms |-> i][Max(S)] \in Gate!Kept(ms) /\ g[S \ {Max(S)}][[i \in DOMAIN ms |-> i][Max(S)]] = "target" THEN Gate!Spread(ms, g[S \ {Max(S)}], [i \in DOMAIN ms |-> i][Max(S)]) ELSE g[S \ {Max(S)}]) =
                 (IF S = {} THEN first ELSE Op("spread", arg, ms, Max(S), g[S \ {Max(S)}]))
      BY <1>a
    <2>2. SUBSET (DOMAIN [i \in DOMAIN ms |-> i]) = SUBSET (1..Len(ms))
      BY <1>9
    <2>3. [S \in SUBSET (DOMAIN [i \in DOMAIN ms |-> i]) |-> IF S = {} THEN first ELSE IF [i \in DOMAIN ms |-> i][Max(S)] \in Gate!Kept(ms) /\ g[S \ {Max(S)}][[i \in DOMAIN ms |-> i][Max(S)]] = "target" THEN Gate!Spread(ms, g[S \ {Max(S)}], [i \in DOMAIN ms |-> i][Max(S)]) ELSE g[S \ {Max(S)}]] =
          [S \in SUBSET (1..Len(ms)) |->
             IF S = {} THEN first ELSE Op("spread", arg, ms, Max(S), g[S \ {Max(S)}])]
      BY <2>1, <2>2, Zenon
    <2> QED
      BY <2>3, Zenon DEF IterSpread, Iter
  <1>4. \E g : Iter("spread", arg, g, first, ms, 1..Len(ms))
    BY <1>1, IterExists
  <1>5. PICK g : g = CHOOSE h : IterSpread(h, ms, first)
    OBVIOUS
  <1>6. Iter("spread", arg, g, first, ms, 1..Len(ms))
    BY <1>3, <1>4, <1>5
  <1> DEFINE n == Len(ms)
  <1>7. n \in Nat /\ Iter("spread", arg, g, first, ms, 1..n)
    BY <1>1, <1>6
  <1> HIDE DEF n
  <1>8. Walks("spread", arg, first, ms, n, g[1..n])
    BY <1>7, IterSteps
  <1> QED
    BY <1>1, <1>2, <1>5, <1>8, <1>9 DEF n

-----------------------------------------------------------------------------
(* Answers that are computed without a loop                                *)

\* A refused dispatch leaves nothing behind, and a promised one runs.
LEMMA DispatchIsAccounted ==
    ASSUME NEW call, call.blank \in BOOLEAN, NEW env
    PROVE  Gateway!DispatchAccounted(call, env, Gateway!Coworker(call, env))
  BY DEF Gateway!DispatchAccounted, Gateway!Coworker, Gateway!Refused

\* The task tool changes the records it was asked to change.
LEMMA TaskToolIsExact ==
    ASSUME NEW call, NEW env, env.config \in BOOLEAN,
           NEW disk, NEW S \in SUBSET Nat, disk \in [S -> Records]
    PROVE  Gateway!TaskToolExact(call, env, disk, Gateway!TaskTool(call, env, disk))
  BY DEF Gateway!TaskToolExact, Gateway!TaskTool, Gateway!TaskAction, Gateway!Answer, Gateway!CancelAll, Gateway!CancelOne, Gateway!Cancelled, Gateway!PidsOf, Gateway!ExtendLease, Gateway!Live, Gateway!Terminals, Records

\* The message that goes back is the one the engine gave.
LEMMA RepliesSentBack ==
    ASSUME NEW reply \in Client!ReplyBodies, NEW config, config.url \in BOOLEAN, config.model \in BOOLEAN, NEW net
    PROVE  Client!ReplySentBack(reply, Client!Chat(config, net, reply))
  <1> DEFINE done == Client!Chat(config, net, reply)
             calls == [i \in DOMAIN reply.calls |->
                       [index |-> i - 1, id |-> Client!Text(reply.calls[i].id),
                        name |-> Client!Text(reply.calls[i].name), args |-> Client!Text(reply.calls[i].args)]]
             content == Client!Text(reply.content)
             sent == IF content = "" THEN "null" ELSE content
             again == Client!Wire(Client!AssistantMessage(done))
             wired == [i \in DOMAIN calls |-> [id |-> calls[i].id, name |-> calls[i].name, args |-> calls[i].args]]
  <1> SUFFICES ASSUME done.error = "none" PROVE Client!ReplySentBack(reply, done)
    BY DEF Client!ReplySentBack
  <1>1. done = [error |-> "none", content |-> content, calls |-> calls]
    BY Zenon DEF Client!Chat, Client!ParseReply
  <1>2. again = [role |-> "assistant", content |-> sent, calls |-> wired, answers |-> "absent"]
    BY <1>1 DEF Client!Wire, Client!AssistantMessage
  <1>3. ASSUME NEW x PROVE Client!Text(Client!Text(x)) = Client!Text(x)
    BY Zenon DEF Client!Text
  <1>4. Client!Text(sent) = content
    BY <1>3, Zenon DEF Client!Text
  <1>5. DOMAIN reply.calls = 1..Len(reply.calls) /\ Len(reply.calls) \in Nat
    BY DEF Client!ReplyBodies
  <1>6. Len(wired) = Len(reply.calls)
    BY <1>5
  <1>7. Client!ParseReply([shape |-> "choices", content |-> sent, calls |-> wired]).calls
        = [i \in DOMAIN wired |->
                       [index |-> i - 1, id |-> Client!Text(wired[i].id),
                        name |-> Client!Text(wired[i].name), args |-> Client!Text(wired[i].args)]]
    BY DEF Client!ParseReply
  <1>8. @ = calls
    <2>1. DOMAIN wired = DOMAIN reply.calls
      OBVIOUS
    <2>2. ASSUME NEW i \in DOMAIN reply.calls
          PROVE  /\ Client!Text(wired[i].id) = calls[i].id
                 /\ Client!Text(wired[i].name) = calls[i].name
                 /\ Client!Text(wired[i].args) = calls[i].args
                 /\ calls[i] = [index |-> i - 1, id |-> calls[i].id, name |-> calls[i].name,
                                args |-> calls[i].args]
      BY <1>3, Zenon
    <2> HIDE DEF wired
    <2>3. calls = [i \in DOMAIN reply.calls |-> calls[i]]
      OBVIOUS
    <2> HIDE DEF calls
    <2> QED
      BY <2>1, <2>2, <2>3
  <1>9. \A i \in DOMAIN reply.calls :
                 /\ wired[i].id = Client!Text(reply.calls[i].id)
                 /\ wired[i].name = Client!Text(reply.calls[i].name)
                 /\ wired[i].args = Client!Text(reply.calls[i].args)
    BY Zenon
  <1> HIDE DEF wired, calls, sent, content
  <1>a. again.calls = wired /\ again.content = sent /\ done.calls = calls
    BY <1>1, <1>2
  <1> HIDE DEF again, done
  <1> QED
    BY <1>a, <1>9, <1>7, <1>8, <1>6, <1>4 DEF Client!ReplySentBack, again, content

\* A field has the value of its highest layer.
LEMMA LayersAreExact ==
    ASSUME NEW env \in [Config!Fields -> Config!EnvValues], NEW file \in Config!ConfigurationFiles
    PROVE  Config!LayersExact(env, file, Config!Load(env, file))
  <1> DEFINE loaded == Config!Load(env, file)
  <1>1. loaded.error = "none" =>
           loaded.from = [f \in Config!Fields |-> Config!Pick(env, file.fields, f)]
    BY DEF Config!Load, Config!ConfigurationFiles
  <1>2. loaded.error # "none" <=>
          \/ file.state \in {"unreadable", "corrupt"}
          \/ \E f \in Config!Numbers : env[f] = "bad"
    BY DEF Config!Load, Config!ConfigurationFiles
  <1>3. ASSUME loaded.error = "none", NEW f \in Config!Fields
        PROVE  /\ loaded.from[f] = Config!Highest(env, file.fields, f)
               /\ Config!Shown(loaded, f) = "value" => f \notin Config!Secrets
               /\ Config!Shown(loaded, f) = "<unset>" <=>
                    f \in Config!Optional /\ Config!Highest(env, file.fields, f) = "default"
    <2>1. loaded.from[f] = Config!Pick(env, file.fields, f)
      BY <1>1, <1>3
    <2>2. Config!Highest(env, file.fields, f) = Config!Pick(env, file.fields, f)
      <3> DEFINE layers == (IF env[f] \in {"good", "bad"} THEN {1} ELSE {})
                  \cup (IF f \in file.fields THEN {2} ELSE {}) \cup {3}
                 n == CHOOSE k \in layers : \A m \in layers : m \notin 1..k - 1
      <3>1. layers \subseteq {1, 2, 3} /\ 3 \in layers
        OBVIOUS
      <3>2. \E k \in layers : \A m \in layers : m \notin 1..k - 1
        OBVIOUS
      <3>3. n \in layers /\ \A m \in layers : m \notin 1..n - 1
        BY <3>2
      <3>4. n = IF env[f] \in {"good", "bad"} THEN 1 ELSE IF f \in file.fields THEN 2 ELSE 3
        BY <3>3
      <3>5. Config!Highest(env, file.fields, f) = <<"env", "file", "default">>[n]
        BY DEF Config!Highest
      <3> HIDE DEF n
      <3> QED
        BY <3>4, <3>5 DEF Config!Pick, Config!EnvHas
    <2>3. Config!Pick(env, file.fields, f) \in {"env", "file", "default"}
      BY DEF Config!Pick
    <2> QED
      BY <2>1, <2>2, <2>3 DEF Config!Shown, Config!Optional, Config!Secrets
  <1> QED
    BY <1>2, <1>3 DEF Config!LayersExact

\* Installing adds one server and takes away only what it cannot read.
LEMMA MergesKeep ==
    ASSUME NEW client, NEW S, NEW files \in [S -> Config!InstallFiles],
           S = {"claude", "antigravity"}, NEW broken
    PROVE  Config!MergeKeeps(client, files, Config!Install(client, files, broken))
  <1> DEFINE result == Config!Install(client, files, broken)
  <1>1. ASSUME NEW c \in S
        PROVE  /\ result.files[c] \in {files[c], Config!Merged(files[c])}
               /\ result.ok /\ client \in {c, "all"} => result.files[c] = Config!Merged(files[c])
               /\ client \notin {c, "all"} => result.files[c] = files[c]
    <2> DEFINE targets == CASE client = "all" -> <<"antigravity", "claude">>
                            [] client \in {"claude", "antigravity"} -> <<client>>
                            [] OTHER -> <<>>
               done == {x \in DOMAIN files :
                   \E i \in DOMAIN targets :
                      targets[i] = x /\ \A j \in 1..i : targets[j] \notin broken}
    <2>1. /\ result.files[c] = IF c \in done THEN Config!Merged(files[c]) ELSE files[c]
          /\ result.ok <=> targets # <<>> /\ \A i \in DOMAIN targets : targets[i] \notin broken
      BY Zenon DEF Config!Install
    <2>2. /\ client \notin {c, "all"} => \A i \in DOMAIN targets : targets[i] # c
          /\ client \in {c, "all"} => \E i \in DOMAIN targets : targets[i] = c
          /\ \A i \in DOMAIN targets : 1..i \subseteq DOMAIN targets
      OBVIOUS
    <2>3. c \in DOMAIN files
      OBVIOUS
    <2> HIDE DEF targets
    <2> QED
      BY <2>1, <2>2, <2>3
  <1>2. ASSUME NEW c \in S
        PROVE  /\ files[c].keys \subseteq Config!Merged(files[c]).keys
                    \/ files[c].state \in Config!NoObject
               /\ files[c].servers \subseteq Config!Merged(files[c]).servers
                    \/ Config!Unmergeable(files[c])
               /\ "castor" \in Config!Merged(files[c]).servers
               /\ Config!Merged(Config!Merged(files[c])) = Config!Merged(files[c])
               /\ files[c].state \in Config!NoObject => Config!Merged(files[c]).keys = {}
               /\ Config!Unmergeable(files[c]) => Config!Merged(files[c]).servers = {"castor"}
    BY DEF Config!Merged, Config!Kept, Config!Empty, Config!InstallFiles, Config!Unmergeable,
           Config!NoObject
  <1> QED
    BY <1>1, <1>2 DEF Config!MergeKeeps

\* A report is an error exactly where a check could not be evaluated.
LEMMA OutcomesExact ==
    ASSUME NEW task, task.checks \in Seq(Range(task.checks)), NEW variant
    PROVE  Harness!OutcomeExact(Harness!RunTask(task, variant))
  <1> DEFINE steps == IF variant = "golden" THEN task.steps ELSE task.knownSteps
             statuses == [i \in DOMAIN task.checks |-> Harness!ScoreCheck(task.checks[i], steps)]
             report == Harness!RunTask(task, variant)
  <1>1. \/ report = [outcome |-> "Error", checks |-> <<>>]
        \/ report = [outcome |-> Harness!DetermineOutcome(statuses), checks |-> statuses]
    BY DEF Harness!RunTask
  <1>2. ASSUME NEW c PROVE Harness!ScoreCheck(c, steps) \in {"Error", "Pass", "Fail"}
    BY DEF Harness!ScoreCheck
  <1>3. Harness!Range(statuses) \subseteq {"Error", "Pass", "Fail"}
    BY <1>2 DEF Harness!Range
  <1>5. Harness!Range(<<>>) = {}
    BY DEF Harness!Range
  <1> HIDE DEF statuses
  <1>6. CASE report = [outcome |-> "Error", checks |-> <<>>]
    BY <1>6, <1>5 DEF Harness!OutcomeExact
  <1>7. CASE report = [outcome |-> Harness!DetermineOutcome(statuses), checks |-> statuses]
    <2>1. statuses = <<>> => Harness!DetermineOutcome(statuses) = "Pass"
      BY <1>5 DEF Harness!DetermineOutcome
    <2> QED
      BY <1>7, <1>3 DEF Harness!OutcomeExact, Harness!DetermineOutcome
  <1> QED
    BY <1>1, <1>6, <1>7

\* The exit code tells whether a command did what was asked.
LEMMA ExitsHonest ==
    ASSUME NEW cmd \in AllCommands, NEW env, env.locked \in BOOLEAN, env.yes \in BOOLEAN
    PROVE  Commands!ExitHonest(cmd, env, Commands!RunCommand(cmd, env))
  BY DEF Commands!ExitHonest, Commands!RunCommand, Commands!Exit, AllCommands, Commands!Configured

\* What evo run reports as committed is in the lineage.
LEMMA CommitsReported ==
    ASSUME NEW dirs, "error" \notin dirs, NEW override, override # "error", NEW broken
    PROVE  Commands!CommitReported(override, dirs, Commands!EvoRun(override, dirs, broken))
  BY DEF Commands!CommitReported, Commands!EvoRun, Commands!ResolveEvals

-----------------------------------------------------------------------------
(* The gate on delegated prompts                                           *)

Mentions ==
    [tail : STRING, alias : Nat, test : BOOLEAN, subsystem : STRING,
     before : SUBSET STRING, colon : BOOLEAN, sep : STRING]

AllRoles == {"target", "ref", "plain"}

\* The mentions that have the role of a target.
TargetsOf(ms, roles) == {i \in Gate!Kept(ms) : roles[i] = "target"}

FirstTargets(ms) == {i \in Gate!Kept(ms) : Gate!FirstRole(ms[i]) = "target"}

\* p is the kept mention before l.
IsPrev(ms, p, l) ==
    /\ p \in Gate!Kept(ms) /\ p < l
    /\ \A m \in Gate!Kept(ms) : m < l => m <= p

\* A mention has one role by its context.
LEMMA FirstRoleIs ==
    ASSUME NEW m
    PROVE  Gate!FirstRole(m) \in AllRoles
  <1>1. PICK a, b : a = (m.colon \/ ("build" \in m.before /\ "read" \notin m.before))
                    /\ b = (~m.colon /\ ("read" \in m.before \/ (m.test /\ "build" \notin m.before)))
    OBVIOUS
  <1>2. Gate!FirstRole(m) = CASE a -> "target" [] b -> "ref" [] OTHER -> "plain"
    BY <1>1, Zenon DEF Gate!FirstRole
  <1> QED
    BY <1>2 DEF AllRoles

\* There is one mention before a mention.
LEMMA PrevIs ==
    ASSUME NEW n \in Nat, NEW ms, Gate!Kept(ms) \subseteq 1..n, NEW p, NEW l \in 1..n, IsPrev(ms, p, l)
    PROVE  (CHOOSE k \in Gate!Kept(ms) : k < l /\ \A m \in Gate!Kept(ms) : m < l => m <= k) = p
  <1>1. PICK q : q = CHOOSE k \in Gate!Kept(ms) : k < l /\ \A m \in Gate!Kept(ms) : m < l => m <= k
    OBVIOUS
  <1>2. q \in Gate!Kept(ms) /\ q < l /\ \A m \in Gate!Kept(ms) : m < l => m <= q
    BY <1>1, Zenon DEF IsPrev
  <1>3. q <= p /\ p <= q /\ p \in 1..n /\ q \in 1..n
    BY <1>2, Zenon DEF IsPrev
  <1>4. p = q
    BY <1>3
  <1> QED
    BY <1>1, <1>4, Zenon

\* What the list carries on from a wanted mention is wanted.
LEMMA WantedGrows ==
    ASSUME NEW n \in Nat, NEW ms, Gate!Kept(ms) \subseteq 1..n,
           NEW p \in Gate!Wanted(ms), NEW l \in Gate!Kept(ms), IsPrev(ms, p, l), Gate!Continues(ms, p, l)
    PROVE  l \in Gate!Wanted(ms)
  <1>1. p \in 1..n /\ l \in 1..n /\ p < l
    BY Zenon DEF IsPrev
  <1>2. PICK i \in Gate!Kept(ms) :
            /\ i <= p
            /\ Gate!FirstRole(ms[i]) = "target"
            /\ \A h \in {k \in Gate!Kept(ms) : i < k /\ k <= p /\ Gate!FirstRole(ms[k]) # "target"} :
                 Gate!Continues(ms, CHOOSE k \in Gate!Kept(ms) :
                                  k < h /\ \A m \in Gate!Kept(ms) : m < h => m <= k, h)
    BY Zenon DEF Gate!Wanted
  <1>3. i \in 1..n /\ i <= l
    <2>1. i \in 1..n
      BY Zenon
    <2> QED
      BY <1>1, <1>2, <2>1
  <1>4. ASSUME NEW h \in {k \in Gate!Kept(ms) : i < k /\ k <= l /\ Gate!FirstRole(ms[k]) # "target"}
        PROVE  Gate!Continues(ms, CHOOSE k \in Gate!Kept(ms) :
                                  k < h /\ \A m \in Gate!Kept(ms) : m < h => m <= k, h)
    <2>1. h \in Gate!Kept(ms) /\ i < h /\ h <= l /\ Gate!FirstRole(ms[h]) # "target" /\ h \in 1..n
      BY <1>4, Zenon
    <2>2. CASE h = l
      BY <1>1, <2>2, PrevIs, Zenon
    <2>3. CASE h # l
      <3>1. h < l
        BY <1>1, <2>1, <2>3
      <3>2. h <= p
        BY <2>1, <3>1, Zenon DEF IsPrev
      <3> QED
        BY <1>2, <2>1, <3>2, Zenon
    <2> QED
      BY <2>2, <2>3, Zenon
  <1> QED
    BY <1>2, <1>3, <1>4, Zenon DEF Gate!Wanted

\* One step of a walk.
LEMMA PassIs ==
    ASSUME NEW ms, NEW i \in Nat, NEW k \in Nat, NEW ro, NEW la, NEW go \in BOOLEAN
    PROVE  Gate!Pass(ms, i, [roles |-> ro, last |-> la, goes |-> go], k) =
             IF k <= i \/ k \notin Gate!Kept(ms) \/ ~go THEN [roles |-> ro, last |-> la, goes |-> go]
             ELSE IF ro[k] = "target" THEN [roles |-> ro, last |-> k, goes |-> go]
             ELSE IF Gate!Continues(ms, la, k) THEN [roles |-> [ro EXCEPT ![k] = "target"], last |-> k, goes |-> go]
             ELSE [roles |-> ro, last |-> la, goes |-> FALSE]
  <1>1. PICK w : w = [roles |-> ro, last |-> la, goes |-> go]
    BY Zenon
  <1>2. /\ w.roles = ro /\ w.last = la /\ w.goes = go
        /\ [w EXCEPT !.last = k] = [roles |-> ro, last |-> k, goes |-> go]
        /\ [w EXCEPT !.goes = FALSE] = [roles |-> ro, last |-> la, goes |-> FALSE]
        /\ [w EXCEPT !.roles[k] = "target", !.last = k] = [roles |-> [ro EXCEPT ![k] = "target"], last |-> k, goes |-> go]
    <2>1. w.roles = ro
      BY <1>1, Zenon
    <2>2. w.last = la
      BY <1>1, Zenon
    <2>3. w.goes = go
      BY <1>1, Zenon
    <2>4. [w EXCEPT !.last = k] = [roles |-> ro, last |-> k, goes |-> go]
      BY <1>1
    <2>5. [w EXCEPT !.goes = FALSE] = [roles |-> ro, last |-> la, goes |-> FALSE]
      <3>1. \A x : [w EXCEPT !.goes = x] = [roles |-> ro, last |-> la, goes |-> x]
        BY <1>1
      <3> QED
        BY <3>1, Zenon
    <2>6. [w EXCEPT !.roles[k] = "target", !.last = k] = [roles |-> [ro EXCEPT ![k] = "target"], last |-> k, goes |-> go]
      <3>1. \A x : [w EXCEPT !.roles = x] = [roles |-> x, last |-> la, goes |-> go]
        BY <1>1
      <3>2. \A x, y : [[roles |-> x, last |-> la, goes |-> y] EXCEPT !.last = k] = [roles |-> x, last |-> k, goes |-> y]
        OBVIOUS
      <3>3. PICK x : x = [w.roles EXCEPT ![k] = "target"]
        BY Zenon
      <3>4. x = [ro EXCEPT ![k] = "target"]
        BY <2>1, <3>3, Zenon
      <3>5. [w EXCEPT !.roles = [w.roles EXCEPT ![k] = "target"]] = [roles |-> x, last |-> la, goes |-> go]
        BY <3>1, <3>3, Zenon
      <3>6. [w EXCEPT !.roles[k] = "target", !.last = k] = [roles |-> x, last |-> k, goes |-> go]
        BY <3>2, <3>5, Zenon
      <3> QED
        BY <3>4, <3>6, Zenon
    <2> QED
      BY <2>1, <2>2, <2>3, <2>4, <2>5, <2>6
  <1>3. CASE k <= i \/ k \notin Gate!Kept(ms) \/ ~go
    <2>1. ~(k > i /\ k \in Gate!Kept(ms) /\ w.goes)
      BY <1>2, <1>3
    <2>2. Gate!Pass(ms, i, w, k) = w
      BY <1>2, <1>3, <2>1, Zenon DEF Gate!Pass
    <2> QED
      BY <1>1, <1>3, <2>2, Zenon
  <1>4. CASE ~(k <= i \/ k \notin Gate!Kept(ms) \/ ~go)
    <2>1. k > i /\ k \in Gate!Kept(ms) /\ go
      BY <1>4
    <2>2. Gate!Pass(ms, i, w, k) =
            IF ro[k] = "target" THEN [w EXCEPT !.last = k]
            ELSE IF Gate!Continues(ms, la, k) THEN [w EXCEPT !.roles[k] = "target", !.last = k]
            ELSE [w EXCEPT !.goes = FALSE]
      BY <1>2, <1>4, <2>1, Zenon DEF Gate!Pass
    <2> QED
      BY <1>1, <1>2, <1>4, <2>2, Zenon
  <1> QED
    BY <1>3, <1>4, Zenon

\* The targets are those asked for, or more, and all of them are wanted.
SoundRoles(ms, roles) ==
    /\ roles \in [Gate!Kept(ms) -> AllRoles]
    /\ FirstTargets(ms) \subseteq TargetsOf(ms, roles)
    /\ TargetsOf(ms, roles) \subseteq Gate!Wanted(ms)

\* A walk from a mention changes nothing before it, and unmakes no target.
OnlyAfter(ms, from, before, after) ==
    \A m \in Gate!Kept(ms) :
        /\ m <= from => after[m] = before[m]
        /\ before[m] = "target" => after[m] = "target"

\* The mention after one that is a target, where it continues the list, is one too.
Followed(ms, from, k, roles) ==
    \A l \in Gate!Kept(ms) :
        l <= k /\ IsPrev(ms, from, l) /\ Gate!Continues(ms, from, l) => roles[l] = "target"

\* The walk from a target over the first k mentions: it stands at the last one of the
\* list, as long as it goes on.
Went(ms, from, first, k, ro, la, go) ==
    /\ SoundRoles(ms, ro) /\ OnlyAfter(ms, from, first, ro)
    /\ la \in Gate!Kept(ms) /\ ro[la] = "target"
    /\ from <= la
    /\ la <= k \/ la = from
    /\ go => \A m \in Gate!Kept(ms) : m <= k => m <= la
    /\ (\A m \in Gate!Kept(ms) : from < m => k < m) => go /\ la = from
    /\ Followed(ms, from, k, ro)

\* The last of the first k + 1 numbers, or one of the first k.
LEMMA UpTo ==
    ASSUME NEW n \in Nat, NEW k \in 0..n
    PROVE  /\ \A m \in 1..n : m <= k + 1 <=> m <= k \/ m = k + 1
           /\ \A m \in 1..n : m < k + 1 <=> m <= k
           /\ \A m \in 1..n : k + 1 < m => k < m
           /\ \A m \in 1..n : k < m <=> ~(m <= k)
           /\ \A a, b \in 1..n : ~(a <= b) <=> b < a
           /\ \A a \in 1..n : a <= a
  OBVIOUS

\* A new target is one more.
LEMMA RoleGiven ==
    ASSUME NEW K, NEW ro \in [K -> AllRoles], NEW k \in K, NEW new, new = [ro EXCEPT ![k] = "target"]
    PROVE  /\ new \in [K -> AllRoles] /\ new[k] = "target"
           /\ \A m \in K : m # k => new[m] = ro[m]
  BY DEF AllRoles

\* A step of a walk in which the walk stands still.
LEMMA WalkStands ==
    ASSUME NEW n \in Nat, NEW ms, Gate!Kept(ms) \subseteq 1..n, NEW from \in Gate!Kept(ms), NEW first,
           NEW k \in 0..n, k < n, NEW ro, NEW la, NEW go \in BOOLEAN,
           Went(ms, from, first, k, ro, la, go), k + 1 <= from \/ k + 1 \notin Gate!Kept(ms) \/ ~go
    PROVE  Went(ms, from, first, k + 1, ro, la, go)
  <1> DEFINE K == Gate!Kept(ms)
  <1>1. /\ SoundRoles(ms, ro) /\ OnlyAfter(ms, from, first, ro)
        /\ la \in K /\ ro[la] = "target" /\ from <= la /\ (la <= k \/ la = from)
        /\ go => \A m \in K : m <= k => m <= la
        /\ (\A m \in K : from < m => k < m) => go /\ la = from
        /\ Followed(ms, from, k, ro)
    BY Zenon DEF Went
  <1>2. PICK k1 \in Nat : k1 = k + 1 /\ k1 \in 1..n
    OBVIOUS
  <1>3. la <= k1 \/ la = from
    BY <1>1, <1>2
  <1>4. ASSUME go, NEW m \in K, m <= k1 PROVE m <= la
    <2>1. CASE m = k1
      <3>1. k1 <= from
        BY <1>2, <1>4, <2>1, Zenon
      <3> QED
        BY <1>1, <2>1, <3>1
    <2>2. CASE m # k1
      <3>1. m <= k
        BY <1>2, <1>4, <2>2
      <3> QED
        BY <1>1, <1>4, <3>1, Zenon
    <2> QED
      BY <2>1, <2>2
  <1>5. (\A m \in K : from < m => k1 < m) => go /\ la = from
    <2>1. \A m \in K : k1 < m => k < m
      BY <1>2
    <2> QED
      BY <1>1, <2>1, Zenon
  <1>6. ASSUME NEW l \in K, l <= k1, IsPrev(ms, from, l), Gate!Continues(ms, from, l) PROVE ro[l] = "target"
    <2>1. CASE l = k1
      <3>1. \A m \in K : from < m => k < m
        <4>1. \A m \in K : m < l => m <= from
          BY <1>6, Zenon DEF IsPrev
        <4>2. \A m \in K : m \in 1..n
          BY Zenon
        <4>3. \A m \in 1..n : from < m /\ ~(k < m) => m < l /\ ~(m <= from)
          BY <1>2, <2>1
        <4> QED
          BY <4>1, <4>2, <4>3, Zenon
      <3>2. go
        BY <1>1, <3>1, Zenon
      <3>3. from < k1
        BY <1>6, <2>1, Zenon DEF IsPrev
      <3>4. ~(k1 <= from)
        BY <1>2, <3>3
      <3> QED
        BY <1>2, <2>1, <3>2, <3>4, Zenon
    <2>2. CASE l # k1
      <3>1. l <= k
        BY <1>2, <1>6, <2>2
      <3> QED
        BY <1>1, <1>6, <3>1, Zenon DEF Followed
    <2> QED
      BY <2>1, <2>2, Zenon
  <1>7. Followed(ms, from, k1, ro)
    BY <1>6, Zenon DEF Followed
  <1> QED
    BY <1>1, <1>2, <1>3, <1>4, <1>5, <1>7, Zenon DEF Went

\* A step of a walk on to the next mention, a target already or one that continues
\* the list, and a step at which the list ends.
LEMMA WalkSteps ==
    ASSUME NEW n \in Nat, NEW ms, Gate!Kept(ms) \subseteq 1..n, NEW from \in Gate!Kept(ms), NEW first,
           NEW k \in 0..n, k < n, NEW ro, NEW la,
           Went(ms, from, first, k, ro, la, TRUE), ~(k + 1 <= from), k + 1 \in Gate!Kept(ms)
    PROVE  /\ ro[k + 1] = "target" => Went(ms, from, first, k + 1, ro, k + 1, TRUE)
           /\ ro[k + 1] # "target" /\ Gate!Continues(ms, la, k + 1) =>
                 Went(ms, from, first, k + 1, [ro EXCEPT ![k + 1] = "target"], k + 1, TRUE)
           /\ ro[k + 1] # "target" /\ ~Gate!Continues(ms, la, k + 1) =>
                 Went(ms, from, first, k + 1, ro, la, FALSE)
  <1> DEFINE K == Gate!Kept(ms)
  <1>1. /\ SoundRoles(ms, ro) /\ OnlyAfter(ms, from, first, ro)
        /\ la \in K /\ ro[la] = "target" /\ from <= la /\ (la <= k \/ la = from)
        /\ \A m \in K : m <= k => m <= la
        /\ (\A m \in K : from < m => k < m) => la = from
        /\ Followed(ms, from, k, ro)
    BY Zenon DEF Went
  <1>2. PICK k1 \in K : k1 = k + 1 /\ k1 \in 1..n
    OBVIOUS
  <1>3. from < k1 /\ from <= k1 /\ k1 <= k1 /\ la <= k1 /\ la < k1
    <2>1. from \in 1..n /\ la \in 1..n
      BY <1>1, Zenon
    <2> QED
      BY <1>1, <1>2, <2>1
  <1>4. \A m \in K : m <= k1 => m <= k \/ m = k1
    BY <1>2
  <1>5. ~(\A m \in K : from < m => k1 < m)
    <2>1. ~(k1 < k1)
      BY <1>2
    <2> QED
      BY <1>2, <1>3, <2>1, Zenon
  <1>6. IsPrev(ms, la, k1)
    <2>1. \A m \in K : m < k1 => m <= k
      BY <1>2
    <2> QED
      BY <1>1, <1>3, <2>1, Zenon DEF IsPrev
  <1>7. ASSUME ro[k1] = "target" PROVE Went(ms, from, first, k1, ro, k1, TRUE)
    <2>1. Followed(ms, from, k1, ro)
      BY <1>1, <1>4, <1>7, Zenon DEF Followed
    <2> QED
      BY <1>1, <1>2, <1>3, <1>5, <1>7, <2>1, Zenon DEF Went
  <1>8. ASSUME ro[k1] # "target", Gate!Continues(ms, la, k1), NEW new, new = [ro EXCEPT ![k1] = "target"]
        PROVE  Went(ms, from, first, k1, new, k1, TRUE)
    <2>1. /\ new \in [K -> AllRoles] /\ new[k1] = "target"
          /\ \A m \in K : m # k1 => new[m] = ro[m]
      BY <1>1, <1>8, RoleGiven, Zenon DEF SoundRoles
    <2>2. k1 \in Gate!Wanted(ms)
      <3>1. la \in Gate!Wanted(ms)
        <4>1. la \in TargetsOf(ms, ro)
          BY <1>1, Zenon DEF TargetsOf
        <4>2. TargetsOf(ms, ro) \subseteq Gate!Wanted(ms)
          BY <1>1, Zenon DEF SoundRoles
        <4> QED
          BY <4>1, <4>2, Zenon
      <3> QED
        BY <1>6, <1>8, <3>1, WantedGrows, Zenon
    <2>3. SoundRoles(ms, new)
      BY <1>1, <1>8, <2>1, <2>2, Zenon DEF SoundRoles, TargetsOf
    <2>4. OnlyAfter(ms, from, first, new)
      <3>1. ~(k1 <= from)
        BY <1>2, Zenon
      <3> QED
        BY <1>1, <2>1, <3>1, Zenon DEF OnlyAfter
    <2>5. Followed(ms, from, k1, new)
      BY <1>1, <1>4, <2>1, Zenon DEF Followed
    <2> QED
      BY <1>2, <1>3, <1>5, <2>1, <2>3, <2>4, <2>5, Zenon DEF Went
  <1>9. ASSUME ro[k1] # "target", ~Gate!Continues(ms, la, k1) PROVE Went(ms, from, first, k1, ro, la, FALSE)
    <2>1. ASSUME IsPrev(ms, from, k1) PROVE la = from
      <3>1. \A m \in K : m < k1 => m <= from
        BY <2>1, Zenon DEF IsPrev
      <3>2. \A m \in 1..n : from < m /\ ~(k < m) => m < k1 /\ ~(m <= from)
        BY <1>2
      <3>3. \A m \in K : from < m => k < m
        BY <3>1, <3>2, Zenon
      <3> QED
        BY <1>1, <3>3, Zenon
    <2>2. Followed(ms, from, k1, ro)
      BY <1>1, <1>4, <1>9, <2>1, Zenon DEF Followed
    <2> QED
      BY <1>1, <1>3, <1>5, <2>2, Zenon DEF Went
  <1> QED
    BY <1>2, <1>7, <1>8, <1>9, Zenon

\* What a walk leaves.
LEMMA WalkLeaves ==
    ASSUME NEW A, NEW ms \in Seq(A), NEW n \in Nat, n = Len(ms), Gate!Kept(ms) \subseteq 1..n,
           NEW from \in Gate!Kept(ms), NEW roles, SoundRoles(ms, roles), roles[from] = "target"
    PROVE  /\ SoundRoles(ms, Gate!Spread(ms, roles, from))
           /\ OnlyAfter(ms, from, roles, Gate!Spread(ms, roles, from))
           /\ Followed(ms, from, n, Gate!Spread(ms, roles, from))
  <1> DEFINE K == Gate!Kept(ms)
  <1>1. PICK r : /\ r[0] = [roles |-> roles, last |-> from, goes |-> TRUE] /\ r[n] = Gate!Walk(ms, from, roles)
                 /\ \A i \in 1..n : r[i] = Op("pass", from, ms, i, r[i - 1])
    <2>1. Walks("pass", from, [roles |-> roles, last |-> from, goes |-> TRUE], ms, Len(ms), Gate!Walk(ms, from, roles))
      BY PassWalks
    <2>2. Walks("pass", from, [roles |-> roles, last |-> from, goes |-> TRUE], ms, n, Gate!Walk(ms, from, roles))
      BY <2>1, Zenon
    <2> QED
      BY <2>2, Zenon DEF Walks
  <1> DEFINE P == {k \in 0..n : \E ro, la : \E go \in BOOLEAN :
                        /\ r[k] = [roles |-> ro, last |-> la, goes |-> go]
                        /\ Went(ms, from, roles, k, ro, la, go)}
  <1>2. 0 \in P
    <2>1. 0 \in 0..n /\ \A m \in 1..n : ~(m <= 0) /\ 0 < m /\ m <= m
      OBVIOUS
    <2>2. OnlyAfter(ms, from, roles, roles) /\ Followed(ms, from, 0, roles)
      BY <2>1, Zenon DEF OnlyAfter, Followed
    <2>3. from <= from /\ \A m \in K : ~(m <= 0)
      BY <2>1, Zenon
    <2>4. Went(ms, from, roles, 0, roles, from, TRUE)
      BY <2>2, <2>3, Zenon DEF Went
    <2> QED
      BY <1>1, <2>1, <2>4, Zenon
  <1>3. ASSUME NEW k \in 0..n, k < n, k \in P PROVE k + 1 \in P
    <2>1. k + 1 \in 1..n /\ k + 1 \in 0..n /\ (k + 1) - 1 = k /\ k + 1 \in Nat /\ from \in Nat
      BY <1>3, NextIn
    <2>0. PICK ro, la : \E go \in BOOLEAN :
              /\ r[k] = [roles |-> ro, last |-> la, goes |-> go]
              /\ Went(ms, from, roles, k, ro, la, go)
      BY <1>3, Zenon
    <2>2. PICK go \in BOOLEAN :
              /\ r[k] = [roles |-> ro, last |-> la, goes |-> go]
              /\ Went(ms, from, roles, k, ro, la, go)
      BY <2>0, Zenon
    <2>3. r[k + 1] = Gate!Pass(ms, from, [roles |-> ro, last |-> la, goes |-> go], k + 1)
      BY <1>1, <2>1, <2>2, Zenon DEF Op
    <2> DEFINE k1 == k + 1
    <2>7. Gate!Pass(ms, from, [roles |-> ro, last |-> la, goes |-> go], k1) =
             IF k1 <= from \/ k1 \notin Gate!Kept(ms) \/ ~go THEN [roles |-> ro, last |-> la, goes |-> go]
             ELSE IF ro[k1] = "target" THEN [roles |-> ro, last |-> k1, goes |-> go]
             ELSE IF Gate!Continues(ms, la, k1) THEN [roles |-> [ro EXCEPT ![k1] = "target"], last |-> k1, goes |-> go]
             ELSE [roles |-> ro, last |-> la, goes |-> FALSE]
      <3>1. k1 \in Nat
        BY <2>1
      <3> HIDE DEF k1
      <3> QED
        BY <2>1, <3>1, PassIs
    <2>4. CASE k + 1 <= from \/ k + 1 \notin K \/ ~go
      <3>1. r[k + 1] = [roles |-> ro, last |-> la, goes |-> go]
        BY <2>3, <2>4, <2>7, Zenon
      <3>2. Went(ms, from, roles, k + 1, ro, la, go)
        BY <1>3, <2>2, <2>4, WalkStands, Zenon
      <3> QED
        BY <2>1, <3>1, <3>2, Zenon
    <2>5. CASE ~(k + 1 <= from \/ k + 1 \notin K \/ ~go)
      <3>1. Went(ms, from, roles, k, ro, la, TRUE) /\ ~(k + 1 <= from) /\ k + 1 \in K /\ go = TRUE
        BY <2>2, <2>5, Zenon
      <3>2. /\ ro[k + 1] = "target" => Went(ms, from, roles, k + 1, ro, k + 1, TRUE)
            /\ ro[k + 1] # "target" /\ Gate!Continues(ms, la, k + 1) =>
                  Went(ms, from, roles, k + 1, [ro EXCEPT ![k + 1] = "target"], k + 1, TRUE)
            /\ ro[k + 1] # "target" /\ ~Gate!Continues(ms, la, k + 1) =>
                  Went(ms, from, roles, k + 1, ro, la, FALSE)
        BY <1>3, <3>1, WalkSteps, Zenon
      <3>3. r[k + 1] =
              IF ro[k + 1] = "target" THEN [roles |-> ro, last |-> k + 1, goes |-> TRUE]
              ELSE IF Gate!Continues(ms, la, k + 1) THEN [roles |-> [ro EXCEPT ![k + 1] = "target"], last |-> k + 1, goes |-> TRUE]
              ELSE [roles |-> ro, last |-> la, goes |-> FALSE]
        BY <2>3, <2>7, <3>1, Zenon
      <3>4. CASE ro[k + 1] = "target"
        BY <2>1, <3>2, <3>3, <3>4, Zenon
      <3>5. CASE ro[k + 1] # "target" /\ Gate!Continues(ms, la, k + 1)
        BY <2>1, <3>2, <3>3, <3>5, Zenon
      <3>6. CASE ro[k + 1] # "target" /\ ~Gate!Continues(ms, la, k + 1)
        BY <2>1, <3>2, <3>3, <3>6, Zenon
      <3> QED
        BY <3>4, <3>5, <3>6, Zenon
    <2> QED
      BY <2>4, <2>5, Zenon
  <1>4. n \in P
    <2>1. n \in 0..n
      OBVIOUS
    <2> HIDE DEF P
    <2> QED
      BY <1>2, <1>3, <2>1, Induction, Zenon
  <1>8. PICK ro, la : \E go \in BOOLEAN :
            /\ r[n] = [roles |-> ro, last |-> la, goes |-> go]
            /\ Went(ms, from, roles, n, ro, la, go)
    BY <1>4, Zenon
  <1>5. PICK go \in BOOLEAN :
            /\ r[n] = [roles |-> ro, last |-> la, goes |-> go]
            /\ Went(ms, from, roles, n, ro, la, go)
    BY <1>8, Zenon
  <1>6. [roles |-> ro, last |-> la, goes |-> go].roles = ro
    BY Zenon
  <1>7. Gate!Spread(ms, roles, from) = ro
    BY <1>1, <1>5, <1>6, Zenon DEF Gate!Spread
  <1> QED
    BY <1>5, <1>7, Zenon DEF Went

\* The lists that begin with the first k mentions have been followed.
AllFollowed(ms, n, k, roles) ==
    \A p \in Gate!Kept(ms) : p <= k /\ roles[p] = "target" => Followed(ms, p, n, roles)

\* Following the list of one more mention, or of none, where it is no target.
LEMMA SpreadStep ==
    ASSUME NEW A, NEW ms \in Seq(A), NEW n \in Nat, n = Len(ms), Gate!Kept(ms) \subseteq 1..n,
           NEW k \in 0..n, k < n, NEW roles, SoundRoles(ms, roles), AllFollowed(ms, n, k, roles),
           NEW after, after = IF k + 1 \in Gate!Kept(ms) /\ roles[k + 1] = "target" THEN Gate!Spread(ms, roles, k + 1) ELSE roles
    PROVE  SoundRoles(ms, after) /\ AllFollowed(ms, n, k + 1, after)
  <1> DEFINE K == Gate!Kept(ms)
  <1>1. \A m \in K : (m <= k + 1 <=> m <= k \/ m = k + 1) /\ m <= m
    BY UpTo, Zenon
  <1>2. CASE k + 1 \in K /\ roles[k + 1] = "target"
    <2>1. after = Gate!Spread(ms, roles, k + 1)
      BY <1>2, Zenon
    <2>2. /\ SoundRoles(ms, after) /\ OnlyAfter(ms, k + 1, roles, after) /\ Followed(ms, k + 1, n, after)
      BY <1>2, <2>1, WalkLeaves, Zenon
    <2>3. ASSUME NEW p \in K, p <= k + 1, after[p] = "target" PROVE Followed(ms, p, n, after)
      <3>1. CASE p = k + 1
        BY <2>2, <3>1, Zenon
      <3>2. CASE p # k + 1
        <4>1. p <= k
          BY <1>1, <2>3, <3>2, Zenon
        <4>2. roles[p] = "target"
          BY <2>2, <2>3, Zenon DEF OnlyAfter
        <4>3. Followed(ms, p, n, roles)
          BY <4>1, <4>2, Zenon DEF AllFollowed
        <4> QED
          BY <2>2, <4>3, Zenon DEF Followed, OnlyAfter
      <3> QED
        BY <3>1, <3>2, Zenon
    <2> QED
      BY <2>2, <2>3, Zenon DEF AllFollowed
  <1>3. CASE ~(k + 1 \in K /\ roles[k + 1] = "target")
    <2>1. after = roles
      BY <1>3, Zenon
    <2> QED
      BY <1>1, <1>3, <2>1, Zenon DEF AllFollowed
  <1> QED
    BY <1>2, <1>3, Zenon

\* What is asked for is wanted.
LEMMA FirstSound ==
    ASSUME NEW n \in Nat, NEW ms, Gate!Kept(ms) \subseteq 1..n
    PROVE  SoundRoles(ms, [i \in Gate!Kept(ms) |-> Gate!FirstRole(ms[i])])
  <1>1. PICK first : first = [i \in Gate!Kept(ms) |-> Gate!FirstRole(ms[i])]
    BY Zenon
  <1>2. first \in [Gate!Kept(ms) -> AllRoles] /\ \A i \in Gate!Kept(ms) : first[i] = Gate!FirstRole(ms[i])
    BY <1>1, FirstRoleIs, Zenon
  <1>3. FirstTargets(ms) = TargetsOf(ms, first)
    BY <1>2, Zenon DEF FirstTargets, TargetsOf
  <1>4. ASSUME NEW i \in TargetsOf(ms, first) PROVE i \in Gate!Wanted(ms)
    <2>1. i \in Gate!Kept(ms) /\ Gate!FirstRole(ms[i]) = "target" /\ i \in 1..n
      BY <1>2, <1>4, Zenon DEF TargetsOf
    <2>2. i <= i /\ \A k \in 1..n : ~(i < k /\ k <= i)
      BY <2>1
    <2>3. {k \in Gate!Kept(ms) : i < k /\ k <= i /\ Gate!FirstRole(ms[k]) # "target"} = {}
      BY <2>2, Zenon
    <2> QED
      BY <2>1, <2>2, <2>3, Zenon DEF Gate!Wanted
  <1> QED
    BY <1>1, <1>2, <1>3, <1>4, Zenon DEF SoundRoles

\* Where every list has been followed, nothing wanted is left out.
LEMMA AllReached ==
    ASSUME NEW n \in Nat, NEW ms, Gate!Kept(ms) \subseteq 1..n,
           NEW roles, SoundRoles(ms, roles), AllFollowed(ms, n, n, roles)
    PROVE  Gate!Wanted(ms) \subseteq TargetsOf(ms, roles)
  <1> DEFINE K == Gate!Kept(ms)
  <1> SUFFICES ASSUME NEW j \in Gate!Wanted(ms) PROVE j \in TargetsOf(ms, roles)
    BY Zenon
  <1>1. PICK i \in K :
            /\ j \in K /\ i <= j
            /\ Gate!FirstRole(ms[i]) = "target"
            /\ \A h \in {k \in K : i < k /\ k <= j /\ Gate!FirstRole(ms[k]) # "target"} :
                 Gate!Continues(ms, CHOOSE k \in K : k < h /\ \A m \in K : m < h => m <= k, h)
    BY Zenon DEF Gate!Wanted
  <1>2. i \in 1..n /\ j \in 1..n
    BY <1>1, Zenon
  \* Of the mentions from i on that are not reached, the first.
  <1> DEFINE N == {h \in K : i <= h /\ h <= j /\ roles[h] # "target"}
  <1>3. CASE N = {}
    <2>1. j <= j
      BY <1>2
    <2> QED
      BY <1>1, <1>3, <2>1, Zenon DEF TargetsOf
  <1>4. CASE N # {}
    <2>1. N \in SUBSET Nat /\ \A m \in N : m \in 1..n
      <3>1. \A m \in N : m \in 1..n
        BY Zenon
      <3>2. \A m \in 1..n : m \in Nat
        OBVIOUS
      <3> QED
        BY <3>1, <3>2, Zenon
    <2>2. PICK h \in N : \A m \in N : h <= m
      BY <1>4, <2>1, LeastNat, Zenon
    <2>3. h \in K /\ i <= h /\ h <= j /\ roles[h] # "target" /\ h \in 1..n
      BY <2>1, <2>2, Zenon
    <2>4. ASSUME NEW m \in FirstTargets(ms) PROVE roles[m] = "target"
      BY <2>4, Zenon DEF SoundRoles, TargetsOf
    <2>5. i \in FirstTargets(ms) /\ h \notin FirstTargets(ms) /\ Gate!FirstRole(ms[h]) # "target"
      BY <1>1, <2>3, <2>4, Zenon DEF FirstTargets
    <2>6. i < h
      <3>1. i # h
        BY <2>5, Zenon
      <3> QED
        BY <1>2, <2>3, <3>1
    <2>7. Gate!Continues(ms, CHOOSE k \in K : k < h /\ \A m \in K : m < h => m <= k, h)
      BY <1>1, <2>3, <2>5, <2>6, Zenon
    <2> DEFINE B == {k \in K : k < h}
    <2>8. PICK p \in B : \A m \in B : m <= p
      <3>1. B \in SUBSET (1..n) /\ B # {}
        BY <1>1, <2>6, Zenon
      <3> HIDE DEF B
      <3> QED
        BY <3>1, LastIn
    <2>9. p \in K /\ p < h /\ IsPrev(ms, p, h) /\ i <= p
      BY <1>1, <2>6, <2>8, Zenon DEF IsPrev
    <2>10. Gate!Continues(ms, p, h)
      BY <2>3, <2>7, <2>9, PrevIs, Zenon
    <2>11. roles[p] = "target"
      <3>1. p \in 1..n
        BY <2>9, Zenon
      <3>2. p <= j /\ ~(h <= p)
        BY <1>2, <2>3, <2>9, <3>1
      <3> QED
        BY <2>2, <2>9, <3>2, Zenon
    <2>12. p <= n /\ h <= n
      <3>1. p \in 1..n
        BY <2>9, Zenon
      <3> QED
        BY <2>3, <3>1
    <2>13. Followed(ms, p, n, roles)
      BY <2>9, <2>11, <2>12, Zenon DEF AllFollowed
    <2>14. roles[h] = "target"
      BY <2>3, <2>9, <2>10, <2>12, <2>13, Zenon DEF Followed
    <2> QED
      BY <2>3, <2>14, Zenon
  <1> QED
    BY <1>3, <1>4, Zenon

\* The mentions kept are some of the mentions.
LEMMA KeptIn ==
    ASSUME NEW A, NEW ms \in Seq(A)
    PROVE  Gate!Kept(ms) \subseteq 1..Len(ms)
  <1>1. DOMAIN ms = 1..Len(ms)
    OBVIOUS
  <1> QED
    BY <1>1, Zenon DEF Gate!Kept

\* The roles are those of what is wanted.
LEMMA TargetsAreExact ==
    ASSUME NEW A, NEW ms \in Seq(A)
    PROVE  Gate!TargetsExact(ms)
  <1>1. PICK n \in Nat : n = Len(ms) /\ Gate!Kept(ms) \subseteq 1..n
    <2>1. Len(ms) \in Nat
      OBVIOUS
    <2> QED
      BY <2>1, KeptIn, Zenon
  <1>2. PICK first : first = [i \in Gate!Kept(ms) |-> Gate!FirstRole(ms[i])] /\ SoundRoles(ms, first)
    BY <1>1, FirstSound, Zenon
  <1>3. PICK r : /\ r[0] = first /\ r[n] = Gate!Roles(ms)
                 /\ \A i \in 1..n : r[i] = Op("spread", 0, ms, i, r[i - 1])
    <2>1. Walks("spread", 0, first, ms, Len(ms), Gate!SpreadAll(ms, first))
      BY SpreadWalks
    <2>2. Walks("spread", 0, first, ms, n, Gate!Roles(ms))
      BY <1>1, <1>2, <2>1, Zenon DEF Gate!Roles
    <2> QED
      BY <2>2, Zenon DEF Walks
  <1> DEFINE P == {k \in 0..n : SoundRoles(ms, r[k]) /\ AllFollowed(ms, n, k, r[k])}
  <1>4. 0 \in P
    <2>1. 0 \in 0..n /\ \A m \in 1..n : ~(m <= 0)
      OBVIOUS
    <2>2. AllFollowed(ms, n, 0, first)
      BY <1>1, <2>1, Zenon DEF AllFollowed
    <2> QED
      BY <1>2, <1>3, <2>1, <2>2, Zenon
  <1>5. ASSUME NEW k \in 0..n, k < n, k \in P PROVE k + 1 \in P
    <2>1. k + 1 \in 1..n /\ k + 1 \in 0..n /\ (k + 1) - 1 = k
      BY <1>5, NextIn
    <2>2. r[k + 1] = IF k + 1 \in Gate!Kept(ms) /\ r[k][k + 1] = "target" THEN Gate!Spread(ms, r[k], k + 1) ELSE r[k]
      BY <1>3, <2>1, Zenon DEF Op
    <2>3. SoundRoles(ms, r[k]) /\ AllFollowed(ms, n, k, r[k])
      BY <1>5, Zenon
    <2>4. SoundRoles(ms, r[k + 1]) /\ AllFollowed(ms, n, k + 1, r[k + 1])
      BY <1>1, <1>5, <2>2, <2>3, SpreadStep, Zenon
    <2> QED
      BY <2>1, <2>4, Zenon
  <1>6. n \in P
    <2>1. n \in 0..n
      OBVIOUS
    <2> HIDE DEF P
    <2> QED
      BY <1>4, <1>5, <2>1, Induction, Zenon
  <1>7. SoundRoles(ms, Gate!Roles(ms)) /\ AllFollowed(ms, n, n, Gate!Roles(ms))
    BY <1>3, <1>6, Zenon
  <1>8. TargetsOf(ms, Gate!Roles(ms)) = Gate!Wanted(ms)
    BY <1>1, <1>7, AllReached, Zenon DEF SoundRoles
  <1> QED
    BY <1>8, Zenon DEF Gate!TargetsExact, TargetsOf

\* One mention more, of another path.
OneMore(ms, more, n) ==
    /\ DOMAIN ms = 1..n /\ DOMAIN more = 1..n + 1
    /\ \A i \in 1..n : more[i] = ms[i]
    /\ \A i \in 1..n : more[n + 1].tail # ms[i].tail

\* It is kept, and so is what was kept.
LEMMA KeptMore ==
    ASSUME NEW n \in Nat, NEW ms \in Seq(Mentions), NEW more \in Seq(Mentions), OneMore(ms, more, n)
    PROVE  /\ Gate!Kept(ms) \subseteq 1..n /\ Gate!Kept(more) \subseteq 1..n + 1
           /\ \A i \in 1..n : i \in Gate!Kept(more) <=> i \in Gate!Kept(ms)
  <1>1. /\ DOMAIN ms = 1..n /\ DOMAIN more = 1..n + 1
        /\ \A i \in 1..n : more[i] = ms[i]
        /\ \A i \in 1..n : more[n + 1].tail # ms[i].tail
    BY Zenon DEF OneMore
  <1>2. 1..n + 1 = (1..n) \cup {n + 1}
    OBVIOUS
  <1>3. ASSUME NEW i \in 1..n
        PROVE  (\A j \in 1..n + 1 : more[j].tail = more[i].tail =>
                   more[j].alias < more[i].alias \/ (more[j].alias = more[i].alias /\ i <= j))
               <=> (\A j \in 1..n : ms[j].tail = ms[i].tail =>
                   ms[j].alias < ms[i].alias \/ (ms[j].alias = ms[i].alias /\ i <= j))
    BY <1>1, <1>2, Zenon
  <1>4. \A i \in 1..n : i \in 1..n + 1
    BY <1>2, Zenon
  <1> QED
    <2>1. ASSUME NEW i \in 1..n PROVE i \in Gate!Kept(more) <=> i \in Gate!Kept(ms)
      <3>1. i \in Gate!Kept(ms) <=> (\A j \in 1..n : ms[j].tail = ms[i].tail =>
                   ms[j].alias < ms[i].alias \/ (ms[j].alias = ms[i].alias /\ i <= j))
        <4>1. i \in DOMAIN ms
          BY <1>1, Zenon
        <4>2. i \in Gate!Kept(ms) <=> (\A j \in DOMAIN ms : ms[j].tail = ms[i].tail =>
                   ms[j].alias < ms[i].alias \/ (ms[j].alias = ms[i].alias /\ i <= j))
          BY <4>1, Zenon DEF Gate!Kept
        <4> QED
          BY <1>1, <4>2, Zenon
      <3>2. i \in Gate!Kept(more) <=> (\A j \in 1..n + 1 : more[j].tail = more[i].tail =>
                   more[j].alias < more[i].alias \/ (more[j].alias = more[i].alias /\ i <= j))
        <4>1. i \in DOMAIN more
          BY <1>1, <1>4, Zenon
        <4>2. i \in Gate!Kept(more) <=> (\A j \in DOMAIN more : more[j].tail = more[i].tail =>
                   more[j].alias < more[i].alias \/ (more[j].alias = more[i].alias /\ i <= j))
          BY <4>1, Zenon DEF Gate!Kept
        <4> QED
          BY <1>1, <4>2, Zenon
      <3> QED
        BY <1>3, <3>1, <3>2, Zenon
    <2>2. Gate!Kept(ms) \subseteq 1..n /\ Gate!Kept(more) \subseteq 1..n + 1
      BY <1>1, Zenon DEF Gate!Kept
    <2> QED
      BY <2>1, <2>2, Zenon

\* What was wanted still is.
LEMMA WantedMore ==
    ASSUME NEW n \in Nat, NEW ms \in Seq(Mentions), NEW more \in Seq(Mentions), OneMore(ms, more, n)
    PROVE  Gate!Wanted(ms) \subseteq Gate!Wanted(more)
  <1>1. /\ Gate!Kept(ms) \subseteq 1..n /\ Gate!Kept(more) \subseteq 1..n + 1
        /\ \A i \in 1..n : i \in Gate!Kept(more) <=> i \in Gate!Kept(ms)
    BY KeptMore
  <1>2. \A i \in 1..n : more[i] = ms[i]
    BY Zenon DEF OneMore
  <1> SUFFICES ASSUME NEW j \in Gate!Wanted(ms) PROVE j \in Gate!Wanted(more)
    BY Zenon
  <1>3. PICK i \in Gate!Kept(ms) :
            /\ j \in Gate!Kept(ms) /\ i <= j
            /\ Gate!FirstRole(ms[i]) = "target"
            /\ \A h \in {k \in Gate!Kept(ms) : i < k /\ k <= j /\ Gate!FirstRole(ms[k]) # "target"} :
                 Gate!Continues(ms, CHOOSE k \in Gate!Kept(ms) :
                                  k < h /\ \A m \in Gate!Kept(ms) : m < h => m <= k, h)
    BY Zenon DEF Gate!Wanted
  <1>4. /\ i \in 1..n /\ j \in 1..n /\ i \in Gate!Kept(more) /\ j \in Gate!Kept(more)
        /\ Gate!FirstRole(more[i]) = "target"
    BY <1>1, <1>2, <1>3, Zenon
  <1>5. ASSUME NEW h \in {k \in Gate!Kept(more) : i < k /\ k <= j /\ Gate!FirstRole(more[k]) # "target"}
        PROVE  Gate!Continues(more, CHOOSE k \in Gate!Kept(more) :
                                  k < h /\ \A m \in Gate!Kept(more) : m < h => m <= k, h)
    <2>1. h \in Gate!Kept(more) /\ i < h /\ h <= j /\ h \in 1..n + 1
      BY <1>1, <1>5, Zenon
    <2>2. h \in 1..n
      BY <1>4, <2>1
    <2>3. h \in Gate!Kept(ms) /\ Gate!FirstRole(ms[h]) # "target"
      BY <1>1, <1>2, <1>5, <2>2, Zenon
    <2> DEFINE B == {k \in Gate!Kept(ms) : k < h}
    <2>4. PICK p \in B : \A m \in B : m <= p
      <3>1. B \in SUBSET (1..n) /\ B # {}
        BY <1>1, <2>1, Zenon
      <3> HIDE DEF B
      <3> QED
        BY <3>1, LastIn
    <2>5. IsPrev(ms, p, h) /\ p \in 1..n /\ p < h
      BY <1>1, <2>4, Zenon DEF IsPrev
    <2>6. IsPrev(more, p, h)
      <3>1. ASSUME NEW m \in Gate!Kept(more), m < h PROVE m \in 1..n
        <4>1. m \in 1..n + 1
          BY <1>1, Zenon
        <4> QED
          BY <2>2, <3>1, <4>1
      <3> QED
        BY <1>1, <2>5, <3>1, Zenon DEF IsPrev
    <2>7. Gate!Continues(ms, p, h)
      <3>1. Gate!Continues(ms, CHOOSE k \in Gate!Kept(ms) :
                                  k < h /\ \A m \in Gate!Kept(ms) : m < h => m <= k, h)
        BY <1>3, <2>1, <2>3, Zenon
      <3> QED
        BY <1>1, <2>2, <2>5, <3>1, PrevIs, Zenon
    <2>8. Gate!Continues(more, p, h)
      <3>1. p + 1 \in 1..n
        BY <2>2, <2>5
      <3> QED
        BY <1>2, <2>2, <2>7, <3>1, Zenon DEF Gate!Continues
    <2> QED
      <3>1. n + 1 \in Nat
        OBVIOUS
      <3> QED
        BY <1>1, <2>1, <2>6, <2>8, <3>1, PrevIs, Zenon
  <1> QED
    BY <1>3, <1>4, <1>5, Zenon DEF Gate!Wanted

\* Some of n mentions, and at least those of one more.
AtLeast(n, some, most) == some \subseteq 1..n /\ most \subseteq 1..n + 1 /\ some \subseteq most

\* The subsystems of more mentions.
LEMMA SubsystemsGrow ==
    ASSUME NEW n \in Nat, NEW ms \in Seq(Mentions), NEW more \in Seq(Mentions), OneMore(ms, more, n),
           NEW some, NEW most, AtLeast(n, some, most)
    PROVE  /\ Gate!Subsystems(ms, some) \subseteq Gate!Subsystems(more, most)
           /\ IsFiniteSet(Gate!Subsystems(more, most))
  <1>1. \A i \in 1..n : more[i] = ms[i]
    BY Zenon DEF OneMore
  <1>2. Gate!Subsystems(ms, some) \subseteq Gate!Subsystems(more, most)
    BY <1>1, Zenon DEF Gate!Subsystems, AtLeast
  <1>3. IsFiniteSet(Gate!Subsystems(more, most))
    <2>1. IsFiniteSet(1..n + 1)
      BY FS_Interval
    <2> DEFINE those == {j \in most : ~more[j].test}
    <2>2. IsFiniteSet(those)
      <3>1. those \subseteq 1..n + 1
        BY Zenon DEF AtLeast
      <3> QED
        BY <2>1, <3>1, FS_Subset, Zenon
    <2> DEFINE all == {more[i].subsystem : i \in those}
    <2>3. IsFiniteSet(all)
      <3>1. PICK f : f = [i \in those |-> more[i].subsystem]
        BY Zenon
      <3> HIDE DEF those
      <3>2. f \in [those -> all] /\ \A t \in all : \E i \in those : f[i] = t
        BY <3>1, Zenon
      <3> HIDE DEF all
      <3>3. f \in Surjection(those, all)
        BY <3>2, Zenon DEF Surjection
      <3> QED
        BY <2>2, <3>3, FS_Surjection
    <2>4. Gate!Subsystems(more, most) \subseteq all
      BY Zenon DEF Gate!Subsystems
    <2> QED
      BY <2>3, <2>4, FS_Subset, Zenon
  <1> QED
    BY <1>2, <1>3, Zenon

\* Of the features of two prompts, the latter has no less of any.
Grown(f, g) ==
    /\ g.nchars = f.nchars /\ g.vbl = f.vbl /\ g.dverb = f.dverb
    /\ g.readonly = f.readonly /\ g.single_verifier = f.single_verifier
    /\ f.ntargets <= g.ntargets /\ f.nsubs <= g.nsubs
    /\ f.n_target_subs <= g.n_target_subs /\ f.nrust <= g.nrust
    /\ f.js_ha \subseteq g.js_ha

Counted(f) ==
    f.nchars \in Nat /\ f.vbl \in Nat /\ f.dverb \in Nat /\ f.ntargets \in Nat /\ f.nsubs \in Nat
    /\ f.n_target_subs \in Nat /\ f.nrust \in Nat

\* More of a feature has more points, and no fewer signatures.
LEMMA ScoreGrows ==
    ASSUME NEW f, NEW g, Counted(f), Counted(g), Grown(f, g)
    PROVE  /\ Gate!Signatures(f) # {} => Gate!Signatures(g) # {}
           /\ Gate!Score(f) \in Nat /\ Gate!Score(g) \in Nat /\ Gate!Score(f) <= Gate!Score(g)
  <1>1. Gate!Bloated(f) \in BOOLEAN /\ Gate!Bloated(g) \in BOOLEAN /\ (Gate!Bloated(f) => Gate!Bloated(g))
    BY DEF Gate!Bloated, Counted, Grown
  <1>2. Gate!Signatures(f) # {} => Gate!Signatures(g) # {}
    <2>1. f.js_ha # {} /\ f.nrust >= 2 => g.js_ha # {} /\ g.nrust >= 2
      <3>1. f.js_ha # {} => g.js_ha # {}
        BY Zenon DEF Grown
      <3>2. f.nrust >= 2 => g.nrust >= 2
        BY DEF Counted, Grown
      <3> QED
        BY <3>1, <3>2
    <2>2. f.nchars = g.nchars
      BY Zenon DEF Grown
    <2>3. Gate!Signatures(f) \subseteq Gate!Signatures(g)
      <3>1. ASSUME NEW s \in Gate!Signatures(f) PROVE s \in Gate!Signatures(g)
        <4>1. s \in {"H1", "H2", "H3"}
              /\ (\/ (s = "H1" /\ f.nchars > 2500)
                  \/ (s = "H2" /\ Gate!Bloated(f))
                  \/ (s = "H3" /\ f.js_ha # {} /\ f.nrust >= 2))
          BY SMT DEF Gate!Signatures
        <4>2. s \in {"H1", "H2", "H3"}
              /\ (\/ (s = "H1" /\ g.nchars > 2500)
                  \/ (s = "H2" /\ Gate!Bloated(g))
                  \/ (s = "H3" /\ g.js_ha # {} /\ g.nrust >= 2))
          BY <1>1, <2>1, <2>2, <4>1, SMT
        <4> QED
          BY <4>2, SMT DEF Gate!Signatures
      <3> QED
        BY <3>1, Zenon
    <2> QED
      BY <2>3, Zenon
  <1>3. /\ \A k \in Nat : Gate!Points(k, Gate!Bloated(f)) \in Nat /\ Gate!Points(k, Gate!Bloated(g)) \in Nat
        /\ Gate!Points(2, Gate!Bloated(f)) <= Gate!Points(2, Gate!Bloated(g))
    BY <1>1 DEF Gate!Points
  <1>4. PICK a \in Nat, b \in Nat : a = Gate!Points(2, Gate!Bloated(f)) /\ b = Gate!Points(2, Gate!Bloated(g)) /\ a <= b
    BY <1>3
  <1>5. PICK c \in Nat : c = Gate!Points(1, ~f.single_verifier /\ ~f.readonly)
                         /\ c = Gate!Points(1, ~g.single_verifier /\ ~g.readonly)
    <2>1. f.single_verifier = g.single_verifier /\ f.readonly = g.readonly
      BY Zenon DEF Grown
    <2>2. Gate!Points(1, ~f.single_verifier /\ ~f.readonly) \in Nat
      BY DEF Gate!Points
    <2> QED
      BY <2>1, <2>2, Zenon
  <1>6. /\ Gate!Score(f) =
              Gate!Points(1, f.nchars > 2000) + Gate!Points(1, f.nchars > 2500)
            + Gate!Points(f.ntargets - 1, f.ntargets > 1)
            + Gate!Points(1, f.n_target_subs >= 2) + Gate!Points(1, f.n_target_subs >= 3)
            + Gate!Points(1, f.dverb >= 4) + a + c
        /\ Gate!Score(g) =
              Gate!Points(1, g.nchars > 2000) + Gate!Points(1, g.nchars > 2500)
            + Gate!Points(g.ntargets - 1, g.ntargets > 1)
            + Gate!Points(1, g.n_target_subs >= 2) + Gate!Points(1, g.n_target_subs >= 3)
            + Gate!Points(1, g.dverb >= 4) + b + c
    BY <1>4, <1>5, SMT DEF Gate!Score
  <1>7. Gate!Score(f) \in Nat /\ Gate!Score(g) \in Nat /\ Gate!Score(f) <= Gate!Score(g)
    <2>1. PICK x \in Nat, v \in Nat, w \in Nat, y \in Nat, z \in Nat, s \in Nat :
             /\ x = f.nchars /\ x = g.nchars /\ v = f.dverb /\ v = g.dverb
             /\ w = f.ntargets /\ y = g.ntargets /\ z = f.n_target_subs /\ s = g.n_target_subs
             /\ w <= y /\ z <= s
      BY Zenon DEF Counted, Grown
    <2>2. Gate!Score(f) = (IF x > 2000 THEN 1 ELSE 0) + (IF x > 2500 THEN 1 ELSE 0)
             + (IF w > 1 THEN w - 1 ELSE 0) + (IF z >= 2 THEN 1 ELSE 0) + (IF z >= 3 THEN 1 ELSE 0)
             + (IF v >= 4 THEN 1 ELSE 0) + a + c
      BY <1>6, <2>1, SMT DEF Gate!Points
    <2>3. Gate!Score(g) = (IF x > 2000 THEN 1 ELSE 0) + (IF x > 2500 THEN 1 ELSE 0)
             + (IF y > 1 THEN y - 1 ELSE 0) + (IF s >= 2 THEN 1 ELSE 0) + (IF s >= 3 THEN 1 ELSE 0)
             + (IF v >= 4 THEN 1 ELSE 0) + b + c
      BY <1>6, <2>1, SMT DEF Gate!Points
    <2>4. PICK i \in Nat, j \in Nat, l \in Nat, m \in Nat, o \in Nat, d \in Nat :
             /\ i = IF w > 1 THEN w - 1 ELSE 0
             /\ j = IF y > 1 THEN y - 1 ELSE 0
             /\ l = (IF z >= 2 THEN 1 ELSE 0) + (IF z >= 3 THEN 1 ELSE 0)
             /\ m = (IF s >= 2 THEN 1 ELSE 0) + (IF s >= 3 THEN 1 ELSE 0)
             /\ o = (IF x > 2000 THEN 1 ELSE 0) + (IF x > 2500 THEN 1 ELSE 0)
             /\ d = IF v >= 4 THEN 1 ELSE 0
      BY <2>1, SMT
    <2>5. i <= j /\ l <= m
      BY <2>1, <2>4, SMT
    <2>6. Gate!Score(f) = o + i + l + d + a + c
      BY <2>2, <2>4, SMT
    <2>7. Gate!Score(g) = o + j + m + d + b + c
      BY <2>3, <2>4, SMT
    <2> QED
      BY <1>4, <2>5, <2>6, <2>7, SMT
  <1> QED
    BY <1>2, <1>7

\* The verdict on more is no milder.
LEMMA VerdictHeavier ==
    ASSUME NEW p, NEW q, NEW f, NEW g, f = Gate!Features(p), g = Gate!Features(q),
           Counted(f), Counted(g), Grown(f, g)
    PROVE  Gate!Heavier(Gate!Evaluate(q), Gate!Evaluate(p))
  <1>1. PICK x \in Nat, y \in Nat : x = Gate!Score(f) /\ y = Gate!Score(g) /\ x <= y
    BY ScoreGrows
  <1>2. Gate!Signatures(f) # {} => Gate!Signatures(g) # {}
    BY ScoreGrows
  <1>3. /\ Gate!Signatures(f) # {} => Gate!Evaluate(p) = [kind |-> "Reject", score |-> 0]
        /\ Gate!Signatures(f) = {} /\ x >= 2 => Gate!Evaluate(p) = [kind |-> "Review", score |-> x]
        /\ Gate!Signatures(f) = {} /\ ~(x >= 2) => Gate!Evaluate(p) = [kind |-> "Admit", score |-> 0]
    BY <1>1, Zenon DEF Gate!Evaluate
  <1>4. /\ Gate!Signatures(g) # {} => Gate!Evaluate(q) = [kind |-> "Reject", score |-> 0]
        /\ Gate!Signatures(g) = {} /\ y >= 2 => Gate!Evaluate(q) = [kind |-> "Review", score |-> y]
        /\ Gate!Signatures(g) = {} /\ ~(y >= 2) => Gate!Evaluate(q) = [kind |-> "Admit", score |-> 0]
    BY <1>1, Zenon DEF Gate!Evaluate
  <1>5. CASE Gate!Signatures(g) # {}
    BY <1>4, <1>5 DEF Gate!Heavier
  <1>6. CASE Gate!Signatures(g) = {} /\ y >= 2
    <2>1. Gate!Evaluate(q) = [kind |-> "Review", score |-> y]
      BY <1>4, <1>6
    <2>2. Gate!Evaluate(p) = [kind |-> "Review", score |-> x] \/ Gate!Evaluate(p) = [kind |-> "Admit", score |-> 0]
      BY <1>2, <1>3, <1>6
    <2> QED
      BY <1>1, <2>1, <2>2 DEF Gate!Heavier
  <1>7. CASE Gate!Signatures(g) = {} /\ ~(y >= 2)
    <2>1. ~(x >= 2)
      BY <1>1, <1>7
    <2>2. /\ Gate!Evaluate(q) = [kind |-> "Admit", score |-> 0]
          /\ Gate!Evaluate(p) = [kind |-> "Admit", score |-> 0]
      BY <1>2, <1>3, <1>4, <1>7, <2>1
    <2> QED
      BY <2>2 DEF Gate!Heavier
  <1> QED
    BY <1>5, <1>6, <1>7

\* More elements are no fewer.
LEMMA NoFewer ==
    ASSUME NEW S, NEW T, S \subseteq T, IsFiniteSet(T)
    PROVE  Gate!Cardinality(S) \in Nat /\ Gate!Cardinality(T) \in Nat /\ Gate!Cardinality(S) <= Gate!Cardinality(T)
  <1>1. IsFiniteSet(S) /\ Cardinality(S) <= Cardinality(T)
    BY FS_Subset
  <1>2. Cardinality(S) \in Nat /\ Cardinality(T) \in Nat
    BY <1>1, FS_CardinalityType
  <1>3. Gate!Cardinality(S) = Cardinality(S) /\ Gate!Cardinality(T) = Cardinality(T)
    BY SameCount, Zenon
  <1> QED
    BY <1>1, <1>2, <1>3, Zenon

\* The mentions of files that are wanted written, as the features count them.
TargetFiles(ms) == {i \in Gate!Files(ms) : Gate!Roles(ms)[i] = "target"}

\* With one mention more there are more files, and more of them are targets.
LEMMA FilesGrow ==
    ASSUME NEW n \in Nat, NEW ms \in Seq(Mentions), NEW more \in Seq(Mentions), OneMore(ms, more, n)
    PROVE  /\ Gate!Files(ms) \in SUBSET (1..n) /\ Gate!Files(more) \in SUBSET (1..n + 1)
           /\ Gate!Files(ms) \subseteq Gate!Files(more)
           /\ TargetFiles(ms) \in SUBSET (1..n) /\ TargetFiles(more) \in SUBSET (1..n + 1)
           /\ TargetFiles(ms) \subseteq TargetFiles(more)
  <1>1. /\ Gate!Kept(ms) \subseteq 1..n /\ Gate!Kept(more) \subseteq 1..n + 1
        /\ \A i \in 1..n : i \in Gate!Kept(more) <=> i \in Gate!Kept(ms)
    BY KeptMore
  <1>2. \A i \in 1..n : more[i] = ms[i]
    BY Zenon DEF OneMore
  <1>3. /\ Gate!Files(ms) \subseteq 1..n /\ Gate!Files(more) \subseteq 1..n + 1
        /\ Gate!Files(ms) \subseteq Gate!Kept(ms) /\ Gate!Files(more) \subseteq Gate!Kept(more)
    BY <1>1, Zenon DEF Gate!Files
  <1>4. Gate!Files(ms) \subseteq Gate!Files(more)
    BY <1>1, <1>2, Zenon DEF Gate!Files
  <1>5. {i \in Gate!Kept(ms) : Gate!Roles(ms)[i] = "target"} = Gate!Wanted(ms)
    BY TargetsAreExact, Zenon DEF Gate!TargetsExact
  <1>6. {i \in Gate!Kept(more) : Gate!Roles(more)[i] = "target"} = Gate!Wanted(more)
    BY TargetsAreExact, Zenon DEF Gate!TargetsExact
  <1>7. Gate!Wanted(ms) \subseteq Gate!Wanted(more)
    BY WantedMore
  <1>8. ASSUME NEW i \in TargetFiles(ms) PROVE i \in TargetFiles(more)
    <2>1. i \in Gate!Files(ms) /\ i \in Gate!Wanted(ms)
      BY <1>3, <1>5, <1>8, Zenon DEF TargetFiles
    <2>2. i \in Gate!Files(more) /\ i \in Gate!Wanted(more)
      BY <1>4, <1>7, <2>1, Zenon
    <2>3. Gate!Roles(more)[i] = "target"
      BY <1>6, <2>2, Zenon
    <2> QED
      BY <2>2, <2>3, Zenon DEF TargetFiles
  <1>9. TargetFiles(ms) \subseteq Gate!Files(ms) /\ TargetFiles(more) \subseteq Gate!Files(more)
    BY Zenon DEF TargetFiles
  <1> QED
    BY <1>3, <1>4, <1>8, <1>9, Zenon

\* There are more subsystems.
LEMMA SubsystemsOfMore ==
    ASSUME NEW n \in Nat, NEW ms \in Seq(Mentions), NEW more \in Seq(Mentions), OneMore(ms, more, n)
    PROVE  /\ Gate!Subsystems(ms, Gate!Files(ms)) \subseteq Gate!Subsystems(more, Gate!Files(more))
           /\ IsFiniteSet(Gate!Subsystems(more, Gate!Files(more)))
           /\ Gate!Subsystems(ms, TargetFiles(ms)) \subseteq Gate!Subsystems(more, TargetFiles(more))
           /\ IsFiniteSet(Gate!Subsystems(more, TargetFiles(more)))
  <1>1. /\ AtLeast(n, Gate!Files(ms), Gate!Files(more))
        /\ AtLeast(n, TargetFiles(ms), TargetFiles(more))
    BY FilesGrow, Zenon DEF AtLeast
  <1> QED
    BY <1>1, SubsystemsGrow, Zenon

\* What the features of a prompt are.
LEMMA FeaturesAre ==
    ASSUME NEW p, NEW ms, p.mentions = ms
    PROVE  LET f == Gate!Features(p)
               subs == Gate!Subsystems(ms, Gate!Files(ms))
           IN /\ f.nchars = p.nchars /\ f.vbl = p.vbl /\ f.dverb = p.dverb /\ f.readonly = p.readonly
              /\ f.single_verifier = (p.gate /\ p.families <= 1)
              /\ f.ntargets = Gate!Cardinality(TargetFiles(ms))
              /\ f.nsubs = Gate!Cardinality(subs)
              /\ f.n_target_subs = Gate!Cardinality(Gate!Subsystems(ms, TargetFiles(ms)))
              /\ f.js_ha = subs \cap {"js/ha/loop"}
              /\ f.nrust = Gate!Cardinality(subs \ {"js/ha/loop", "js/cli"})
  <1>1. PICK files, targets, subs :
            /\ files = Gate!Files(ms) /\ targets = TargetFiles(ms)
            /\ subs = Gate!Subsystems(ms, Gate!Files(ms))
    BY Zenon
  <1>2. PICK a, b, c, d, e, h :
            /\ a = (p.gate /\ p.families <= 1) /\ b = Gate!Cardinality(targets) /\ c = Gate!Cardinality(subs)
            /\ d = Gate!Cardinality(Gate!Subsystems(ms, targets)) /\ e = subs \cap {"js/ha/loop"}
            /\ h = Gate!Cardinality(subs \ {"js/ha/loop", "js/cli"})
    BY Zenon
  <1>3. Gate!Features(p) =
           [nchars |-> p.nchars, vbl |-> p.vbl, dverb |-> p.dverb, readonly |-> p.readonly,
            single_verifier |-> a, ntargets |-> b, nsubs |-> c, n_target_subs |-> d, js_ha |-> e, nrust |-> h]
    <2>1. {i \in files : Gate!Roles(ms)[i] = "target"} = targets
      BY <1>1, Zenon DEF TargetFiles
    <2> QED
      BY <1>1, <1>2, <2>1, Zenon DEF Gate!Features
  <1>4. PICK f : f =
           [nchars |-> p.nchars, vbl |-> p.vbl, dverb |-> p.dverb, readonly |-> p.readonly,
            single_verifier |-> a, ntargets |-> b, nsubs |-> c, n_target_subs |-> d, js_ha |-> e, nrust |-> h]
    BY Zenon
  <1>5. /\ f.nchars = p.nchars /\ f.vbl = p.vbl /\ f.dverb = p.dverb /\ f.readonly = p.readonly
        /\ f.ntargets = b /\ f.nsubs = c /\ f.n_target_subs = d /\ f.js_ha = e /\ f.nrust = h
    BY <1>4, Zenon
  <1>6. f.single_verifier = a
    BY <1>4, Zenon
  <1>7. f.single_verifier = (p.gate /\ p.families <= 1)
    BY <1>2, <1>6, Zenon
  <1>8. /\ b = Gate!Cardinality(TargetFiles(ms))
        /\ c = Gate!Cardinality(Gate!Subsystems(ms, Gate!Files(ms)))
        /\ d = Gate!Cardinality(Gate!Subsystems(ms, TargetFiles(ms)))
        /\ e = Gate!Subsystems(ms, Gate!Files(ms)) \cap {"js/ha/loop"}
        /\ h = Gate!Cardinality(Gate!Subsystems(ms, Gate!Files(ms)) \ {"js/ha/loop", "js/cli"})
    BY <1>1, <1>2, Zenon
  <1> QED
    BY <1>3, <1>4, <1>5, <1>7, <1>8, Zenon

\* A mention more is no less of any feature.
LEMMA FeaturesGrow ==
    ASSUME NEW p, NEW q, NEW n \in Nat, NEW ms \in Seq(Mentions), NEW more \in Seq(Mentions), OneMore(ms, more, n),
           p.mentions = ms, q.mentions = more,
           p.nchars \in Nat, q.nchars = p.nchars, p.vbl \in Nat, q.vbl = p.vbl, p.dverb \in Nat, q.dverb = p.dverb,
           q.readonly = p.readonly, q.gate = p.gate, q.families = p.families
    PROVE  Counted(Gate!Features(p)) /\ Counted(Gate!Features(q)) /\ Grown(Gate!Features(p), Gate!Features(q))
  <1>1. PICK files, most : files = Gate!Files(ms) /\ most = Gate!Files(more)
    BY Zenon
  <1>2. PICK targets, all : targets = TargetFiles(ms) /\ all = TargetFiles(more)
    BY Zenon
  <1>3. /\ files \in SUBSET (1..n) /\ most \in SUBSET (1..n + 1) /\ files \subseteq most
        /\ targets \in SUBSET (1..n) /\ all \in SUBSET (1..n + 1) /\ targets \subseteq all
    BY <1>1, <1>2, FilesGrow, Zenon
  <1>4. PICK some, subs : some = Gate!Subsystems(ms, files) /\ subs = Gate!Subsystems(more, most)
    BY Zenon
  <1>5. PICK few, many : few = Gate!Subsystems(ms, targets) /\ many = Gate!Subsystems(more, all)
    BY Zenon
  <1>6. some \subseteq subs /\ IsFiniteSet(subs) /\ few \subseteq many /\ IsFiniteSet(many)
    BY <1>1, <1>2, <1>4, <1>5, SubsystemsOfMore, Zenon
  <1>7. IsFiniteSet(all)
    <2>1. IsFiniteSet(1..n + 1)
      <3>1. PICK m \in Int : m = n + 1
        OBVIOUS
      <3>2. 1 \in Int
        OBVIOUS
      <3>3. IsFiniteSet(1..m)
        BY <3>2, FS_Interval, Zenon
      <3> QED
        BY <3>1, <3>3, Zenon
    <2> QED
      BY <1>3, <2>1, FS_Subset, Zenon
  <1>8. PICK rust, rusts : rust = some \ {"js/ha/loop", "js/cli"} /\ rusts = subs \ {"js/ha/loop", "js/cli"}
    BY Zenon
  <1>9. rust \subseteq rusts /\ IsFiniteSet(rusts)
    <2>1. rust \subseteq rusts /\ rusts \subseteq subs
      BY <1>6, <1>8, Zenon
    <2> QED
      BY <1>6, <2>1, FS_Subset, Zenon
  <1>10. /\ Gate!Cardinality(targets) \in Nat /\ Gate!Cardinality(all) \in Nat
         /\ Gate!Cardinality(targets) <= Gate!Cardinality(all)
    BY <1>3, <1>7, NoFewer, Zenon
  <1>11. /\ Gate!Cardinality(some) \in Nat /\ Gate!Cardinality(subs) \in Nat
         /\ Gate!Cardinality(some) <= Gate!Cardinality(subs)
    BY <1>6, NoFewer, Zenon
  <1>12. /\ Gate!Cardinality(few) \in Nat /\ Gate!Cardinality(many) \in Nat
         /\ Gate!Cardinality(few) <= Gate!Cardinality(many)
    BY <1>6, NoFewer, Zenon
  <1>13. /\ Gate!Cardinality(rust) \in Nat /\ Gate!Cardinality(rusts) \in Nat
         /\ Gate!Cardinality(rust) <= Gate!Cardinality(rusts)
    BY <1>9, NoFewer, Zenon
  <1>14. PICK f : f = Gate!Features(p)
    BY Zenon
  <1>15. PICK g : g = Gate!Features(q)
    BY Zenon
  <1>16. /\ f.nchars = p.nchars /\ f.vbl = p.vbl /\ f.dverb = p.dverb /\ f.readonly = p.readonly
         /\ f.single_verifier = (p.gate /\ p.families <= 1)
         /\ f.ntargets = Gate!Cardinality(targets) /\ f.nsubs = Gate!Cardinality(some)
         /\ f.n_target_subs = Gate!Cardinality(few) /\ f.js_ha = some \cap {"js/ha/loop"}
         /\ f.nrust = Gate!Cardinality(rust)
    BY <1>1, <1>2, <1>4, <1>5, <1>8, <1>14, FeaturesAre, Zenon
  <1>17. /\ g.nchars = q.nchars /\ g.vbl = q.vbl /\ g.dverb = q.dverb /\ g.readonly = q.readonly
         /\ g.single_verifier = (q.gate /\ q.families <= 1)
         /\ g.ntargets = Gate!Cardinality(all) /\ g.nsubs = Gate!Cardinality(subs)
         /\ g.n_target_subs = Gate!Cardinality(many) /\ g.js_ha = subs \cap {"js/ha/loop"}
         /\ g.nrust = Gate!Cardinality(rusts)
    BY <1>1, <1>2, <1>4, <1>5, <1>8, <1>15, FeaturesAre, Zenon
  <1>18. Counted(f) /\ Counted(g)
    BY <1>10, <1>11, <1>12, <1>13, <1>16, <1>17, Zenon DEF Counted
  <1>19. f.js_ha \subseteq g.js_ha
    BY <1>6, <1>16, <1>17, Zenon
  <1>20. f.single_verifier = g.single_verifier
    BY <1>16, <1>17, Zenon
  <1>21. Grown(f, g)
    BY <1>10, <1>11, <1>12, <1>13, <1>16, <1>17, <1>19, <1>20, Zenon DEF Grown
  <1> QED
    BY <1>14, <1>15, <1>18, <1>21, Zenon

\* To name one file more is not judged more lightly.
LEMMA MoreIsNotLighter ==
    ASSUME NEW p \in Gate!PromptFacts, NEW m \in Mentions
    PROVE  Gate!NotLighter(p, m)
  <1> SUFFICES ASSUME m.tail \notin {p.mentions[i].tail : i \in DOMAIN p.mentions}
               PROVE  Gate!Heavier(Gate!Evaluate([p EXCEPT !.mentions = Append(@, m)]), Gate!Evaluate(p))
    BY Zenon DEF Gate!NotLighter
  <1>1. PICK q : q = [p EXCEPT !.mentions = Append(@, m)]
    BY Zenon
  <1>2. PICK ms \in Seq(Mentions) : ms = p.mentions
    BY DEF Gate!PromptFacts, Mentions
  <1>3. p.nchars \in Nat /\ p.vbl \in Nat /\ p.dverb \in Nat
    BY DEF Gate!PromptFacts
  <1>4. PICK more : more = Append(ms, m)
    BY Zenon
  <1>5. /\ q.mentions = more /\ q.nchars = p.nchars /\ q.vbl = p.vbl /\ q.dverb = p.dverb
        /\ q.readonly = p.readonly /\ q.gate = p.gate /\ q.families = p.families
    <2>1. q = [p EXCEPT !.mentions = more]
      BY <1>1, <1>2, <1>4, Zenon
    <2> QED
      BY <2>1 DEF Gate!PromptFacts
  <1>6. PICK n \in Nat : n = Len(ms)
    BY <1>2
  <1>7. more \in Seq(Mentions) /\ OneMore(ms, more, n)
    <2>1. /\ DOMAIN ms = 1..n /\ more \in Seq(Mentions) /\ DOMAIN more = 1..n + 1
          /\ (\A i \in 1..n : more[i] = ms[i]) /\ more[n + 1] = m
      BY <1>4, <1>6
    <2>2. \A i \in 1..n : m.tail # ms[i].tail
      BY <1>2, <2>1, Zenon
    <2> QED
      BY <2>1, <2>2, Zenon DEF OneMore
  <1>8. Counted(Gate!Features(p)) /\ Counted(Gate!Features(q)) /\ Grown(Gate!Features(p), Gate!Features(q))
    BY <1>2, <1>3, <1>5, <1>7, FeaturesGrow, Zenon
  <1>9. Gate!Heavier(Gate!Evaluate(q), Gate!Evaluate(p))
    BY <1>8, VerdictHeavier, Zenon
  <1> QED
    BY <1>1, <1>9, Zenon

-----------------------------------------------------------------------------
(* What is done at a request                                               *)

\* The questions that are no requests.
NoRequest == {"none", "read", "list", "search", "grep", "matches", "rewrite", "web", "fetch", "docs",
              "tool", "host", "config", "install", "stats", "skills", "trace", "eval", "day", "run", "evo"}

\* Nothing is said of an answer to them.
LEMMA OfNoRequest ==
    ASSUME topic' \in NoRequest
    PROVE  RequestsExact'
  BY DEF RequestsExact, NoRequest

\* A prompt from which the last file it names is taken is a prompt.
LEMMA LessIsPrompt ==
    ASSUME NEW p \in Gate!PromptFacts, p.mentions # <<>>
    PROVE  /\ [p EXCEPT !.mentions = Front(@)] \in Gate!PromptFacts
           /\ Last(p.mentions) \in Mentions
  <1>1. PICK ms \in Seq(Mentions) : ms = p.mentions /\ ms # <<>>
    BY DEF Gate!PromptFacts, Mentions
  <1>2. PICK n \in Nat : n = Len(ms) /\ n # 0
    BY <1>1
  <1>3. Front(ms) \in Seq(Mentions) /\ ms[n] \in Mentions
    BY <1>1, <1>2 DEF Front
  <1>4. Last(p.mentions) \in Mentions
    BY <1>1, <1>2, <1>3, Zenon DEF Last
  <1>5. \A x \in Seq(Mentions) : [p EXCEPT !.mentions = x] \in Gate!PromptFacts
    BY DEF Gate!PromptFacts, Mentions
  <1>6. [p EXCEPT !.mentions = Front(@)] = [p EXCEPT !.mentions = Front(ms)]
    BY <1>1 DEF Gate!PromptFacts
  <1> QED
    BY <1>3, <1>4, <1>5, <1>6, Zenon

\* delegate_to_coworker, the gate.
LEMMA DelegateIsExact == ASSUME AskDelegate PROVE RequestsExact'
  <1>1. PICK p \in Prompts : topic' = "delegate" /\ input' = p
    BY DEF AskDelegate, Ask
  <1>2. p \in Gate!PromptFacts
    BY RecordInputs DEF RecordInputs
  <1>3. PICK ms \in Seq(Mentions) : ms = p.mentions
    BY <1>2 DEF Gate!PromptFacts, Mentions
  <1>4. Gate!TargetsExact(p.mentions)
    BY <1>3, TargetsAreExact, Zenon
  <1>5. ASSUME p.mentions # <<>>
        PROVE  Gate!NotLighter([p EXCEPT !.mentions = Front(@)], Last(p.mentions))
    BY <1>2, <1>5, LessIsPrompt, MoreIsNotLighter, Zenon
  <1> QED
    BY <1>1, <1>4, <1>5, Zenon DEF RequestsExact

\* delegate_to_coworker, the dispatch.
LEMMA DispatchIsExact == ASSUME AskDispatch PROVE RequestsExact'
  <1>1. PICK args \in {"good", "bad", "none"}, blank \in BOOLEAN, verdict \in {"Admit", "Review", "Reject"},
             broken \in SUBSET Broken :
            Ask("dispatch", [call |-> [args |-> args, blank |-> blank, verdict |-> verdict],
                             env |-> [broken |-> broken]],
                Gateway!Coworker([args |-> args, blank |-> blank, verdict |-> verdict], [broken |-> broken]))
    BY Zenon DEF AskDispatch
  <1>2. PICK call : call = [args |-> args, blank |-> blank, verdict |-> verdict]
    BY Zenon
  <1>3. PICK env : env = [broken |-> broken]
    BY Zenon
  <1>4. call.blank \in BOOLEAN
    BY <1>2
  <1>5. Gateway!DispatchAccounted(call, env, Gateway!Coworker(call, env))
    BY <1>4, DispatchIsAccounted
  <1>6. topic' = "dispatch" /\ input' = [call |-> call, env |-> env] /\ answer' = Gateway!Coworker(call, env)
    BY <1>1, <1>2, <1>3, Zenon DEF Ask
  <1>7. input'.call = call /\ input'.env = env
    BY <1>6
  <1> QED
    BY <1>5, <1>6, <1>7, Zenon DEF RequestsExact

\* The task tool.
LEMMA TaskIsExact == ASSUME AskTask PROVE RequestsExact'
  <1>1. PICK ids \in SUBSET TaskIds :
          \E disk \in [ids -> Records],
             action \in {"list", "stats", "cancel_all", "status", "cancel", "kill", "extend_lease", "x"},
             id \in TaskIds \cup {0}, args \in {"good", "bad"}, config \in BOOLEAN,
             stuck \in SUBSET ids :
            Ask("task", [call |-> [args |-> args, action |-> action, id |-> id],
                         env |-> [config |-> config, stuck |-> stuck], disk |-> disk],
                Gateway!TaskTool([args |-> args, action |-> action, id |-> id],
                                 [config |-> config, stuck |-> stuck], disk))
    BY Zenon DEF AskTask
  <1>2. PICK disk \in [ids -> Records],
             action \in {"list", "stats", "cancel_all", "status", "cancel", "kill", "extend_lease", "x"},
             id \in TaskIds \cup {0}, args \in {"good", "bad"}, config \in BOOLEAN,
             stuck \in SUBSET ids :
            Ask("task", [call |-> [args |-> args, action |-> action, id |-> id],
                         env |-> [config |-> config, stuck |-> stuck], disk |-> disk],
                Gateway!TaskTool([args |-> args, action |-> action, id |-> id],
                                 [config |-> config, stuck |-> stuck], disk))
    BY <1>1, Zenon
  <1>3. PICK call : call = [args |-> args, action |-> action, id |-> id]
    BY Zenon
  <1>8. PICK env : env = [config |-> config, stuck |-> stuck]
    BY Zenon
  <1>9. env.config \in BOOLEAN
    BY <1>8
  <1>4. ids \in SUBSET Nat
    BY RecordInputs DEF RecordInputs
  <1>5. Gateway!TaskToolExact(call, env, disk, Gateway!TaskTool(call, env, disk))
    BY <1>4, <1>9, TaskToolIsExact
  <1>6. /\ topic' = "task" /\ input' = [call |-> call, env |-> env, disk |-> disk]
        /\ answer' = Gateway!TaskTool(call, env, disk)
    BY <1>2, <1>3, <1>8, Zenon DEF Ask
  <1>7. input'.call = call /\ input'.env = env /\ input'.disk = disk
    BY <1>6
  <1> QED
    BY <1>5, <1>6, <1>7, Zenon DEF RequestsExact

\* The engine's client.
LEMMA ChatIsExact == ASSUME AskChat PROVE RequestsExact'
  <1>1. PICK url \in BOOLEAN, model \in BOOLEAN, net \in {"down", "status", "ok"}, reply \in Replies :
            Ask("chat", reply, Client!Chat([url |-> url, model |-> model], net, reply))
    BY Zenon DEF AskChat
  <1>2. reply \in Client!ReplyBodies
    BY RecordInputs DEF RecordInputs
  <1>3. PICK config : config = [url |-> url, model |-> model]
    BY Zenon
  <1>4. config.url \in BOOLEAN /\ config.model \in BOOLEAN
    BY <1>3
  <1>5. Client!ReplySentBack(reply, Client!Chat(config, net, reply))
    BY <1>2, <1>4, RepliesSentBack
  <1>6. topic' = "chat" /\ input' = reply /\ answer' = Client!Chat(config, net, reply)
    BY <1>1, <1>3, Zenon DEF Ask
  <1> QED
    BY <1>5, <1>6, Zenon DEF RequestsExact

\* The other questions are not requests.
LEMMA AskedOtherwise ==
    ASSUME \/ AskRead \/ AskList \/ AskSearch \/ AskGrep \/ AskMatches \/ AskRewrite
           \/ AskWeb \/ AskFetch \/ AskDocs \/ AskTool \/ AskHostPath
           \/ AskConfig \/ AskInstall
           \/ AskStats \/ AskSkills \/ AskTrace \/ AskEval \/ AskDay \/ AskRun \/ AskEvo
    PROVE  topic' \in NoRequest
  <1>1. \A t \in {"read", "list", "search", "grep", "matches", "rewrite", "web", "fetch", "docs",
                  "tool", "host", "config", "install", "stats", "skills", "trace", "eval", "day", "run", "evo"} :
          \A i, a : Ask(t, i, a) => topic' \in NoRequest
    BY DEF Ask, NoRequest
  <1>2. CASE AskRead
    BY <1>1, <1>2, Zenon DEF AskRead
  <1>3. CASE AskList
    BY <1>1, <1>3, Zenon DEF AskList
  <1>4. CASE AskSearch
    BY <1>1, <1>4, Zenon DEF AskSearch
  <1>5. CASE AskGrep
    BY <1>1, <1>5, Zenon DEF AskGrep
  <1>6. CASE AskMatches
    BY <1>1, <1>6, Zenon DEF AskMatches
  <1>7. CASE AskRewrite
    BY <1>1, <1>7, Zenon DEF AskRewrite
  <1>8. CASE AskWeb
    BY <1>1, <1>8, Zenon DEF AskWeb
  <1>9. CASE AskFetch
    BY <1>1, <1>9, Zenon DEF AskFetch
  <1>10. CASE AskDocs
    BY <1>1, <1>10, Zenon DEF AskDocs
  <1>11. CASE AskTool
    BY <1>1, <1>11, Zenon DEF AskTool
  <1>12. CASE AskHostPath
    BY <1>1, <1>12, Zenon DEF AskHostPath
  <1>13. CASE AskConfig
    BY <1>1, <1>13, Zenon DEF AskConfig
  <1>14. CASE AskInstall
    BY <1>1, <1>14, Zenon DEF AskInstall
  <1>15. CASE AskStats
    BY <1>1, <1>15, Zenon DEF AskStats
  <1>16. CASE AskSkills
    BY <1>1, <1>16, Zenon DEF AskSkills
  <1>17. CASE AskTrace
    BY <1>1, <1>17, Zenon DEF AskTrace
  <1>18. CASE AskEval
    BY <1>1, <1>18, Zenon DEF AskEval
  <1>19. CASE AskDay
    BY <1>1, <1>19, Zenon DEF AskDay
  <1>20. CASE AskRun
    BY <1>1, <1>20, Zenon DEF AskRun
  <1>21. CASE AskEvo
    BY <1>1, <1>21, Zenon DEF AskEvo
  <1> QED
    BY <1>2, <1>3, <1>4, <1>5, <1>6, <1>7, <1>8, <1>9, <1>10, <1>11, <1>12, <1>13, <1>14, <1>15, <1>16, <1>17, <1>18, <1>19, <1>20, <1>21, Zenon

\* For any prompts, task records and replies: the gate finds the files a prompt wants
\* written, and one more makes it no milder; a dispatch that is refused leaves nothing
\* behind and one that is promised runs; the task tool changes the records it was asked
\* to change, no others; and the answer that goes back into the conversation is the one
\* the engine gave.
THEOREM DecisionsRequestsExact == Spec => []RequestsExact
  <1>1. Init => RequestsExact
    BY DEF Init, RequestsExact
  <1>2. RequestsExact /\ [Next]_vars => RequestsExact'
    <2> SUFFICES ASSUME RequestsExact, [Next]_vars
                 PROVE  RequestsExact'
      OBVIOUS
    <2>1. CASE UNCHANGED vars
      BY <2>1 DEF RequestsExact, vars
    <2>2. CASE \/ AskRead \/ AskList \/ AskSearch \/ AskGrep \/ AskMatches \/ AskRewrite
               \/ AskWeb \/ AskFetch \/ AskDocs \/ AskTool \/ AskHostPath
               \/ AskConfig \/ AskInstall
               \/ AskStats \/ AskSkills \/ AskTrace \/ AskEval \/ AskDay \/ AskRun \/ AskEvo
      BY <2>2, AskedOtherwise, OfNoRequest, Zenon
    <2>3. CASE AskDelegate
      BY <2>3, DelegateIsExact
    <2>4. CASE AskDispatch
      BY <2>4, DispatchIsExact
    <2>5. CASE AskTask
      BY <2>5, TaskIsExact
    <2>6. CASE AskChat
      BY <2>6, ChatIsExact
    <2> QED
      BY <2>1, <2>2, <2>3, <2>4, <2>5, <2>6, Zenon DEF Next
  <1> QED
    BY <1>1, <1>2, PTL DEF Spec

-----------------------------------------------------------------------------
(* Dates                                                                   *)

\* What the quotients of civil_from_days are.
LEMMA Quotients ==
    ASSUME NEW x \in Nat
    PROVE  /\ x \div 4 \in Nat /\ 4 * (x \div 4) <= x /\ x < 4 * (x \div 4) + 4
           /\ x \div 5 \in Nat /\ 5 * (x \div 5) <= x /\ x < 5 * (x \div 5) + 5
           /\ x \div 100 \in Nat /\ 100 * (x \div 100) <= x /\ x < 100 * (x \div 100) + 100
           /\ x \div 153 \in Nat /\ 153 * (x \div 153) <= x /\ x < 153 * (x \div 153) + 153
           /\ x \div 365 \in Nat /\ 365 * (x \div 365) <= x /\ x < 365 * (x \div 365) + 365
           /\ x \div 400 \in Nat /\ 400 * (x \div 400) <= x /\ x < 400 * (x \div 400) + 400
           /\ x \div 1460 \in Nat /\ 1460 * (x \div 1460) <= x /\ x < 1460 * (x \div 1460) + 1460
           /\ x \div 36524 \in Nat /\ 36524 * (x \div 36524) <= x /\ x < 36524 * (x \div 36524) + 36524
           /\ x \div 146096 \in Nat /\ 146096 * (x \div 146096) <= x /\ x < 146096 * (x \div 146096) + 146096
           /\ x \div 146097 \in Nat /\ 146097 * (x \div 146097) <= x /\ x < 146097 * (x \div 146097) + 146097
  BY SMT

\* A quotient is what it says.
LEMMA QuotientIs ==
    \A x, q \in Nat :
        /\ 4 * q <= x /\ x < 4 * q + 4 => x \div 4 = q
        /\ 5 * q <= x /\ x < 5 * q + 5 => x \div 5 = q
        /\ 100 * q <= x /\ x < 100 * q + 100 => x \div 100 = q
        /\ 153 * q <= x /\ x < 153 * q + 153 => x \div 153 = q
        /\ 400 * q <= x /\ x < 400 * q + 400 => x \div 400 = q
  BY SMT

\* The century of a day of an era, a being the number of 1460 days before it.
LEMMA CenturyOf ==
    \A e, b, c \in Nat :
        (/\ e <= 146096
         /\ 36524 * b <= e /\ e < 36524 * b + 36524
         /\ 146096 * c <= e /\ e < 146096 * c + 146096)
        => (b = 4 /\ c = 1) \/ (c = 0 /\ (b = 0 \/ b = 1 \/ b = 2 \/ b = 3))
  BY SMT

\* The year y of an era of which e is a day begins no later than e and has at most
\* 366 days, and 366 only if it is long; q and h are the quotients of y by 4 and 100.
YearOf(e, a, b, c, y, q, h) ==
    /\ e <= 146096
    /\ 1460 * a <= e /\ e < 1460 * a + 1460
    /\ 36524 * b <= e /\ e < 36524 * b + 36524
    /\ 365 * y <= e - a + b - c /\ e - a + b - c < 365 * y + 365
    /\ 4 * q <= y /\ y < 4 * q + 4
    /\ 100 * h <= y /\ y < 100 * h + 100

InYear(e, y, q, h) ==
    /\ y <= 399
    /\ 365 * y + q - h <= e /\ e <= 365 * y + q - h + 365
    /\ e = 365 * y + q - h + 365 => y = 4 * q + 3 /\ (y = 100 * h + 99 => y = 399)

\* One century after the other.
LEMMA YearInCentury ==
    ASSUME NEW e \in Nat, NEW a \in Nat, NEW b \in Nat, NEW c \in Nat, NEW y \in Nat, NEW q \in Nat, NEW h \in Nat,
           YearOf(e, a, b, c, y, q, h),
           (b = 4 /\ c = 1) \/ (c = 0 /\ (b = 0 \/ b = 1 \/ b = 2 \/ b = 3))
    PROVE  InYear(e, y, q, h)
  <1>1. b = 0 /\ c = 0 => h = 0
    BY SMT DEF YearOf
  <1>2. b = 1 /\ c = 0 => h = 1
    BY SMT DEF YearOf
  <1>3. b = 2 /\ c = 0 => h = 2
    BY SMT DEF YearOf
  <1>4. b = 3 /\ c = 0 => h = 3
    BY SMT DEF YearOf
  <1>5. b = 4 /\ c = 1 => h = 3
    BY SMT DEF YearOf
  <1>6. b = 0 /\ c = 0 /\ h = 0 => InYear(e, y, q, h)
    BY SMT DEF YearOf, InYear
  <1>7. b = 1 /\ c = 0 /\ h = 1 => InYear(e, y, q, h)
    BY SMT DEF YearOf, InYear
  <1>8. b = 2 /\ c = 0 /\ h = 2 => InYear(e, y, q, h)
    BY SMT DEF YearOf, InYear
  <1>9. b = 3 /\ c = 0 /\ h = 3 => InYear(e, y, q, h)
    BY SMT DEF YearOf, InYear
  <1>10. b = 4 /\ c = 1 /\ h = 3 => InYear(e, y, q, h)
    BY SMT DEF YearOf, InYear
  <1> QED
    BY <1>1, <1>2, <1>3, <1>4, <1>5, <1>6, <1>7, <1>8, <1>9, <1>10

\* The day d of the year y of an era, q and h being the quotients of y by 4 and 100.
Dated(y, q, h, d) ==
    /\ 4 * q <= y /\ y < 4 * q + 4 /\ 100 * h <= y /\ y < 100 * h + 100 /\ y <= 399
    /\ d <= 365 /\ (d = 365 => y = 4 * q + 3 /\ (y = 100 * h + 99 => y = 399))

Offset(y, q, h) == 365 * y + q - h

\* A day has one place.
LEMMA OnePlace ==
    ASSUME NEW y \in Nat, NEW q \in Nat, NEW h \in Nat, NEW d \in Nat, Dated(y, q, h, d),
           NEW x \in Nat, NEW r \in Nat, NEW g \in Nat, NEW f \in Nat, Dated(x, r, g, f),
           Offset(y, q, h) + d = Offset(x, r, g) + f
    PROVE  y = x /\ d = f
  <1>1. ~(y < x)
    BY SMT DEF Dated, Offset
  <1>2. ~(x < y)
    BY SMT DEF Dated, Offset
  <1>3. y = x
    BY <1>1, <1>2
  <1>4. q = r /\ h = g
    BY <1>3, SMT DEF Dated
  <1> QED
    BY <1>3, <1>4, SMT DEF Offset

EraDays == 146097

Begin(y) == Offset(y, y \div 4, y \div 100)

\* A year, counted from March, that ends with a 29th of February.
Long(y) == y = 4 * (y \div 4) + 3 /\ (y = 100 * (y \div 100) + 99 => y = 399)

\* The place of a day: its era, its year in the era and its day in the year.
Place(era, y, d) == era \in Nat /\ y \in Nat /\ d \in Nat /\ Dated(y, y \div 4, y \div 100, d)

DayAt(era, y, d) == EraDays * era + Begin(y) + d

Date(era, y, d) == Ledgers!MarchDate(y + era * 400, d)

\* What the place of a day says.
LEMMA PlaceIs ==
    ASSUME NEW era \in Nat, NEW y \in Nat, NEW d \in Nat
    PROVE  Place(era, y, d) <=> y <= 399 /\ d <= 365 /\ (d = 365 => Long(y))
  <1>1. y \div 4 \in Nat /\ y \div 100 \in Nat /\ 4 * (y \div 4) <= y /\ y < 4 * (y \div 4) + 4
        /\ 100 * (y \div 100) <= y /\ y < 100 * (y \div 100) + 100
    BY Quotients
  <1> QED
    BY <1>1, SMT DEF Place, Dated, Long

\* The days of an era.
LEMMA DaysOfEra ==
    ASSUME NEW era, NEW y, NEW d, Place(era, y, d)
    PROVE  Begin(y) \in Nat /\ Begin(y) + d < EraDays
  <1>1. y \in Nat /\ d \in Nat /\ Dated(y, y \div 4, y \div 100, d)
    BY DEF Place
  <1>2. y \div 4 \in Nat /\ y \div 100 \in Nat
    BY <1>1, Quotients
  <1>3. \A q, h \in Nat : Dated(y, q, h, d) => Offset(y, q, h) \in Nat /\ Offset(y, q, h) + d < EraDays
    BY <1>1, SMT DEF Dated, Offset, EraDays
  <1> QED
    BY <1>1, <1>2, <1>3, Zenon DEF Begin

\* Every day has a place, and its date is the one of its place.
LEMMA HasPlace ==
    ASSUME NEW z \in Nat
    PROVE  \E era, y, d : /\ Place(era, y, d)
                          /\ z - Ledgers!Earliest = DayAt(era, y, d)
                          /\ Ledgers!CivilFromDays(z) = Date(era, y, d)
  <1>1. PICK n \in Nat : n = z - Ledgers!Earliest
    BY SMT DEF Ledgers!Earliest
  <1>2. PICK era \in Nat : era = n \div 146097 /\ 146097 * era <= n /\ n < 146097 * era + 146097
    BY Quotients
  <1>3. PICK e \in Nat : e = n - era * 146097 /\ e <= 146096
    BY <1>2, SMT
  <1>4. PICK a \in Nat : a = e \div 1460 /\ 1460 * a <= e /\ e < 1460 * a + 1460
    BY Quotients
  <1>5. PICK b \in Nat, c \in Nat : /\ b = e \div 36524 /\ 36524 * b <= e /\ e < 36524 * b + 36524
                                    /\ c = e \div 146096 /\ 146096 * c <= e /\ e < 146096 * c + 146096
    BY Quotients
  <1>6. (b = 4 /\ c = 1) \/ (c = 0 /\ (b = 0 \/ b = 1 \/ b = 2 \/ b = 3))
    BY <1>3, <1>5, CenturyOf, SMT
  <1>7. PICK w \in Nat : w = e - a + b - c
    BY <1>3, <1>4, <1>5, <1>6, SMT
  <1>8. PICK y \in Nat : y = w \div 365 /\ 365 * y <= w /\ w < 365 * y + 365
    BY Quotients
  <1>9. PICK q \in Nat, h \in Nat :
            q = y \div 4 /\ h = y \div 100 /\ 4 * q <= y /\ y < 4 * q + 4 /\ 100 * h <= y /\ y < 100 * h + 100
    BY Quotients
  <1>10. YearOf(e, a, b, c, y, q, h)
    BY <1>3, <1>4, <1>5, <1>7, <1>8, <1>9, SMT DEF YearOf
  <1>11. InYear(e, y, q, h)
    BY <1>6, <1>10, YearInCentury
  <1>12. PICK d \in Nat : d = e - (365 * y + q - h)
    BY <1>11, SMT DEF InYear
  <1>13. Dated(y, q, h, d) /\ e = Offset(y, q, h) + d
    BY <1>9, <1>11, <1>12, SMT DEF Dated, InYear, Offset
  <1>14. Place(era, y, d)
    BY <1>9, <1>13 DEF Place
  <1>15. n = DayAt(era, y, d)
    <2>1. Begin(y) = Offset(y, q, h)
      BY <1>9 DEF Begin
    <2>2. Offset(y, q, h) \in Int
      BY SMT DEF Offset
    <2> QED
      BY <1>3, <1>13, <2>1, <2>2, SMT DEF DayAt, EraDays
  <1>16. Ledgers!CivilFromDays(z) = Date(era, y, d)
    <2>1. y = Ledgers!YearOfEra(e)
      BY <1>4, <1>5, <1>7, <1>8, SMT DEF Ledgers!YearOfEra
    <2>2. d = e - (365 * y + y \div 4 - y \div 100)
      BY <1>9, <1>12, SMT
    <2> QED
      BY <1>1, <1>2, <1>3, <2>1, <2>2, SMT DEF Ledgers!CivilFromDays, Date
  <1> QED
    BY <1>1, <1>14, <1>15, <1>16

\* The date of a place.
LEMMA DateOf ==
    ASSUME NEW z \in Nat, NEW era, NEW y, NEW d, Place(era, y, d), z - Ledgers!Earliest = DayAt(era, y, d)
    PROVE  Ledgers!CivilFromDays(z) = Date(era, y, d)
  <1>1. PICK u, v, w : /\ Place(u, v, w) /\ z - Ledgers!Earliest = DayAt(u, v, w)
                       /\ Ledgers!CivilFromDays(z) = Date(u, v, w)
    BY HasPlace, Zenon
  <1>2. era \in Nat /\ y \in Nat /\ d \in Nat /\ u \in Nat /\ v \in Nat /\ w \in Nat
        /\ Dated(y, y \div 4, y \div 100, d) /\ Dated(v, v \div 4, v \div 100, w)
    BY <1>1, Zenon DEF Place
  <1>3. PICK s \in Nat, t \in Nat : s = Begin(y) /\ t = Begin(v) /\ s + d < EraDays /\ t + w < EraDays
    BY <1>1, DaysOfEra
  <1>4. EraDays * era + s + d = EraDays * u + t + w
    BY <1>1, <1>3, Zenon DEF DayAt
  <1>5. era = u /\ s + d = t + w
    BY <1>2, <1>3, <1>4, SMT DEF EraDays
  <1>6. y \div 4 \in Nat /\ y \div 100 \in Nat /\ v \div 4 \in Nat /\ v \div 100 \in Nat
    BY <1>2, Quotients
  <1>7. Offset(y, y \div 4, y \div 100) + d = Offset(v, v \div 4, v \div 100) + w
    BY <1>3, <1>5, Zenon DEF Begin
  <1>8. y = v /\ d = w
    BY <1>2, <1>6, <1>7, OnePlace
  <1> QED
    BY <1>1, <1>5, <1>8, Zenon

\* A day of the year that is in a month, which has the days from lo to hi.
Month(y, d, lo, hi, m, c) ==
    lo <= d /\ d <= hi /\ Ledgers!MarchDate(y, d) = <<y + c, m, d - lo + 1>>

\* Each day of the year is in its month.
LEMMA MonthOf ==
    ASSUME NEW y \in Nat, NEW d \in Nat
    PROVE  /\ 0 <= d /\ d <= 30 => Month(y, d, 0, 30, 3, 0)
           /\ 31 <= d /\ d <= 60 => Month(y, d, 31, 60, 4, 0)
           /\ 61 <= d /\ d <= 91 => Month(y, d, 61, 91, 5, 0)
           /\ 92 <= d /\ d <= 121 => Month(y, d, 92, 121, 6, 0)
           /\ 122 <= d /\ d <= 152 => Month(y, d, 122, 152, 7, 0)
           /\ 153 <= d /\ d <= 183 => Month(y, d, 153, 183, 8, 0)
           /\ 184 <= d /\ d <= 213 => Month(y, d, 184, 213, 9, 0)
           /\ 214 <= d /\ d <= 244 => Month(y, d, 214, 244, 10, 0)
           /\ 245 <= d /\ d <= 274 => Month(y, d, 245, 274, 11, 0)
           /\ 275 <= d /\ d <= 305 => Month(y, d, 275, 305, 12, 0)
           /\ 306 <= d /\ d <= 336 => Month(y, d, 306, 336, 1, 1)
           /\ 337 <= d /\ d <= 365 => Month(y, d, 337, 365, 2, 1)
  <1>1. PICK mp \in Nat : mp = (5 * d + 2) \div 153 /\ 153 * mp <= 5 * d + 2 /\ 5 * d + 2 < 153 * mp + 153
    <2>1. PICK x \in Nat : x = 5 * d + 2
      BY SMT
    <2> QED
      BY <2>1, Quotients
  <1>2. PICK k \in Nat : k = (153 * mp + 2) \div 5 /\ 5 * k <= 153 * mp + 2 /\ 153 * mp + 2 < 5 * k + 5
    <2>1. PICK x \in Nat : x = 153 * mp + 2
      BY SMT
    <2> QED
      BY <2>1, Quotients
  <1>3. PICK m \in Int : m = IF mp < 10 THEN mp + 3 ELSE mp - 9
    BY SMT
  <1>4. Ledgers!MarchDate(y, d) = <<y + (IF m <= 2 THEN 1 ELSE 0), m, d - k + 1>>
    BY <1>1, <1>2, <1>3, SMT DEF Ledgers!MarchDate
  <1>5. ASSUME 0 <= d, d <= 30 PROVE Month(y, d, 0, 30, 3, 0)
    <2>1. mp = 0
      BY <1>5, <1>1, SMT
    <2>2. k = 0 /\ m = 3 /\ (IF m <= 2 THEN 1 ELSE 0) = 0
      BY <2>1, <1>2, <1>3, SMT
    <2> QED
      BY <1>5, <1>4, <2>2 DEF Month
  <1>6. ASSUME 31 <= d, d <= 60 PROVE Month(y, d, 31, 60, 4, 0)
    <2>1. mp = 1
      BY <1>6, <1>1, SMT
    <2>2. k = 31 /\ m = 4 /\ (IF m <= 2 THEN 1 ELSE 0) = 0
      BY <2>1, <1>2, <1>3, SMT
    <2> QED
      BY <1>6, <1>4, <2>2 DEF Month
  <1>7. ASSUME 61 <= d, d <= 91 PROVE Month(y, d, 61, 91, 5, 0)
    <2>1. mp = 2
      BY <1>7, <1>1, SMT
    <2>2. k = 61 /\ m = 5 /\ (IF m <= 2 THEN 1 ELSE 0) = 0
      BY <2>1, <1>2, <1>3, SMT
    <2> QED
      BY <1>7, <1>4, <2>2 DEF Month
  <1>8. ASSUME 92 <= d, d <= 121 PROVE Month(y, d, 92, 121, 6, 0)
    <2>1. mp = 3
      BY <1>8, <1>1, SMT
    <2>2. k = 92 /\ m = 6 /\ (IF m <= 2 THEN 1 ELSE 0) = 0
      BY <2>1, <1>2, <1>3, SMT
    <2> QED
      BY <1>8, <1>4, <2>2 DEF Month
  <1>9. ASSUME 122 <= d, d <= 152 PROVE Month(y, d, 122, 152, 7, 0)
    <2>1. mp = 4
      BY <1>9, <1>1, SMT
    <2>2. k = 122 /\ m = 7 /\ (IF m <= 2 THEN 1 ELSE 0) = 0
      BY <2>1, <1>2, <1>3, SMT
    <2> QED
      BY <1>9, <1>4, <2>2 DEF Month
  <1>10. ASSUME 153 <= d, d <= 183 PROVE Month(y, d, 153, 183, 8, 0)
    <2>1. mp = 5
      BY <1>10, <1>1, SMT
    <2>2. k = 153 /\ m = 8 /\ (IF m <= 2 THEN 1 ELSE 0) = 0
      BY <2>1, <1>2, <1>3, SMT
    <2> QED
      BY <1>10, <1>4, <2>2 DEF Month
  <1>11. ASSUME 184 <= d, d <= 213 PROVE Month(y, d, 184, 213, 9, 0)
    <2>1. mp = 6
      BY <1>11, <1>1, SMT
    <2>2. k = 184 /\ m = 9 /\ (IF m <= 2 THEN 1 ELSE 0) = 0
      BY <2>1, <1>2, <1>3, SMT
    <2> QED
      BY <1>11, <1>4, <2>2 DEF Month
  <1>12. ASSUME 214 <= d, d <= 244 PROVE Month(y, d, 214, 244, 10, 0)
    <2>1. mp = 7
      BY <1>12, <1>1, SMT
    <2>2. k = 214 /\ m = 10 /\ (IF m <= 2 THEN 1 ELSE 0) = 0
      BY <2>1, <1>2, <1>3, SMT
    <2> QED
      BY <1>12, <1>4, <2>2 DEF Month
  <1>13. ASSUME 245 <= d, d <= 274 PROVE Month(y, d, 245, 274, 11, 0)
    <2>1. mp = 8
      BY <1>13, <1>1, SMT
    <2>2. k = 245 /\ m = 11 /\ (IF m <= 2 THEN 1 ELSE 0) = 0
      BY <2>1, <1>2, <1>3, SMT
    <2> QED
      BY <1>13, <1>4, <2>2 DEF Month
  <1>14. ASSUME 275 <= d, d <= 305 PROVE Month(y, d, 275, 305, 12, 0)
    <2>1. mp = 9
      BY <1>14, <1>1, SMT
    <2>2. k = 275 /\ m = 12 /\ (IF m <= 2 THEN 1 ELSE 0) = 0
      BY <2>1, <1>2, <1>3, SMT
    <2> QED
      BY <1>14, <1>4, <2>2 DEF Month
  <1>15. ASSUME 306 <= d, d <= 336 PROVE Month(y, d, 306, 336, 1, 1)
    <2>1. mp = 10
      BY <1>15, <1>1, SMT
    <2>2. k = 306 /\ m = 1 /\ (IF m <= 2 THEN 1 ELSE 0) = 1
      BY <2>1, <1>2, <1>3, SMT
    <2> QED
      BY <1>15, <1>4, <2>2 DEF Month
  <1>16. ASSUME 337 <= d, d <= 365 PROVE Month(y, d, 337, 365, 2, 1)
    <2>1. mp = 11
      BY <1>16, <1>1, SMT
    <2>2. k = 337 /\ m = 2 /\ (IF m <= 2 THEN 1 ELSE 0) = 1
      BY <2>1, <1>2, <1>3, SMT
    <2> QED
      BY <1>16, <1>4, <2>2 DEF Month
  <1> QED
    BY <1>5, <1>6, <1>7, <1>8, <1>9, <1>10, <1>11, <1>12, <1>13, <1>14, <1>15, <1>16

\* The lengths of the months.
LEMMA DaysInIs ==
    ASSUME NEW y \in Nat
    PROVE  /\ Ledgers!DaysIn(y, 1) = 31 /\ Ledgers!DaysIn(y, 3) = 31 /\ Ledgers!DaysIn(y, 4) = 30
           /\ Ledgers!DaysIn(y, 5) = 31 /\ Ledgers!DaysIn(y, 6) = 30 /\ Ledgers!DaysIn(y, 7) = 31
           /\ Ledgers!DaysIn(y, 8) = 31 /\ Ledgers!DaysIn(y, 9) = 30 /\ Ledgers!DaysIn(y, 10) = 31
           /\ Ledgers!DaysIn(y, 11) = 30 /\ Ledgers!DaysIn(y, 12) = 31
           /\ Ledgers!DaysIn(y, 2) = IF Ledgers!Leap(y) THEN 29 ELSE 28
  BY DEF Ledgers!DaysIn

\* The day after a date.
LEMMA AfterIs ==
    ASSUME NEW y \in Nat, NEW m \in Nat, NEW d \in Nat
    PROVE  Ledgers!DayAfter(<<y, m, d>>) =
              IF d < Ledgers!DaysIn(y, m) THEN <<y, m, d + 1>>
              ELSE IF m < 12 THEN <<y, m + 1, 1>> ELSE <<y + 1, 1, 1>>
  BY DEF Ledgers!DayAfter

\* A day and the next are in one month, or in two months that follow each other.
Follows(y, d, lo, hi, m, c, l, n, b) ==
    /\ Month(y, d, lo, hi, m, c) /\ Ledgers!DaysIn(y + c, m) = hi - lo + 1
    /\ d < hi => Month(y, d + 1, lo, hi, m, c)
    /\ d = hi => Month(y, d + 1, d + 1, l, n, b)
    /\ (m < 12 /\ n = m + 1 /\ b = c) \/ (m = 12 /\ n = 1 /\ b = c + 1)

\* A day of the year, and the day after it, in the table of the months.
LEMMA DayInMonth ==
    ASSUME NEW y \in Nat, NEW d \in Nat,
           \E lo, hi, m, c, l, n, b \in Nat : Follows(y, d, lo, hi, m, c, l, n, b)
    PROVE  Ledgers!DayAfter(Ledgers!MarchDate(y, d)) = Ledgers!MarchDate(y, d + 1)
  <1>0. PICK lo \in Nat, hi \in Nat, m \in Nat, c \in Nat, l \in Nat, n \in Nat, b \in Nat :
            Follows(y, d, lo, hi, m, c, l, n, b)
    BY Zenon
  <1>a. /\ Month(y, d, lo, hi, m, c) /\ Ledgers!DaysIn(y + c, m) = hi - lo + 1
        /\ d < hi => Month(y, d + 1, lo, hi, m, c)
        /\ d = hi => Month(y, d + 1, d + 1, l, n, b)
        /\ (m < 12 /\ n = m + 1 /\ b = c) \/ (m = 12 /\ n = 1 /\ b = c + 1)
    BY <1>0, Zenon DEF Follows
  <1>1. PICK x \in Nat, v \in Nat, w \in Nat : x = d - lo + 1 /\ v = y + c /\ w = hi - lo + 1 /\ d <= hi /\ (x < w <=> d < hi)
    BY <1>a DEF Month
  <1>2. Ledgers!MarchDate(y, d) = <<v, m, x>>
    BY <1>a, <1>1, Zenon DEF Month
  <1>3. Ledgers!DayAfter(<<v, m, x>>) =
            IF d < hi THEN <<v, m, x + 1>> ELSE IF m < 12 THEN <<v, m + 1, 1>> ELSE <<v + 1, 1, 1>>
    <2>1. x < Ledgers!DaysIn(v, m) <=> d < hi
      BY <1>a, <1>1, Zenon
    <2>2. Ledgers!DayAfter(<<v, m, x>>) =
              IF x < Ledgers!DaysIn(v, m) THEN <<v, m, x + 1>> ELSE IF m < 12 THEN <<v, m + 1, 1>> ELSE <<v + 1, 1, 1>>
      BY AfterIs
    <2> QED
      BY <2>1, <2>2, Zenon
  <1>4. CASE d < hi
    <2>1. (d + 1) - lo + 1 = x + 1
      BY <1>1
    <2>2. Ledgers!MarchDate(y, d + 1) = <<v, m, x + 1>>
      BY <1>a, <1>1, <1>4, <2>1, Zenon DEF Month
    <2> QED
      BY <1>2, <1>3, <1>4, <2>2, Zenon
  <1>5. CASE ~(d < hi)
    <2>1. d = hi /\ (d + 1) - (d + 1) + 1 = 1 /\ (m = 12 => ~(m < 12)) /\ y + (c + 1) = v + 1
      BY <1>1, <1>5
    <2>2. Ledgers!MarchDate(y, d + 1) = <<y + b, n, 1>>
      BY <1>a, <2>1, Zenon DEF Month
    <2> QED
      BY <1>a, <1>1, <1>2, <1>3, <1>5, <2>1, <2>2, Zenon
  <1> QED
    BY <1>4, <1>5

\* The next day of a year is the day after.
LEMMA NextDay ==
    ASSUME NEW y \in Nat, NEW d \in Nat, d <= 364, d = 364 => Ledgers!Leap(y + 1)
    PROVE  Ledgers!DayAfter(Ledgers!MarchDate(y, d)) = Ledgers!MarchDate(y, d + 1)
  <1>0. y + 0 = y /\ y + 1 \in Nat /\ d + 1 \in Nat
    OBVIOUS
  <1>1. CASE 0 <= d /\ d <= 30
    <2>1. PICK lo \in Nat, hi \in Nat, m \in Nat, c \in Nat, l \in Nat, n \in Nat, b \in Nat :
              lo = 0 /\ hi = 30 /\ m = 3 /\ c = 0 /\ l = 60 /\ n = 4 /\ b = 0
      OBVIOUS
    <2>2. /\ Month(y, d, lo, hi, m, c) /\ (d < hi => Month(y, d + 1, lo, hi, m, c))
          /\ d = hi => Month(y, d + 1, d + 1, l, n, b)
      BY <1>0, <1>1, <2>1, MonthOf
    <2>3. Ledgers!DaysIn(y + c, m) = hi - lo + 1
      BY <1>0, <2>1, DaysInIs
    <2>4. (m < 12 /\ n = m + 1 /\ b = c) \/ (m = 12 /\ n = 1 /\ b = c + 1)
      BY <2>1
    <2>5. Follows(y, d, lo, hi, m, c, l, n, b)
      BY <2>2, <2>3, <2>4, Zenon DEF Follows
    <2> QED
      BY <2>5, DayInMonth, Zenon
  <1>2. CASE 31 <= d /\ d <= 60
    <2>1. PICK lo \in Nat, hi \in Nat, m \in Nat, c \in Nat, l \in Nat, n \in Nat, b \in Nat :
              lo = 31 /\ hi = 60 /\ m = 4 /\ c = 0 /\ l = 91 /\ n = 5 /\ b = 0
      OBVIOUS
    <2>2. /\ Month(y, d, lo, hi, m, c) /\ (d < hi => Month(y, d + 1, lo, hi, m, c))
          /\ d = hi => Month(y, d + 1, d + 1, l, n, b)
      BY <1>0, <1>2, <2>1, MonthOf
    <2>3. Ledgers!DaysIn(y + c, m) = hi - lo + 1
      BY <1>0, <2>1, DaysInIs
    <2>4. (m < 12 /\ n = m + 1 /\ b = c) \/ (m = 12 /\ n = 1 /\ b = c + 1)
      BY <2>1
    <2>5. Follows(y, d, lo, hi, m, c, l, n, b)
      BY <2>2, <2>3, <2>4, Zenon DEF Follows
    <2> QED
      BY <2>5, DayInMonth, Zenon
  <1>3. CASE 61 <= d /\ d <= 91
    <2>1. PICK lo \in Nat, hi \in Nat, m \in Nat, c \in Nat, l \in Nat, n \in Nat, b \in Nat :
              lo = 61 /\ hi = 91 /\ m = 5 /\ c = 0 /\ l = 121 /\ n = 6 /\ b = 0
      OBVIOUS
    <2>2. /\ Month(y, d, lo, hi, m, c) /\ (d < hi => Month(y, d + 1, lo, hi, m, c))
          /\ d = hi => Month(y, d + 1, d + 1, l, n, b)
      BY <1>0, <1>3, <2>1, MonthOf
    <2>3. Ledgers!DaysIn(y + c, m) = hi - lo + 1
      BY <1>0, <2>1, DaysInIs
    <2>4. (m < 12 /\ n = m + 1 /\ b = c) \/ (m = 12 /\ n = 1 /\ b = c + 1)
      BY <2>1
    <2>5. Follows(y, d, lo, hi, m, c, l, n, b)
      BY <2>2, <2>3, <2>4, Zenon DEF Follows
    <2> QED
      BY <2>5, DayInMonth, Zenon
  <1>4. CASE 92 <= d /\ d <= 121
    <2>1. PICK lo \in Nat, hi \in Nat, m \in Nat, c \in Nat, l \in Nat, n \in Nat, b \in Nat :
              lo = 92 /\ hi = 121 /\ m = 6 /\ c = 0 /\ l = 152 /\ n = 7 /\ b = 0
      OBVIOUS
    <2>2. /\ Month(y, d, lo, hi, m, c) /\ (d < hi => Month(y, d + 1, lo, hi, m, c))
          /\ d = hi => Month(y, d + 1, d + 1, l, n, b)
      BY <1>0, <1>4, <2>1, MonthOf
    <2>3. Ledgers!DaysIn(y + c, m) = hi - lo + 1
      BY <1>0, <2>1, DaysInIs
    <2>4. (m < 12 /\ n = m + 1 /\ b = c) \/ (m = 12 /\ n = 1 /\ b = c + 1)
      BY <2>1
    <2>5. Follows(y, d, lo, hi, m, c, l, n, b)
      BY <2>2, <2>3, <2>4, Zenon DEF Follows
    <2> QED
      BY <2>5, DayInMonth, Zenon
  <1>5. CASE 122 <= d /\ d <= 152
    <2>1. PICK lo \in Nat, hi \in Nat, m \in Nat, c \in Nat, l \in Nat, n \in Nat, b \in Nat :
              lo = 122 /\ hi = 152 /\ m = 7 /\ c = 0 /\ l = 183 /\ n = 8 /\ b = 0
      OBVIOUS
    <2>2. /\ Month(y, d, lo, hi, m, c) /\ (d < hi => Month(y, d + 1, lo, hi, m, c))
          /\ d = hi => Month(y, d + 1, d + 1, l, n, b)
      BY <1>0, <1>5, <2>1, MonthOf
    <2>3. Ledgers!DaysIn(y + c, m) = hi - lo + 1
      BY <1>0, <2>1, DaysInIs
    <2>4. (m < 12 /\ n = m + 1 /\ b = c) \/ (m = 12 /\ n = 1 /\ b = c + 1)
      BY <2>1
    <2>5. Follows(y, d, lo, hi, m, c, l, n, b)
      BY <2>2, <2>3, <2>4, Zenon DEF Follows
    <2> QED
      BY <2>5, DayInMonth, Zenon
  <1>6. CASE 153 <= d /\ d <= 183
    <2>1. PICK lo \in Nat, hi \in Nat, m \in Nat, c \in Nat, l \in Nat, n \in Nat, b \in Nat :
              lo = 153 /\ hi = 183 /\ m = 8 /\ c = 0 /\ l = 213 /\ n = 9 /\ b = 0
      OBVIOUS
    <2>2. /\ Month(y, d, lo, hi, m, c) /\ (d < hi => Month(y, d + 1, lo, hi, m, c))
          /\ d = hi => Month(y, d + 1, d + 1, l, n, b)
      BY <1>0, <1>6, <2>1, MonthOf
    <2>3. Ledgers!DaysIn(y + c, m) = hi - lo + 1
      BY <1>0, <2>1, DaysInIs
    <2>4. (m < 12 /\ n = m + 1 /\ b = c) \/ (m = 12 /\ n = 1 /\ b = c + 1)
      BY <2>1
    <2>5. Follows(y, d, lo, hi, m, c, l, n, b)
      BY <2>2, <2>3, <2>4, Zenon DEF Follows
    <2> QED
      BY <2>5, DayInMonth, Zenon
  <1>7. CASE 184 <= d /\ d <= 213
    <2>1. PICK lo \in Nat, hi \in Nat, m \in Nat, c \in Nat, l \in Nat, n \in Nat, b \in Nat :
              lo = 184 /\ hi = 213 /\ m = 9 /\ c = 0 /\ l = 244 /\ n = 10 /\ b = 0
      OBVIOUS
    <2>2. /\ Month(y, d, lo, hi, m, c) /\ (d < hi => Month(y, d + 1, lo, hi, m, c))
          /\ d = hi => Month(y, d + 1, d + 1, l, n, b)
      BY <1>0, <1>7, <2>1, MonthOf
    <2>3. Ledgers!DaysIn(y + c, m) = hi - lo + 1
      BY <1>0, <2>1, DaysInIs
    <2>4. (m < 12 /\ n = m + 1 /\ b = c) \/ (m = 12 /\ n = 1 /\ b = c + 1)
      BY <2>1
    <2>5. Follows(y, d, lo, hi, m, c, l, n, b)
      BY <2>2, <2>3, <2>4, Zenon DEF Follows
    <2> QED
      BY <2>5, DayInMonth, Zenon
  <1>8. CASE 214 <= d /\ d <= 244
    <2>1. PICK lo \in Nat, hi \in Nat, m \in Nat, c \in Nat, l \in Nat, n \in Nat, b \in Nat :
              lo = 214 /\ hi = 244 /\ m = 10 /\ c = 0 /\ l = 274 /\ n = 11 /\ b = 0
      OBVIOUS
    <2>2. /\ Month(y, d, lo, hi, m, c) /\ (d < hi => Month(y, d + 1, lo, hi, m, c))
          /\ d = hi => Month(y, d + 1, d + 1, l, n, b)
      BY <1>0, <1>8, <2>1, MonthOf
    <2>3. Ledgers!DaysIn(y + c, m) = hi - lo + 1
      BY <1>0, <2>1, DaysInIs
    <2>4. (m < 12 /\ n = m + 1 /\ b = c) \/ (m = 12 /\ n = 1 /\ b = c + 1)
      BY <2>1
    <2>5. Follows(y, d, lo, hi, m, c, l, n, b)
      BY <2>2, <2>3, <2>4, Zenon DEF Follows
    <2> QED
      BY <2>5, DayInMonth, Zenon
  <1>9. CASE 245 <= d /\ d <= 274
    <2>1. PICK lo \in Nat, hi \in Nat, m \in Nat, c \in Nat, l \in Nat, n \in Nat, b \in Nat :
              lo = 245 /\ hi = 274 /\ m = 11 /\ c = 0 /\ l = 305 /\ n = 12 /\ b = 0
      OBVIOUS
    <2>2. /\ Month(y, d, lo, hi, m, c) /\ (d < hi => Month(y, d + 1, lo, hi, m, c))
          /\ d = hi => Month(y, d + 1, d + 1, l, n, b)
      BY <1>0, <1>9, <2>1, MonthOf
    <2>3. Ledgers!DaysIn(y + c, m) = hi - lo + 1
      BY <1>0, <2>1, DaysInIs
    <2>4. (m < 12 /\ n = m + 1 /\ b = c) \/ (m = 12 /\ n = 1 /\ b = c + 1)
      BY <2>1
    <2>5. Follows(y, d, lo, hi, m, c, l, n, b)
      BY <2>2, <2>3, <2>4, Zenon DEF Follows
    <2> QED
      BY <2>5, DayInMonth, Zenon
  <1>10. CASE 275 <= d /\ d <= 305
    <2>1. PICK lo \in Nat, hi \in Nat, m \in Nat, c \in Nat, l \in Nat, n \in Nat, b \in Nat :
              lo = 275 /\ hi = 305 /\ m = 12 /\ c = 0 /\ l = 336 /\ n = 1 /\ b = 1
      OBVIOUS
    <2>2. /\ Month(y, d, lo, hi, m, c) /\ (d < hi => Month(y, d + 1, lo, hi, m, c))
          /\ d = hi => Month(y, d + 1, d + 1, l, n, b)
      BY <1>0, <1>10, <2>1, MonthOf
    <2>3. Ledgers!DaysIn(y + c, m) = hi - lo + 1
      BY <1>0, <2>1, DaysInIs
    <2>4. (m < 12 /\ n = m + 1 /\ b = c) \/ (m = 12 /\ n = 1 /\ b = c + 1)
      BY <2>1
    <2>5. Follows(y, d, lo, hi, m, c, l, n, b)
      BY <2>2, <2>3, <2>4, Zenon DEF Follows
    <2> QED
      BY <2>5, DayInMonth, Zenon
  <1>11. CASE 306 <= d /\ d <= 336
    <2>1. PICK lo \in Nat, hi \in Nat, m \in Nat, c \in Nat, l \in Nat, n \in Nat, b \in Nat :
              lo = 306 /\ hi = 336 /\ m = 1 /\ c = 1 /\ l = 365 /\ n = 2 /\ b = 1
      OBVIOUS
    <2>2. /\ Month(y, d, lo, hi, m, c) /\ (d < hi => Month(y, d + 1, lo, hi, m, c))
          /\ d = hi => Month(y, d + 1, d + 1, l, n, b)
      BY <1>0, <1>11, <2>1, MonthOf
    <2>3. Ledgers!DaysIn(y + c, m) = hi - lo + 1
      BY <1>0, <2>1, DaysInIs
    <2>4. (m < 12 /\ n = m + 1 /\ b = c) \/ (m = 12 /\ n = 1 /\ b = c + 1)
      BY <2>1
    <2>5. Follows(y, d, lo, hi, m, c, l, n, b)
      BY <2>2, <2>3, <2>4, Zenon DEF Follows
    <2> QED
      BY <2>5, DayInMonth, Zenon
  <1>12. CASE 337 <= d
    <2>1. PICK lo \in Nat, hi \in Nat, m \in Nat, c \in Nat, l \in Nat, n \in Nat, b \in Nat :
              lo = 337 /\ m = 2 /\ c = 1 /\ l = 30 /\ n = 3 /\ b = 1 /\ hi = IF Ledgers!Leap(y + 1) THEN 365 ELSE 364
      OBVIOUS
    <2>2. Month(y, d, lo, hi, m, c) /\ Month(y, d + 1, lo, hi, m, c) /\ d < hi
      <3>1. Month(y, d, 337, 365, 2, 1) /\ Month(y, d + 1, 337, 365, 2, 1)
        BY <1>0, <1>12, MonthOf
      <3>2. d < hi /\ d + 1 <= hi
        BY <2>1
      <3> QED
        BY <2>1, <3>1, <3>2 DEF Month
    <2>3. Ledgers!DaysIn(y + c, m) = hi - lo + 1
      BY <1>0, <2>1, DaysInIs
    <2>4. m < 12 /\ n = m + 1 /\ b = c /\ d # hi
      BY <2>1, <2>2
    <2>5. Follows(y, d, lo, hi, m, c, l, n, b)
      BY <2>2, <2>3, <2>4, Zenon DEF Follows
    <2> QED
      BY <2>5, DayInMonth, Zenon
  <1> QED
    BY <1>1, <1>2, <1>3, <1>4, <1>5, <1>6, <1>7, <1>8, <1>9, <1>10, <1>11, <1>12

\* The last day of a year is followed by the first of the next.
LEMMA LastDay ==
    ASSUME NEW y \in Nat, NEW d \in Nat,
           (d = 365 /\ Ledgers!Leap(y + 1)) \/ (d = 364 /\ ~Ledgers!Leap(y + 1))
    PROVE  Ledgers!DayAfter(Ledgers!MarchDate(y, d)) = Ledgers!MarchDate(y + 1, 0)
  <1>1. y + 1 \in Nat /\ (y + 1) + 0 = y + 1 /\ 337 <= d /\ d <= 365 /\ 2 < 12
    OBVIOUS
  <1>2. Month(y, d, 337, 365, 2, 1)
    BY <1>1, MonthOf
  <1>3. Month(y + 1, 0, 0, 30, 3, 0)
    BY <1>1, MonthOf
  <1>4. Ledgers!MarchDate(y + 1, 0) = <<y + 1, 3, 1>>
    BY <1>1, <1>3 DEF Month
  <1>5. ~(d - 337 + 1 < Ledgers!DaysIn(y + 1, 2))
    BY <1>1, DaysInIs
  <1>6. Ledgers!DayAfter(<<y + 1, 2, d - 337 + 1>>) = <<y + 1, 3, 1>>
    <2>1. PICK v \in Nat, m \in Nat, x \in Nat : v = y + 1 /\ m = 2 /\ x = d - 337 + 1
      BY <1>1
    <2>2. Ledgers!DayAfter(<<v, m, x>>) =
              IF x < Ledgers!DaysIn(v, m) THEN <<v, m, x + 1>> ELSE IF m < 12 THEN <<v, m + 1, 1>> ELSE <<v + 1, 1, 1>>
      BY AfterIs
    <2>3. ~(x < Ledgers!DaysIn(v, m)) /\ m < 12 /\ m + 1 = 3
      BY <1>5, <2>1
    <2>4. Ledgers!DayAfter(<<v, m, x>>) = <<v, 3, 1>>
      BY <2>2, <2>3
    <2> QED
      BY <2>1, <2>4
  <1> QED
    BY <1>2, <1>4, <1>6 DEF Month

\* A year that is long from March to March is the one before a leap year.
LEMMA LeapIs ==
    ASSUME NEW era \in Nat, NEW y \in Nat, y <= 399
    PROVE  Ledgers!Leap((y + era * 400) + 1) <=> Long(y)
  <1>1. PICK x \in Nat : x = (y + era * 400) + 1
    BY SMT
  <1>2. /\ x % 4 = 0 <=> x = 4 * (x \div 4)
        /\ x % 100 = 0 <=> x = 100 * (x \div 100)
        /\ x % 400 = 0 <=> x = 400 * (x \div 400)
    BY SMT
  <1>3. PICK a \in Nat, b \in Nat, c \in Nat :
            /\ a = x \div 4 /\ 4 * a <= x /\ x < 4 * a + 4
            /\ b = x \div 100 /\ 100 * b <= x /\ x < 100 * b + 100
            /\ c = x \div 400 /\ 400 * c <= x /\ x < 400 * c + 400
    BY Quotients
  <1>4. PICK q \in Nat, h \in Nat :
            q = y \div 4 /\ h = y \div 100 /\ 4 * q <= y /\ y < 4 * q + 4 /\ 100 * h <= y /\ y < 100 * h + 100
    BY Quotients
  <1>5. x = 4 * a <=> y = 4 * q + 3
    BY <1>1, <1>3, <1>4, SMT
  <1>6. x = 100 * b <=> y = 100 * h + 99
    BY <1>1, <1>3, <1>4, SMT
  <1>7. x = 400 * c <=> y = 399
    BY <1>1, <1>3, SMT
  <1>8. Ledgers!Leap(x) <=> (y = 4 * q + 3 /\ ~(y = 100 * h + 99)) \/ y = 399
    BY <1>2, <1>3, <1>5, <1>6, <1>7 DEF Ledgers!Leap
  <1>9. y = 399 => y = 4 * q + 3
    BY <1>4, SMT
  <1> QED
    BY <1>1, <1>4, <1>8, <1>9 DEF Long

\* The next day has the next date.
LEMMA NextDate ==
    ASSUME NEW z \in Nat
    PROVE  Ledgers!CivilFromDays(z + 1) = Ledgers!DayAfter(Ledgers!CivilFromDays(z))
  <1>1. PICK era, y, d : /\ Place(era, y, d) /\ z - Ledgers!Earliest = DayAt(era, y, d)
                         /\ Ledgers!CivilFromDays(z) = Date(era, y, d)
    BY HasPlace, Zenon
  <1>2. era \in Nat /\ y \in Nat /\ d \in Nat
    BY <1>1, Zenon DEF Place
  <1>3. y <= 399 /\ d <= 365 /\ (d = 365 => Long(y))
    BY <1>1, <1>2, PlaceIs
  <1>4. Begin(y) \in Nat
    BY <1>1, DaysOfEra
  <1>5. z + 1 \in Nat /\ (z + 1) - Ledgers!Earliest = (z - Ledgers!Earliest) + 1
    BY SMT DEF Ledgers!Earliest
  <1>6. PICK x \in Nat : x = y + era * 400
    BY <1>2, SMT
  <1>7. Ledgers!Leap(x + 1) <=> Long(y)
    BY <1>2, <1>3, <1>6, LeapIs
  <1>8. CASE d < 364 \/ (d = 364 /\ Long(y))
    <2>1. d + 1 \in Nat /\ d + 1 <= 365 /\ (d + 1 = 365 => Long(y)) /\ d <= 364
      BY <1>2, <1>8
    <2>2. Place(era, y, d + 1)
      BY <1>2, <1>3, <2>1, PlaceIs
    <2>3. (z + 1) - Ledgers!Earliest = DayAt(era, y, d + 1)
      BY <1>1, <1>2, <1>4, <1>5, SMT DEF DayAt, EraDays
    <2>4. Ledgers!CivilFromDays(z + 1) = Date(era, y, d + 1)
      BY <1>5, <2>2, <2>3, DateOf
    <2>5. d = 364 => Ledgers!Leap(x + 1)
      BY <1>7, <1>8
    <2>6. Ledgers!DayAfter(Ledgers!MarchDate(x, d)) = Ledgers!MarchDate(x, d + 1)
      BY <1>2, <2>1, <2>5, NextDay
    <2> QED
      BY <1>1, <1>6, <2>4, <2>6, Zenon DEF Date
  <1>9. CASE d = 365 \/ (d = 364 /\ ~Long(y))
    <2>1. Ledgers!DayAfter(Ledgers!MarchDate(x, d)) = Ledgers!MarchDate(x + 1, 0)
      BY <1>2, <1>3, <1>7, <1>9, LastDay
    <2>2. PICK q \in Nat, h \in Nat :
              q = y \div 4 /\ h = y \div 100 /\ 4 * q <= y /\ y < 4 * q + 4 /\ 100 * h <= y /\ y < 100 * h + 100
      BY <1>2, Quotients
    <2>3. Begin(y) = 365 * y + q - h
      BY <2>2, Zenon DEF Begin, Offset
    <2>4. Long(y) <=> y = 4 * q + 3 /\ (y = 100 * h + 99 => y = 399)
      BY <2>2, Zenon DEF Long
    <2>5. CASE y < 399
      <3>1. y + 1 \in Nat /\ y + 1 <= 399 /\ 0 <= 365 /\ 0 # 365 /\ 0 \in Nat
        BY <1>2, <2>5
      <3>2. Place(era, y + 1, 0)
        BY <1>2, <3>1, PlaceIs
      <3>3. PICK r \in Nat, g \in Nat :
                /\ r = (y + 1) \div 4 /\ g = (y + 1) \div 100
                /\ 4 * r <= y + 1 /\ y + 1 < 4 * r + 4 /\ 100 * g <= y + 1 /\ y + 1 < 100 * g + 100
        BY <3>1, Quotients
      <3>4. Begin(y + 1) = 365 * (y + 1) + r - g
        BY <3>3, Zenon DEF Begin, Offset
      <3>5. 365 * (y + 1) + r - g = 365 * y + q - h + d + 1
        <4>1. r = IF y = 4 * q + 3 THEN q + 1 ELSE q
          BY <1>2, <2>2, <3>3, SMT
        <4>2. g = IF y = 100 * h + 99 THEN h + 1 ELSE h
          BY <1>2, <2>2, <3>3, SMT
        <4>3. y = 100 * h + 99 => y = 4 * q + 3
          BY <1>2, <2>2, SMT
        <4> QED
          BY <1>2, <1>3, <1>9, <2>4, <2>5, <4>1, <4>2, <4>3, SMT
      <3>6. (z + 1) - Ledgers!Earliest = DayAt(era, y + 1, 0)
        BY <1>1, <1>2, <1>5, <2>3, <3>4, <3>5, SMT DEF DayAt, EraDays
      <3>7. Ledgers!CivilFromDays(z + 1) = Date(era, y + 1, 0)
        BY <1>5, <3>2, <3>6, DateOf
      <3>8. (y + 1) + era * 400 = x + 1
        BY <1>2, <1>6, SMT
      <3> QED
        BY <1>1, <1>6, <2>1, <3>7, <3>8, Zenon DEF Date
    <2>6. CASE y = 399
      <3>1. era + 1 \in Nat /\ 0 <= 399 /\ 0 <= 365 /\ 0 # 365 /\ 0 \in Nat
        BY <1>2
      <3>2. Place(era + 1, 0, 0)
        BY <3>1, PlaceIs
      <3>3. q = 99 /\ h = 3
        BY <2>2, <2>6, SMT
      <3>4. d = 365
        BY <1>9, <2>4, <2>6, <3>3, SMT
      <3>5. Begin(0) = 0
        BY SMT DEF Begin, Offset
      <3>6. (z + 1) - Ledgers!Earliest = DayAt(era + 1, 0, 0)
        BY <1>1, <1>2, <1>5, <2>3, <2>6, <3>3, <3>4, <3>5, SMT DEF DayAt, EraDays
      <3>7. Ledgers!CivilFromDays(z + 1) = Date(era + 1, 0, 0)
        BY <1>5, <3>2, <3>6, DateOf
      <3>8. 0 + (era + 1) * 400 = x + 1
        BY <1>2, <1>6, <2>6, SMT
      <3> QED
        BY <1>1, <1>6, <2>1, <3>7, <3>8, Zenon DEF Date
    <2> QED
      BY <1>2, <1>3, <2>5, <2>6
  <1> QED
    BY <1>2, <1>3, <1>8, <1>9

\* The watchdog reads from a date the day it was written for.
LEMMA ReadBack ==
    ASSUME NEW z \in Nat, NEW date, date = Ledgers!CivilFromDays(z)
    PROVE  Ledgers!CivilToDays(date[1], date[2], date[3]) = z
  <1>1. PICK era, y, d : /\ Place(era, y, d) /\ z - Ledgers!Earliest = DayAt(era, y, d)
                         /\ date = Date(era, y, d)
    BY HasPlace, Zenon
  <1>2. era \in Nat /\ y \in Nat /\ d \in Nat
    BY <1>1, Zenon DEF Place
  <1>3. y <= 399 /\ d <= 365
    BY <1>1, <1>2, PlaceIs
  <1>4. PICK x \in Nat : x = y + era * 400
    BY <1>2, SMT
  <1>5. PICK mp \in Nat : mp = (5 * d + 2) \div 153 /\ 153 * mp <= 5 * d + 2 /\ 5 * d + 2 < 153 * mp + 153
    <2>1. PICK n \in Nat : n = 5 * d + 2
      BY <1>2, SMT
    <2> QED
      BY <2>1, Quotients
  <1>6. PICK k \in Nat : k = (153 * mp + 2) \div 5
    <2>1. PICK n \in Nat : n = 153 * mp + 2
      BY SMT
    <2> QED
      BY <2>1, Quotients
  <1>7. PICK m \in Int : m = IF mp < 10 THEN mp + 3 ELSE mp - 9
    BY SMT
  <1>8. PICK v \in Nat : v = x + (IF m <= 2 THEN 1 ELSE 0)
    BY SMT
  <1>9. PICK w \in Int : w = d - k + 1
    BY <1>2, SMT
  <1>10. date = <<v, m, w>>
    BY <1>1, <1>4, <1>5, <1>6, <1>7, <1>8, <1>9, SMT DEF Date, Ledgers!MarchDate
  <1>11. date[1] = v /\ date[2] = m /\ date[3] = w
    BY <1>10
  <1>12. x = IF m <= 2 THEN v - 1 ELSE v
    BY <1>8, SMT
  <1>13. mp = IF m > 2 THEN m - 3 ELSE m + 9
    BY <1>2, <1>3, <1>5, <1>7, SMT
  <1>14. era = x \div 400 /\ y = x - era * 400
    <2>1. 400 * era <= x /\ x < 400 * era + 400
      BY <1>2, <1>3, <1>4, SMT
    <2> QED
      BY <1>2, <1>4, <2>1, SMT
  <1>15. d = k + w - 1
    BY <1>2, <1>9, SMT
  <1>16. PICK q \in Nat, h \in Nat : q = y \div 4 /\ h = y \div 100
    BY <1>2, Quotients
  <1>17. PICK doe \in Int : doe = y * 365 + q - h + d
    BY <1>2, SMT
  <1>18. Ledgers!CivilToDays(v, m, w) = era * 146097 + doe + Ledgers!Earliest
    BY <1>6, <1>12, <1>13, <1>14, <1>15, <1>16, <1>17, SMT DEF Ledgers!CivilToDays
  <1>19. Begin(y) = 365 * y + q - h
    BY <1>16, Zenon DEF Begin, Offset
  <1> QED
    BY <1>1, <1>2, <1>11, <1>17, <1>18, <1>19, SMT DEF DayAt, EraDays, Ledgers!Earliest

\* Day 0.
LEMMA DayZero == Ledgers!CivilFromDays(0) = <<1970, 1, 1>>
  <1>1. PICK y \in Nat, q \in Nat, h \in Nat, d \in Nat, era \in Nat, x \in Nat :
            y = 369 /\ q = 92 /\ h = 3 /\ d = 306 /\ era = 4 /\ x = 1969
    BY SMT
  <1>2. q = y \div 4 /\ h = y \div 100
    BY <1>1, SMT
  <1>3. Place(era, y, d)
    <2>1. y <= 399 /\ d <= 365 /\ d # 365
      BY <1>1
    <2> QED
      BY <2>1, PlaceIs
  <1>4. Begin(y) = 365 * y + q - h
    BY <1>2, Zenon DEF Begin, Offset
  <1>5. 0 - Ledgers!Earliest = DayAt(era, y, d)
    BY <1>1, <1>4, SMT DEF DayAt, EraDays, Ledgers!Earliest
  <1>6. 0 \in Nat
    OBVIOUS
  <1>7. Ledgers!CivilFromDays(0) = Date(era, y, d)
    BY <1>3, <1>5, <1>6, DateOf
  <1>8. x = y + era * 400
    BY <1>1, SMT
  <1>9. Month(x, d, 306, 336, 1, 1)
    <2>1. 306 <= d /\ d <= 336
      BY <1>1
    <2> QED
      BY <2>1, MonthOf
  <1>10. Ledgers!MarchDate(x, d) = <<1970, 1, 1>>
    <2>1. x + 1 = 1970 /\ d - 306 + 1 = 1
      BY <1>1
    <2> QED
      BY <1>9, <2>1 DEF Month
  <1> QED
    BY <1>7, <1>8, <1>10 DEF Date

\* Dates are those of the calendar.
LEMMA CalendarIsExact ==
    ASSUME NEW z \in Nat
    PROVE  Ledgers!CalendarExact(z, Ledgers!CivilFromDays(z))
  <1>1. PICK date : date = Ledgers!CivilFromDays(z)
    OBVIOUS
  <1>2. z = 0 => date = <<1970, 1, 1>>
    BY <1>1, DayZero
  <1>3. Ledgers!CivilFromDays(z + 1) = Ledgers!DayAfter(date)
    BY <1>1, NextDate
  <1>4. Ledgers!CivilToDays(date[1], date[2], date[3]) = z
    BY <1>1, ReadBack
  <1> QED
    BY <1>1, <1>2, <1>3, <1>4 DEF Ledgers!CalendarExact

=============================================================================
