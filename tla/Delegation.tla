----------------------------- MODULE Delegation -----------------------------
(***************************************************************************)
(* The gate on delegated prompts (mcp/dgi.rs): the files a prompt names,   *)
(* what it wants done to each, and the verdict on its size.                *)
(*                                                                         *)
(* A prompt is known by the sequence of its file mentions.  A mention has  *)
(* the path without a repository name (tail), the length the repository    *)
(* name adds (alias), whether it is a test file, its subsystem, the words  *)
(* of its sentence before it that count (before), whether a colon follows, *)
(* and what separates it from the mention before it (sep): a list          *)
(* separator, text with "and", "then" or "plus" in it, or anything else.   *)
(* The patterns that find all this in the text are not modelled.           *)
(***************************************************************************)
EXTENDS Naturals, Sequences, FiniteSets, SequencesExt

Unnamed == {"root", "tests", "js/root", "js/tests"}

-----------------------------------------------------------------------------
(* features                                                                *)

PromptFacts ==
    [mentions : Seq([tail : STRING, alias : Nat, test : BOOLEAN, subsystem : STRING,
                     before : SUBSET STRING, colon : BOOLEAN, sep : STRING]),
     nchars : Nat, vbl : Nat, dverb : Nat, readonly : BOOLEAN, gate : BOOLEAN, families : Nat]

\* Of the mentions of one path the longest counts, the first of those.
Kept(ms) ==
    {i \in DOMAIN ms : \A j \in DOMAIN ms :
        ms[j].tail = ms[i].tail =>
            \/ ms[j].alias < ms[i].alias
            \/ ms[j].alias = ms[i].alias /\ i <= j}

\* The role a mention has by its own context.
FirstRole(m) ==
    CASE m.colon \/ ("build" \in m.before /\ "read" \notin m.before) -> "target"
      [] /\ ~m.colon
         /\ "read" \in m.before \/ (m.test /\ "build" \notin m.before) -> "ref"
      [] OTHER -> "plain"

\* Whether the text from the end of mention i to mention j continues a list: it
\* begins with a separator, or has one of the words and no full stop (which the
\* path of a mention between the two would have).
Continues(ms, i, j) ==
    \/ ms[i + 1].sep = "list"
    \/ j = i + 1 /\ ms[j].sep = "word"

\* The walk from one target: over the mentions after it, until one that does not
\* continue the list.
Pass(ms, i, walk, k) ==
    CASE k <= i \/ k \notin Kept(ms) \/ ~walk.goes -> walk
      [] k > i /\ k \in Kept(ms) /\ walk.goes /\ walk.roles[k] = "target" ->
            [walk EXCEPT !.last = k]
      [] OTHER ->
            IF Continues(ms, walk.last, k) THEN [walk EXCEPT !.roles[k] = "target", !.last = k]
            ELSE [walk EXCEPT !.goes = FALSE]

Walk(ms, i, roles) ==
    FoldLeftDomain(LAMBDA walk, k : Pass(ms, i, walk, k),
                   [roles |-> roles, last |-> i, goes |-> TRUE], ms)

Spread(ms, roles, i) == Walk(ms, i, roles).roles

SpreadAll(ms, first) ==
    FoldLeftDomain(LAMBDA roles, i :
        IF i \in Kept(ms) /\ roles[i] = "target" THEN Spread(ms, roles, i) ELSE roles, first, ms)

Roles(ms) == SpreadAll(ms, [i \in Kept(ms) |-> FirstRole(ms[i])])

\* Paths of the state directory and of /tmp are no files of the project.
Files(ms) == {i \in Kept(ms) : "state" \notin ms[i].before}

Subsystems(ms, some) == {ms[i].subsystem : i \in {j \in some : ~ms[j].test}} \ Unnamed

Features(p) ==
    LET files == Files(p.mentions)
        targets == {i \in files : Roles(p.mentions)[i] = "target"}
        subs == Subsystems(p.mentions, files)
    IN [nchars |-> p.nchars, vbl |-> p.vbl, dverb |-> p.dverb, readonly |-> p.readonly,
        single_verifier |-> p.gate /\ p.families <= 1,
        ntargets |-> Cardinality(targets),
        nsubs |-> Cardinality(subs),
        n_target_subs |-> Cardinality(Subsystems(p.mentions, targets)),
        js_ha |-> subs \cap {"js/ha/loop"},
        nrust |-> Cardinality(subs \ {"js/ha/loop", "js/cli"})]

-----------------------------------------------------------------------------
(* evaluate                                                                *)

Bloated(f) == f.vbl >= 100 /\ (f.ntargets >= 2 \/ f.nsubs >= 2)

Signatures(f) ==
    {s \in {"H1", "H2", "H3"} :
        \/ s = "H1" /\ f.nchars > 2500
        \/ s = "H2" /\ Bloated(f)
        \/ s = "H3" /\ f.js_ha # {} /\ f.nrust >= 2}

Points(n, holds) == IF holds THEN n ELSE 0

Score(f) ==
      Points(1, f.nchars > 2000) + Points(1, f.nchars > 2500)
    + Points(f.ntargets - 1, f.ntargets > 1)
    + Points(1, f.n_target_subs >= 2) + Points(1, f.n_target_subs >= 3)
    + Points(1, f.dverb >= 4)
    + Points(2, Bloated(f))
    + Points(1, ~f.single_verifier /\ ~f.readonly)

Evaluate(p) ==
    LET f == Features(p)
    IN CASE Signatures(f) # {} -> [kind |-> "Reject", score |-> 0]
         [] Signatures(f) = {} /\ Score(f) >= 2 -> [kind |-> "Review", score |-> Score(f)]
         [] OTHER -> [kind |-> "Admit", score |-> 0]

-----------------------------------------------------------------------------
(* What the gate promises                                                  *)

\* The files a prompt wants written: those asked for, and those that a list
\* carries on from one of them without a break.
Wanted(ms) ==
    {j \in Kept(ms) :
        \E i \in Kept(ms) :
            /\ i <= j
            /\ FirstRole(ms[i]) = "target"
            /\ \A l \in {k \in Kept(ms) : i < k /\ k <= j /\ FirstRole(ms[k]) # "target"} :
                 Continues(ms, CHOOSE k \in Kept(ms) :
                                  k < l /\ \A n \in Kept(ms) : n < l => n <= k, l)}

TargetsExact(ms) == {i \in Kept(ms) : Roles(ms)[i] = "target"} = Wanted(ms)

Heavier(v, w) ==
    \/ v.kind = "Reject"
    \/ v.kind = "Review" /\ w.kind \in {"Review", "Admit"} /\ v.score >= w.score
    \/ v.kind = "Admit" /\ w.kind = "Admit"

\* A prompt that names one more file, at its end, is not judged more lightly.
NotLighter(p, m) ==
    m.tail \notin {p.mentions[i].tail : i \in DOMAIN p.mentions} =>
        Heavier(Evaluate([p EXCEPT !.mentions = Append(@, m)]), Evaluate(p))
=============================================================================
