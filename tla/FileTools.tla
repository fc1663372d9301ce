----------------------------- MODULE FileTools -----------------------------
(***************************************************************************)
(* What the file tools (tools/fs.rs) and the syntax-tree tools             *)
(* (tools/ast.rs) compute: the lines that are read, the edit of a text     *)
(* with its line endings, the walks of a directory, the rewrite of a batch *)
(* of files.  The writes themselves are in FileWrites.                     *)
(*                                                                         *)
(* A text is a sequence of characters, and a refusal of one word; "r" and  *)
(* "n" are the two characters of a line ending.  A tree is a set of        *)
(* entries, each with its path and kind; paths are below the directory     *)
(* that is walked.                                                         *)
(***************************************************************************)
EXTENDS Naturals, Sequences, FiniteSets, SequencesExt

Least(a, b) == IF a < b THEN a ELSE b

-----------------------------------------------------------------------------
(* read_file                                                               *)

Page == 800

\* No end_line among the arguments.
NoLine == 1000000

\* Counting back is saturating; the range of a slice that ends before it
\* starts stops the program.
ReadLines(total, startLine, endLine) ==
    LET start == IF startLine = 0 THEN 0 ELSE startLine - 1
        end == IF endLine = NoLine THEN Least(start + Page, total) ELSE Least(endLine, total)
        from == Least(start, total)
    IN IF from > end THEN <<"panic">> ELSE <<"lines", from, end>>

\* The checks before: a state of the path, and the answer.
ReadFile(node, total, startLine, endLine) ==
    CASE node = "absent" -> <<"not found">>
      [] node = "dir" -> <<"is a directory">>
      [] node = "binary" -> <<"BinaryFile">>
      [] node = "notUtf8" -> <<"io">>
      [] OTHER -> ReadLines(total, startLine, endLine)

-----------------------------------------------------------------------------
(* edit_file                                                               *)

At(text, i, part) ==
    i + Len(part) - 1 <= Len(text) /\ SubSeq(text, i, i + Len(part) - 1) = part

Has(text, part) == \E i \in DOMAIN text : At(text, i, part)

\* str::replacen and replace: the first n places where part is found, from the
\* left and without overlap, become new.
Replaced(text, part, new, n) ==
    LET Copy(s, i) ==
            CASE s.skip > 0 -> [s EXCEPT !.skip = @ - 1]
              [] s.skip = 0 /\ s.found < n /\ At(text, i, part) ->
                    [out |-> s.out \o new, skip |-> Len(part) - 1, found |-> s.found + 1]
              [] OTHER -> [s EXCEPT !.out = Append(@, text[i])]
    IN FoldLeftDomain(Copy, [out |-> <<>>, skip |-> 0, found |-> 0], text)

ReplaceFirst(text, part, new, n) == Replaced(text, part, new, n).out

\* str::matches(..).count()
Count(text, part) == Replaced(text, part, part, Len(text)).found

Crlf == <<"r", "n">>
Lf == <<"n">>

ToLf(t) == ReplaceFirst(t, Crlf, Lf, Len(t))
ToCrlf(t) == ReplaceFirst(ToLf(t), Lf, Crlf, 2 * Len(t))

HasCrlf(t) == Has(t, Crlf)
HasBareLf(t) == Has(ReplaceFirst(t, Crlf, <<>>, Len(t)), Lf)

LineEndingStyle(t) ==
    CASE HasCrlf(t) /\ HasBareLf(t) -> "mixed"
      [] HasCrlf(t) /\ ~HasBareLf(t) -> "crlf"
      [] ~HasCrlf(t) /\ HasBareLf(t) -> "lf"
      [] OTHER -> "none"

NormalizeLineEndings(t, style) ==
    CASE style = "crlf" -> ToCrlf(t)
      [] style = "lf" -> ToLf(t)
      [] OTHER -> t

\* The target as the file writes it, with the style its replacement takes.
EffectiveTarget(text, target) ==
    CASE Has(text, target) -> [part |-> target, style |-> LineEndingStyle(target)]
      [] ~Has(text, target) /\ Has(text, ToCrlf(target)) ->
            [part |-> ToCrlf(target), style |-> "crlf"]
      [] ~Has(text, target) /\ ~Has(text, ToCrlf(target)) /\ Has(text, ToLf(target)) ->
            [part |-> ToLf(target), style |-> "lf"]
      [] OTHER -> [part |-> <<>>, style |-> "none"]

EditFile(text, target, replacement, all) ==
    LET eff == EffectiveTarget(text, target)
        count == Count(text, eff.part)
    IN CASE target = <<>> -> <<"empty target">>
         [] target # <<>> /\ eff.part = <<>> -> <<"not found">>
         [] eff.part # <<>> /\ count > 1 /\ ~all -> <<"ambiguous">>
         [] OTHER -> ReplaceFirst(text, eff.part, NormalizeLineEndings(replacement, eff.style),
                                  IF all THEN count ELSE 1)

-----------------------------------------------------------------------------
(* list_dir and search_code                                                *)

Ignored == {".git", "target"}
EnvFiles == {".env"}

\* Every path has one entry, and what is not at the top is below an entry.
IsTree(tree) ==
    /\ tree \subseteq [path : Seq(STRING), kind : {"dir", "file"}, readable : BOOLEAN]
    /\ \A e \in tree :
          /\ e.path # <<>>
          /\ \A f \in tree : f.path = e.path => f = e
          /\ Len(e.path) > 1 => \E f \in tree : f.path = Front(e.path)

Entry(tree, path) == CHOOSE e \in tree : e.path = path
Children(tree, dirs) == {e \in tree : Front(e.path) \in dirs}
Name(e) == Last(e.path)

\* The items, level by level: the entries below a directory that was listed at the
\* level above; an unreadable directory is listed, and adds nothing.
ListDir(tree, maxDepth) ==
    LET Seen(dirs) == {e \in Children(tree, dirs) : Name(e) \notin Ignored}
        level[depth \in 0..maxDepth] ==
            IF depth = 0 THEN {}
            ELSE IF depth = 1 THEN Seen({<<>>})
            ELSE Seen({d.path : d \in {e \in level[depth - 1] : e.kind = "dir" /\ e.readable}})
    IN UNION {level[depth] : depth \in 0..maxDepth}

\* The listing says that it is partial.
Partial(tree, items, maxDepth) ==
    \E e \in items : e.kind = "dir" /\ ~e.readable /\ Len(e.path) < maxDepth

TextFiles ==
    [path : Seq(STRING), kind : {"dir", "file"}, small : BOOLEAN, binary : BOOLEAN,
     readable : BOOLEAN, lines : Seq(BOOLEAN)]

\* The files that are searched, in the order the directories are read.
Searched(file) ==
    /\ \A i \in DOMAIN file.path : file.path[i] \notin Ignored \cup EnvFiles
    /\ file.kind = "file"
    /\ file.small
    /\ ~file.binary
    /\ file.readable

\* The numbers of the lines of one file that match, up to the room that is left.
FileMatches(file, room) ==
    FoldLeftDomain(LAMBDA found, i :
        IF file.lines[i] /\ Len(found) < room THEN Append(found, <<file.path, i>>) ELSE found,
        <<>>, file.lines)

\* Mutant of FallbackSearch: every file has the whole limit for itself.
SearchEach(files, maxResults) ==
    FoldLeft(LAMBDA found, f :
        IF ~Searched(f) THEN found ELSE found \o FileMatches(f, maxResults), <<>>, files)

FallbackSearch(files, maxResults) ==
    FoldLeft(LAMBDA found, f :
        IF Len(found) >= maxResults \/ ~Searched(f) THEN found
        ELSE found \o FileMatches(f, maxResults - Len(found)), <<>>, files)

\* git_grep: the exit code, the lines it printed, and what is said of them.
GitGrep(exitCode, lines, maxResults) ==
    CASE exitCode = 1 -> [shown |-> 0, more |-> 0, error |-> FALSE]
      [] exitCode = 0 -> [shown |-> Least(lines, maxResults),
                          more |-> IF lines > maxResults THEN lines - maxResults ELSE 0,
                          error |-> FALSE]
      [] OTHER -> [shown |-> 0, more |-> 0, error |-> TRUE]

\* search_code: a repository anywhere above takes the question.
SearchCode(inRepo, git, files, maxResults) ==
    IF inRepo THEN GitGrep(git.exitCode, git.lines, maxResults)
    ELSE [shown |-> Len(FallbackSearch(files, maxResults)), more |-> 0, error |-> FALSE]

-----------------------------------------------------------------------------
(* ast_search and ast_replace                                              *)

\* A file of the batch: whether its language is the one asked for, whether it
\* can be read, its matches, and what the rewrite of it comes to.
Candidate(file) == file.lang /\ file.readable

\* A batch has each file once.
IsBatch(files) ==
    /\ files \in Seq([name : Nat, lang : BOOLEAN, readable : BOOLEAN, matches : Nat,
                     rewrite : {"same", "invalid", "writeFails", "written"}])
    /\ \A i, j \in DOMAIN files : files[i].name = files[j].name => i = j

\* ast_search stops at the global limit.
AstSearch(files, maxMatches) ==
    FoldLeft(LAMBDA n, f :
        IF n >= maxMatches \/ ~Candidate(f) THEN n ELSE Least(maxMatches, n + f.matches),
        0, files)

NoSummary == [applied |-> {}, rolledBack |-> {}, replacements |-> 0]

\* One file of ast_replace: left as it is without a match, or when the
\* rewrite does not parse or cannot be written.
ReplaceIn(summary, file) ==
    CASE ~Candidate(file) \/ file.rewrite = "same" -> summary
      [] Candidate(file) /\ file.rewrite \in {"invalid", "writeFails"} ->
            [summary EXCEPT !.rolledBack = @ \cup {file.name}]
      [] OTHER -> [summary EXCEPT !.applied = @ \cup {file.name},
                                  !.replacements = @ + file.matches]

AstReplace(files) == FoldLeft(ReplaceIn, NoSummary, files)

\* replace_range on the text: at is the offset of the first character.
Replace(text, edit) ==
    SubSeq(text, 1, edit.at) \o edit.new \o SubSeq(text, edit.at + edit.len + 1, Len(text))

\* The edits in reverse source order.
Splice(text, edits) == FoldLeft(Replace, text, Reverse(edits))

-----------------------------------------------------------------------------
(* Reference definitions                                                   *)

\* Lines that exist are shown when some are asked for, and never another.
LinesExact(total, first, last, answer) ==
    answer # <<"panic">> =>
        {i \in 1..total : answer[2] < i /\ i <= answer[3]} =
        {i \in 1..total : i >= first /\ i <= (IF last = NoLine THEN
                             (IF first = 0 THEN Page ELSE first - 1 + Page) ELSE last)}

\* An edit of a file with one kind of line ending, CR LF, keeps it that way when
\* its target is found as lines of that kind, cutting no ending in two.
StyleKept(text, target, answer) ==
    /\ answer \notin {<<"empty target">>, <<"not found">>, <<"ambiguous">>}
    /\ LineEndingStyle(text) = "crlf"
    /\ EffectiveTarget(text, target).style = "crlf"
    /\ Head(target) # "n"
    /\ Last(target) # "r"
    => LineEndingStyle(answer) \in {"crlf", "none"}

\* The entries within reach: nothing on the way to them is ignored or closed.
Listed(tree, maxDepth) ==
    {e \in tree :
        /\ Len(e.path) <= maxDepth
        /\ \A i \in DOMAIN e.path : e.path[i] \notin Ignored
        /\ \A n \in 1..Len(e.path) - 1 :
              /\ Entry(tree, SubSeq(e.path, 1, n)).kind = "dir"
              /\ Entry(tree, SubSeq(e.path, 1, n)).readable}

\* A listing that leaves out what a closed directory within reach may hold says so.
PartialTold(tree, maxDepth, partial) ==
    ~partial =>
        LET open == {[e EXCEPT !.readable = TRUE] : e \in tree}
            paths(es) == {e.path : e \in es}
        IN paths(Listed(open, maxDepth)) = paths(Listed(tree, maxDepth))

\* What git found is shown or counted as more; no answer exceeds the limit.
CountsAdd(inRepo, git, maxResults, s) ==
    /\ s.shown <= maxResults
    /\ inRepo /\ git.exitCode = 0 => s.shown + s.more = git.lines
    /\ s.error <=> inRepo /\ git.exitCode \notin {0, 1}

\* The first maxResults of all matching lines of the files that are searched.
FirstMatches(files, maxResults) ==
    LET every == FlattenSeq([i \in DOMAIN files |->
                     IF Searched(files[i]) THEN FileMatches(files[i], Len(files[i].lines))
                     ELSE <<>>])
    IN SubSeq(every, 1, Least(maxResults, Len(every)))

\* Every edit where the source had it, and nothing else changed.
Spliced(text, edits) ==
    FlattenSeq([i \in 1..Len(text) + 1 |->
        LET starting == SelectSeq(edits, LAMBDA e : e.at = i - 1)
            covered == \E k \in DOMAIN edits :
                          edits[k].at < i /\ i <= edits[k].at + edits[k].len
        IN FlattenSeq([k \in DOMAIN starting |-> starting[k].new])
           \o (IF covered \/ i > Len(text) THEN <<>> ELSE <<text[i]>>)])

\* The matches of a batch, all of them.
AllMatches(files) ==
    FoldLeft(LAMBDA n, f : IF Candidate(f) THEN n + f.matches ELSE n, 0, files)

\* The matches of the files of these names.
MatchesIn(files, names) ==
    FoldLeft(LAMBDA n, f : IF f.name \in names THEN n + f.matches ELSE n, 0, files)

\* The summary of a batch: the replacements are those of the files it names as
\* applied, and no file is both applied and rolled back.
SummaryExact(files, s) ==
    /\ s.applied \cap s.rolledBack = {}
    /\ s.replacements = MatchesIn(files, s.applied)
=============================================================================
