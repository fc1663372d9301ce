---------------------------- MODULE PathSandbox ----------------------------
(***************************************************************************)
(* The containment layers of tools/sandbox.rs, and the resolve of the file *)
(* and syntax-tree tools that runs them in order.                          *)
(*                                                                         *)
(* A path is the sequence of its components below "/".  A file system maps *)
(* paths to nodes: a directory, a file, or a link to an absolute path.  A   *)
(* refusal is a sequence too, of one word that is no name.                  *)
(***************************************************************************)
EXTENDS Naturals, Sequences, SequencesExt

CONSTANTS
    MaxLinks,    \* links the operating system follows
    Missing      \* what does not resolve

Link(to) == [kind |-> "link", to |-> to]
Dir == [kind |-> "dir", to |-> <<>>]
File == [kind |-> "file", to |-> <<>>]

\* The real path of rest, seen from the real directory at.
RECURSIVE Walk(_, _, _, _)
Walk(fs, at, rest, links) ==
    IF rest = <<>> THEN at
    ELSE LET p == Append(at, Head(rest))
         IN CASE p \notin DOMAIN fs -> Missing
              [] p \in DOMAIN fs /\ fs[p].kind = "link" ->
                    IF links = 0 THEN Missing
                    ELSE Walk(fs, <<>>, fs[p].to \o Tail(rest), links - 1)
              [] p \in DOMAIN fs /\ fs[p].kind = "file" ->
                    IF Tail(rest) = <<>> THEN p ELSE Missing
              [] OTHER -> Walk(fs, p, Tail(rest), links)

Canonical(fs, p) == Walk(fs, <<>>, p, MaxLinks)

Exists(fs, p) == Canonical(fs, p) # Missing

IsWithin(p, root) == IsPrefix(root, p)

\* resolve_workspace_root: an existing directory, made real.
WorkspaceRoot(fs, p) ==
    LET real == Canonical(fs, p)
    IN IF real = Missing THEN <<"WorkspaceRoot">>
       ELSE IF real # <<>> /\ fs[real].kind # "dir" THEN <<"WorkspaceRoot">> ELSE real

-----------------------------------------------------------------------------
(* normalize_traversal                                                     *)

\* normalize_lexical; popping the root leaves the root.
NormalizeLexical(comps) ==
    FoldLeft(LAMBDA kept, c :
                 CASE c = "." -> kept
                   [] c = ".." -> IF kept = <<>> THEN kept ELSE Front(kept)
                   [] OTHER -> Append(kept, c), <<>>, comps)

\* Base names that Windows reserves (is_reserved_device).
Devices == {"CON", "NUL", "COM1"}

\* An input: whether it has a null byte, starts at "/", has a drive letter;
\* the components of a blank one are none.
NormalizeTraversal(root, input) ==
    CASE input.nul -> <<"NullByte">>
      [] ~input.nul /\ input.comps = <<>> /\ ~input.abs -> root
      [] ~input.nul /\ input.comps # <<>> /\ Last(input.comps) \in Devices -> <<"DeviceName">>
      [] OTHER ->
            LET p == IF input.abs THEN input.comps ELSE root \o input.comps
                normal == NormalizeLexical(p)
            IN IF input.drive \/ ~IsWithin(normal, root) THEN <<"PathEscape">> ELSE normal

-----------------------------------------------------------------------------
(* The other layers                                                        *)

\* The nearest proper ancestor of p that exists.
NearestAncestor(fs, p) ==
    LET some == {n \in 0..Len(p) - 1 : Exists(fs, SubSeq(p, 1, n))}
    IN SubSeq(p, 1, CHOOSE n \in some : \A m \in some : m <= n)

\* Mutant of VerifySymlinkContainment: a path that does not exist is not looked at.
VerifyExistingOnly(fs, p, root) ==
    IF Exists(fs, p) /\ ~IsWithin(Canonical(fs, p), root) THEN <<"SymlinkEscape">> ELSE p

\* An existing path, or its nearest existing ancestor, must be inside really;
\* the loop ends before it looks at "/" itself.
VerifySymlinkContainment(fs, p, root) ==
    LET anchor == IF Exists(fs, p) THEN p ELSE NearestAncestor(fs, p)
    IN IF anchor # <<>> /\ ~IsWithin(Canonical(fs, anchor), root)
       THEN <<"SymlinkEscape">> ELSE p

\* A path from normalize_traversal is absolute.
RefuseOutOfTree(p, root) == IF IsWithin(p, root) THEN p ELSE <<"PathEscape">>

Refusals == {<<"NullByte">>, <<"DeviceName">>, <<"PathEscape">>, <<"SymlinkEscape">>, <<"WorkspaceRoot">>}

\* resolve: the workspace is made real first, so that what is compared is real.
Resolve(fs, workspace, input) ==
    LET root == WorkspaceRoot(fs, workspace)
        p == NormalizeTraversal(root, input)
    IN CASE root \in Refusals -> root
         [] root \notin Refusals /\ p \in Refusals -> p
         [] OTHER -> IF RefuseOutOfTree(p, root) \in Refusals THEN RefuseOutOfTree(p, root)
                     ELSE VerifySymlinkContainment(fs, p, root)

-----------------------------------------------------------------------------
(* Reference definitions                                                   *)

\* Where a new file is made: its missing directories are made inside the
\* nearest one that exists; a link to nothing stops that.
Lands(fs, p) ==
    LET above == NearestAncestor(fs, p)
    IN Canonical(fs, above) \o SubSeq(p, Len(above) + 1, Len(p))

\* What a resolved path names, or will name when it is made, is inside.
Contained(fs, workspace, p) ==
    p \notin Refusals =>
        IsWithin(IF Exists(fs, p) THEN Canonical(fs, p) ELSE Lands(fs, p),
                 Canonical(fs, workspace))

\* Where there are no links, only a path that leads outside is refused.
RefusedWithReason(fs, workspace, input, p) ==
    p \in {<<"PathEscape">>, <<"SymlinkEscape">>} =>
        \/ input.drive
        \/ \E q \in DOMAIN fs : fs[q].kind = "link"
        \/ ~IsWithin(NormalizeLexical(IF input.abs THEN input.comps ELSE workspace \o input.comps),
                     workspace)
=============================================================================
