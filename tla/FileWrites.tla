---------------------------- MODULE FileWrites -----------------------------
(***************************************************************************)
(* How tool calls change one file: write_file and edit_file through a      *)
(* temporary file and a rename (tools/fs.rs), ast_replace in place         *)
(* (tools/ast.rs).  The calls are of several sessions, in one process or   *)
(* more; no lock is taken.                                                 *)
(*                                                                         *)
(* A call that makes a temporary file makes one new inode, named like the  *)
(* call.  A text is known by the edits it shows and by whether it is       *)
(* whole: one that was cut off, or made from one that was, is not.         *)
(***************************************************************************)
EXTENDS FiniteSets

CONSTANTS Calls, Original, None

FileAssumption == {Original, None} \cap Calls = {} /\ Original # None

Inodes == Calls \cup {Original}
Tools == {"write_file", "edit_file", "ast_replace"}

VARIABLES
    link,        \* the inode the path names
    data,        \* the text of each inode
    temps,       \* calls whose temporary name exists
    tool,        \* the tool of each call
    pc,          \* where each call is
    plan,        \* the text each call is about to write
    held,        \* the inode a rewrite in place has opened
    answer       \* what each call answered

vars == <<link, data, temps, tool, pc, plan, held, answer>>

Texts == [shows : SUBSET Calls, whole : BOOLEAN]
Empty == [shows |-> {}, whole |-> FALSE]

TypeOK ==
    /\ link \in Inodes \cup {None}
    /\ data \in [Inodes -> Texts]
    /\ temps \subseteq Calls
    /\ tool \in [Calls -> Tools]
    /\ pc \in [Calls -> {"idle", "read", "write", "rename", "open", "put", "done", "dead"}]
    /\ plan \in [Calls -> Texts]
    /\ held \in [Calls -> Inodes \cup {None}]
    /\ answer \in [Calls -> {"none", "refused", "written", "failed", "rolled back"}]

Init ==
    /\ link \in {Original, None}
    /\ data = [i \in Inodes |-> [shows |-> {}, whole |-> i = Original]]
    /\ temps = {}
    /\ tool \in [Calls -> Tools]
    /\ pc = [c \in Calls |-> "idle"]
    /\ plan = [c \in Calls |-> Empty]
    /\ held = [c \in Calls |-> None]
    /\ answer = [c \in Calls |-> "none"]

Goto(c, l) == pc' = [pc EXCEPT ![c] = l]

End(c, a) == Goto(c, "done") /\ answer' = [answer EXCEPT ![c] = a]

Begin(c) ==
    /\ pc[c] = "idle"
    /\ Goto(c, "read")
    /\ UNCHANGED <<link, data, temps, tool, plan, held, answer>>

\* write_file: an existing file is refused unless overwrite is set.
CheckWrite(c) ==
    /\ pc[c] = "read"
    /\ tool[c] = "write_file"
    /\ \/ /\ plan' = [plan EXCEPT ![c] = [shows |-> {c}, whole |-> TRUE]]
          /\ Goto(c, "write")
          /\ UNCHANGED answer
       \/ link # None /\ End(c, "refused") /\ UNCHANGED plan
    /\ UNCHANGED <<link, data, temps, tool, held>>

\* edit_file: the target is looked for in the text that is read here.
ReadForEdit(c) ==
    /\ pc[c] = "read"
    /\ tool[c] = "edit_file"
    /\ \/ /\ link # None
          /\ plan' = [plan EXCEPT ![c] = [data[link] EXCEPT !.shows = @ \cup {c}]]
          /\ Goto(c, "write")
          /\ UNCHANGED answer
       \/ End(c, "refused") /\ UNCHANGED plan
    /\ UNCHANGED <<link, data, temps, tool, held>>

\* ast_replace: no match and a rewrite that does not parse leave the file alone.
ReadForRewrite(c) ==
    /\ pc[c] = "read"
    /\ tool[c] = "ast_replace"
    /\ \/ /\ link # None
          /\ plan' = [plan EXCEPT ![c] = [data[link] EXCEPT !.shows = @ \cup {c}]]
          /\ Goto(c, "open")
          /\ UNCHANGED answer
       \/ End(c, "refused") /\ UNCHANGED plan
       \/ link # None /\ End(c, "rolled back") /\ UNCHANGED plan
    /\ UNCHANGED <<link, data, temps, tool, held>>

-----------------------------------------------------------------------------
(* atomic_write                                                            *)

\* Mutant of WriteTemp: the text goes to the file itself.
WriteTempInPlace(c) ==
    /\ pc[c] = "write"
    /\ link # None
    /\ data' = [data EXCEPT ![link] = Empty]
    /\ Goto(c, "rename")
    /\ UNCHANGED <<link, temps, tool, plan, held, answer>>

\* fs::write; a failure leaves what was written so far under the temporary name.
WriteTemp(c) ==
    /\ pc[c] = "write"
    /\ temps' = temps \cup {c}
    /\ \/ data' = [data EXCEPT ![c] = plan[c]] /\ Goto(c, "rename") /\ UNCHANGED answer
       \/ data' = [data EXCEPT ![c] = Empty] /\ End(c, "failed")
    /\ UNCHANGED <<link, tool, plan, held>>

Rename(c) ==
    /\ pc[c] = "rename"
    /\ temps' = temps \ {c}
    /\ \/ link' = c /\ End(c, "written")
       \/ End(c, "refused") /\ UNCHANGED link
    /\ UNCHANGED <<data, tool, plan, held>>

-----------------------------------------------------------------------------
(* fs::write on the file itself                                            *)

OpenInPlace(c) ==
    /\ pc[c] = "open"
    /\ \/ /\ link # None
          /\ held' = [held EXCEPT ![c] = link]
          /\ data' = [data EXCEPT ![link] = Empty]
          /\ Goto(c, "put")
          /\ UNCHANGED answer
       \/ End(c, "rolled back") /\ UNCHANGED <<held, data>>
    /\ UNCHANGED <<link, temps, tool, plan>>

\* What was opened is written, also if the path names another inode by now.
PutInPlace(c) ==
    /\ pc[c] = "put"
    /\ \/ data' = [data EXCEPT ![held[c]] = plan[c]] /\ End(c, "written")
       \/ End(c, "rolled back") /\ UNCHANGED data
    /\ UNCHANGED <<link, temps, tool, plan, held>>

-----------------------------------------------------------------------------

\* The process of the call is killed; part of a temporary file may be there.
Die(c) ==
    /\ pc[c] \notin {"idle", "done", "dead"}
    /\ Goto(c, "dead")
    /\ \/ pc[c] = "write" /\ temps' = temps \cup {c} /\ data' = [data EXCEPT ![c] = Empty]
       \/ UNCHANGED <<temps, data>>
    /\ UNCHANGED <<link, tool, plan, held, answer>>

Next == \E c \in Calls :
    \/ Begin(c) \/ CheckWrite(c) \/ ReadForEdit(c) \/ ReadForRewrite(c)
    \/ WriteTemp(c) \/ Rename(c) \/ OpenInPlace(c) \/ PutInPlace(c) \/ Die(c)

Spec == Init /\ [][Next]_vars

-----------------------------------------------------------------------------
(* Properties                                                              *)

Rewrites == {c \in Calls : tool[c] = "ast_replace" /\ held[c] # None}

\* The file is never seen half written, whoever dies and wherever, as long as
\* no rewrite in place has opened it.  Where one has, it is half written only
\* while such a rewrite is at it, or was cut short there, or where its text is
\* one that another call made from what it read at that moment.
FileWhole ==
    link # None /\ ~data[link].whole =>
        \/ \E c \in Rewrites : held[c] = link /\ answer[c] # "written"
        \/ Rewrites # {} /\ \E d \in Calls : answer[d] = "written" /\ data[link] = plan[d]

\* A temporary file stays behind only where a process died, or where the write
\* of it failed.
TempsGone ==
    \A c \in temps : pc[c] = "done" => answer[c] = "failed"

\* A call that has answered "written" shows in the file, unless the whole file is
\* by now the text of another call that has answered "written" as well, which had
\* read it before or overwrote it, or a rewrite in place has left it half written.
WrittenShows ==
    \A c \in Calls :
        answer[c] = "written" /\ link # None =>
            \/ c \in data[link].shows
            \/ ~data[link].whole
            \/ \E d \in Calls \ {c} : answer[d] = "written" /\ data[link] = plan[d]
=============================================================================
