--------------------------- MODULE Configuration ---------------------------
(***************************************************************************)
(* The effective configuration and its sources (config.rs), and the entry  *)
(* that `install` merges into a client's configuration (main.rs).          *)
(*                                                                         *)
(* A value is known by where it comes from: the environment, the file or   *)
(* the defaults.  The fields stand for the kinds the code treats           *)
(* differently: a string, a secret, a number, an optional number, a port.  *)
(***************************************************************************)
EXTENDS Naturals, Sequences, FiniteSets, SequencesExt

Fields == {"model", "api_key", "tool_prefix", "max_context", "boot_timeout_secs", "ports.status"}
Numbers == {"max_context", "boot_timeout_secs", "ports.status"}
Secrets == {"api_key"}

\* Fields that are unset where neither layer has them.
Optional == {"model", "api_key", "max_context"}

\* What an environment variable may be; "bad" is no number of the field's width.
EnvValues == {"absent", "empty", "good", "bad"}

ConfigurationFiles ==
    [state : {"missing", "present", "corrupt", "unreadable"}, fields : SUBSET Fields]

\* An empty variable counts as none.
EnvHas(env, f) == env[f] \in {"good", "bad"}

\* pick_str and its kin: the source of one field.
Pick(env, file, f) ==
    CASE EnvHas(env, f) -> "env"
      [] ~EnvHas(env, f) /\ f \in file -> "file"
      [] OTHER -> "default"

\* load_with; a file is missing, broken, or the set of fields it has.
Load(env, file) ==
    CASE file.state \in {"unreadable", "corrupt"} ->
            [error |-> file.state, from |-> <<>>]
      [] /\ file.state \in {"missing", "present"}
         /\ \E f \in Numbers : env[f] = "bad" ->
            [error |-> "InvalidValue", from |-> <<>>]
      [] OTHER -> [error |-> "none", from |-> [f \in Fields |-> Pick(env, file.fields, f)]]

\* A row of format_loaded: what is shown of a field.
Shown(loaded, f) ==
    CASE f \in Optional /\ loaded.from[f] = "default" -> "<unset>"
      [] f \in Secrets /\ loaded.from[f] # "default" -> "***"
      [] OTHER -> "value"

\* The highest of the layers that have the field, as the head of the module
\* documents it: environment, file, defaults.
Highest(env, file, f) ==
    LET layers == (IF env[f] \in {"good", "bad"} THEN {1} ELSE {})
                  \cup (IF f \in file THEN {2} ELSE {}) \cup {3}
    IN <<"env", "file", "default">>[CHOOSE n \in layers : \A k \in layers : k \notin 1..n - 1]

\* Every field has the value of its highest layer, whatever the others are, and is
\* shown as unset only where no layer has it, a secret never as it is; a load fails only for a file that is no configuration, or a bad number.
LayersExact(env, file, loaded) ==
    /\ loaded.error = "none" => \A f \in Fields :
          /\ loaded.from[f] = Highest(env, file.fields, f)
          /\ Shown(loaded, f) = "value" => f \notin Secrets
          /\ Shown(loaded, f) = "<unset>" <=> f \in Optional /\ Highest(env, file.fields, f) = "default"
    /\ loaded.error # "none" <=>
          \/ file.state \in {"unreadable", "corrupt"}
          \/ \E f \in Numbers : env[f] = "bad"

-----------------------------------------------------------------------------
(* install                                                                 *)

Empty == [keys |-> {}, servers |-> {}]

\* A client's file by what is written in it: its keys and the servers it names,
\* whether or not the program can make them out.
InstallFiles ==
    {file \in [state : {"object", "oddServers", "list", "corrupt", "missing"},
               keys : SUBSET STRING, servers : SUBSET STRING] :
        file.state = "missing" => file.keys = {} /\ file.servers = {}}

\* The object a client's file holds: other keys, and the servers it names;
\* "oddServers" is an object whose mcpServers is no object.
Kept(file) ==
    CASE file.state = "object" -> [keys |-> file.keys, servers |-> file.servers]
      [] file.state = "oddServers" -> [keys |-> file.keys, servers |-> {}]
      [] OTHER -> Empty

\* merge_into_config: the text that replaces the file.
Merged(file) ==
    [state |-> "object", keys |-> Kept(file).keys, servers |-> Kept(file).servers \cup {"castor"}]

\* run_install: the files of the clients that are asked for, in order; the first
\* that cannot be read or written ends it.
Install(client, files, broken) ==
    LET targets == CASE client = "all" -> <<"antigravity", "claude">>
                     [] client \in {"claude", "antigravity"} -> <<client>>
                     [] OTHER -> <<>>
        done == {c \in DOMAIN files :
                   \E i \in DOMAIN targets :
                      targets[i] = c /\ \A j \in 1..i : targets[j] \notin broken}
    IN [files |-> [c \in DOMAIN files |-> IF c \in done THEN Merged(files[c]) ELSE files[c]],
        ok |-> targets # <<>> /\ \A i \in DOMAIN targets : targets[i] \notin broken]

\* What merge_into_config reports on standard error only, or not at all: a file that
\* is no JSON object, and one whose mcpServers is no object.
NoObject == {"list", "corrupt"}
Unmergeable(file) == file.state \in NoObject \cup {"oddServers"}

\* Installing adds one server, and once more changes nothing; a client that was not
\* asked for is left alone.  Other keys and other servers stay, but for these: of a
\* file that is no object everything is discarded, of one whose mcpServers is no object
\* that value, and the command reports success.
MergeKeeps(client, files, result) ==
    \A c \in DOMAIN files :
        LET old == files[c]
            new == result.files[c]
            merged == result.ok /\ client \in {c, "all"}
        IN /\ client \notin {c, "all"} => new = old
           /\ old.keys \subseteq new.keys \/ old.state \in NoObject
           /\ old.servers \subseteq new.servers \/ Unmergeable(old)
           /\ merged => "castor" \in new.servers /\ Merged(new) = new
           /\ merged /\ old.state \in NoObject => new.keys = {}
           /\ merged /\ Unmergeable(old) => new.servers = {"castor"}

-----------------------------------------------------------------------------
(* The discovery of skills (skills.rs): SKILL.md files under the skill     *)
(* directories, their front matter, and the index for the system prompt.   *)
(* A line of a file is "blank", "rule" (three dashes), a "field" with a    *)
(* key and a value ("" where empty), or "text".                            *)

Folders ==
    [name : STRING,
     lines : Seq([kind : {"blank", "rule", "field", "text"}, key : STRING, value : STRING])]

Kind(line) == line.kind

\* split_frontmatter: what is between the first line, which must be a rule, and
\* the next rule; nothing without both.
Frontmatter(lines) ==
    LET full == {i \in DOMAIN lines : Kind(lines[i]) # "blank"}
        open == CHOOSE i \in full : \A j \in full : i <= j
        close == {i \in open + 1..Len(lines) : Kind(lines[i]) = "rule"}
    IN IF full = {} \/ Kind(lines[open]) # "rule" \/ close = {} THEN <<>>
       ELSE SubSeq(lines, open + 1, (CHOOSE i \in close : \A j \in close : i <= j) - 1)

\* parse_frontmatter: the last line of a key counts; other lines are ignored.
Field(lines, key) ==
    LET with == {i \in DOMAIN lines : Kind(lines[i]) = "field" /\ lines[i].key = key}
    IN IF with = {} THEN "" ELSE lines[CHOOSE i \in with : \A j \in with : j <= i].value

\* One directory entry of load_skills; a folder has its name and the lines of
\* its SKILL.md, none where there is no such file.
Found(folder) ==
    LET fm == Frontmatter(folder.lines)
        name == IF Field(fm, "name") # "" THEN Field(fm, "name") ELSE folder.name
    IN IF Field(fm, "description") = "" THEN {}
       ELSE {[name |-> name, folder |-> folder.name]}

\* load_skills over the folders of all directories, in order: the first of a
\* name wins.
WithFolder(skills, folder) ==
    skills \o SetToSeq({s \in Found(folder) : \A i \in DOMAIN skills : skills[i].name # s.name})

LoadSkills(dirs) == FoldLeft(WithFolder, <<>>, FlattenSeq(dirs))

-----------------------------------------------------------------------------
(* What the index promises                                                 *)

\* A folder describes a skill on a line of its file: the file opens with a block,
\* the block is closed, and a description stands on that line between the two rules.
Describes(folder, i) ==
    \E open \in DOMAIN folder.lines, close \in DOMAIN folder.lines :
        /\ open < i /\ i < close
        /\ \A j \in 1..open - 1 : Kind(folder.lines[j]) = "blank"
        /\ {j \in open..close : Kind(folder.lines[j]) = "rule"} = {open, close}
        /\ Kind(folder.lines[i]) = "field" /\ folder.lines[i].key = "description"

\* No name twice; a skill comes from a folder that describes one, and a folder
\* that does is left out only for one of that name before it.
IndexSound(dirs, skills) ==
    LET folders == FlattenSeq(dirs)
    IN /\ \A i, j \in DOMAIN skills : skills[i].name = skills[j].name => i = j
       /\ \A i \in DOMAIN skills : \E k \in DOMAIN folders :
             /\ folders[k].name = skills[i].folder
             /\ \E l \in DOMAIN folders[k].lines :
                   Describes(folders[k], l) /\ folders[k].lines[l].value # ""
       /\ \A k \in DOMAIN folders :
             /\ \E l \in DOMAIN folders[k].lines : Describes(folders[k], l)
             /\ \A l \in DOMAIN folders[k].lines :
                   Describes(folders[k], l) => folders[k].lines[l].value # ""
             => \E i \in DOMAIN skills :
                   \E s \in Found(folders[k]) : skills[i].name = s.name
=============================================================================
