----------------------------- MODULE Telemetry -----------------------------
(***************************************************************************)
(* The statistics derived from the ledgers (telemetry.rs): one pass over   *)
(* the event lines of every session and over the task records.             *)
(*                                                                         *)
(* A line is a record of its type and of the fields the derivation reads,  *)
(* 0, "none" or NoDuration where absent; "bad" is a line that does not     *)
(* parse, "torn" one that cannot be read at all: the read fails there, or  *)
(* its bytes are no text, a character of several bytes cut by a crash.     *)
(* Money and means are left out, but for the sums they come from.          *)
(***************************************************************************)
EXTENDS Integers, Sequences, FiniteSets, SequencesExt

NoTime == 0
NoDuration == -1

LedgerLines ==
    [type : STRING, name : STRING, tokens : Nat, is_error : BOOLEAN,
     duration : Nat \cup {NoDuration}, time : Nat]

EmptyAgg ==
    [any |-> FALSE, turns |-> 0, tokens |-> 0, calls |-> 0, errors |-> 0, byName |-> <<>>,
     duration |-> NoDuration, first |-> NoTime, last |-> NoTime]

Count(byName, name) == IF name \in DOMAIN byName THEN byName[name] ELSE 0

Add(byName, name, n) ==
    [k \in DOMAIN byName \cup {name} |-> Count(byName, k) + (IF k = name THEN n ELSE 0)]

Stamped(agg, line) ==
    IF line.time = NoTime THEN [agg EXCEPT !.any = TRUE]
    ELSE [agg EXCEPT !.any = TRUE, !.last = line.time,
                     !.first = IF agg.first = NoTime THEN line.time ELSE agg.first]

\* One line of parse_session_events.
Line(agg, line) ==
    CASE line.type = "bad" -> agg
      [] line.type = "dispatch" ->
            [Stamped(agg, line) EXCEPT !.turns = @ + 1, !.tokens = @ + line.tokens]
      [] line.type = "tool_result" ->
            [Stamped(agg, line) EXCEPT !.calls = @ + 1,
                !.errors = @ + (IF line.is_error THEN 1 ELSE 0), !.byName = Add(@, line.name, 1)]
      [] line.type = "final" ->
            [Stamped(agg, line) EXCEPT
                !.duration = IF line.duration # NoDuration THEN line.duration ELSE @]
      [] OTHER -> Stamped(agg, line)

ParseSessionEvents(lines) == FoldLeft(Line, EmptyAgg, lines)

Earlier(a, b) == IF a = NoTime \/ (b # NoTime /\ b < a) THEN b ELSE a

Later(a, b) == IF b > a THEN b ELSE a

NoStats ==
    [sessions |-> 0, turns |-> 0, tokens |-> 0, calls |-> 0, errors |-> 0, byName |-> <<>>,
     timed |-> 0, time |-> 0, first |-> NoTime, last |-> NoTime]

\* One session of derive_stats; a ledger without a line that parses does not count.
WithSession(stats, lines) ==
    LET agg == ParseSessionEvents(lines)
    IN IF ~agg.any THEN stats
       ELSE [sessions |-> stats.sessions + 1,
             turns |-> stats.turns + agg.turns,
             tokens |-> stats.tokens + agg.tokens,
             calls |-> stats.calls + agg.calls,
             errors |-> stats.errors + agg.errors,
             byName |-> FoldSet(LAMBDA k, all : Add(all, k, agg.byName[k]),
                                stats.byName, DOMAIN agg.byName),
             timed |-> stats.timed + (IF agg.duration # NoDuration THEN 1 ELSE 0),
             time |-> stats.time + (IF agg.duration # NoDuration THEN agg.duration ELSE 0),
             first |-> Earlier(stats.first, agg.first),
             last |-> Later(stats.last, agg.last)]

\* A ledger is read as one text: with a line that cannot be read it counts as none.
Read(lines) == IF \E i \in DOMAIN lines : lines[i].type = "torn" THEN <<>> ELSE lines

Summed(ledgers) == FoldLeft(WithSession, NoStats, ledgers)

\* The sessions in the order of the directory.
AllSessions(ledgers) == Summed([i \in DOMAIN ledgers |-> Read(ledgers[i])])

\* derive_stats; the task records only by their status.
DeriveStats(ledgers, tasks) ==
    [from |-> AllSessions(ledgers),
     tasks |-> [s \in {"completed", "failed", "cancelled"} |->
                   Cardinality({i \in DOMAIN tasks : tasks[i] = s})]]

-----------------------------------------------------------------------------
(* What the statistics promise                                             *)

\* The ledgers that are text throughout.
Legible(ledgers) ==
    {i \in DOMAIN ledgers : \A j \in DOMAIN ledgers[i] : ledgers[i][j].type # "torn"}

Lines(ledgers) ==
    {l \in UNION {{i} \X DOMAIN ledgers[i] : i \in Legible(ledgers)} :
        ledgers[l[1]][l[2]].type # "bad"}

Typed(ledgers, type) == {l \in Lines(ledgers) : ledgers[l[1]][l[2]].type = type}

\* The figures are counts over the lines of all ledgers that can be read, each line
\* once, and the sums of the tools are the sum of the calls.  A line that does not
\* parse costs itself alone; one that cannot be read costs its whole ledger, and no
\* other.
StatsExact(ledgers, stats) ==
    LET at(l) == ledgers[l[1]][l[2]]
        f == stats.from
    IN /\ f.turns = Cardinality(Typed(ledgers, "dispatch"))
       /\ f.calls = Cardinality(Typed(ledgers, "tool_result"))
       /\ f.errors = Cardinality({l \in Typed(ledgers, "tool_result") : at(l).is_error})
       /\ f.tokens = FoldSet(LAMBDA l, sum : sum + at(l).tokens, 0, Typed(ledgers, "dispatch"))
       /\ f.calls = FoldSet(LAMBDA k, sum : sum + f.byName[k], 0, DOMAIN f.byName)
       /\ f.sessions = Cardinality({l[1] : l \in Lines(ledgers)})

\* The order in which the directory lists the sessions does not matter.
OrderFree(ledgers, tasks) == DeriveStats(Reverse(ledgers), tasks) = DeriveStats(ledgers, tasks)

-----------------------------------------------------------------------------
(* Dates of days since 1970-01-01 and back: iso_from_ms here and           *)
(* iso8601_utc (evo/optimizer.rs) use the one, the watchdog's parser       *)
(* (evo/watchdog.rs) the other.  No day before 1970 is written.            *)

Earliest == -719468    \* the day 0000-03-01, from which eras are counted

\* The year of the era of which doe is a day, and the date of the day doy of a year
\* that begins with the first of March.
YearOfEra(doe) == (doe - doe \div 1460 + doe \div 36524 - doe \div 146096) \div 365

MarchDate(y, doy) ==
    LET mp == (5 * doy + 2) \div 153
        m == IF mp < 10 THEN mp + 3 ELSE mp - 9
    IN <<y + (IF m <= 2 THEN 1 ELSE 0), m, doy - (153 * mp + 2) \div 5 + 1>>

CivilFromDays(z) ==
    LET era == (z - Earliest) \div 146097
        doe == (z - Earliest) - era * 146097
        yoe == YearOfEra(doe)
    IN MarchDate(yoe + era * 400, doe - (365 * yoe + yoe \div 4 - yoe \div 100))

CivilToDays(y0, m, d) ==
    LET y == IF m <= 2 THEN y0 - 1 ELSE y0
        era == y \div 400
        yoe == y - era * 400
        mp == IF m > 2 THEN m - 3 ELSE m + 9
        doy == (153 * mp + 2) \div 5 + d - 1
        doe == yoe * 365 + yoe \div 4 - yoe \div 100 + doy
    IN era * 146097 + doe + Earliest

\* The calendar: the day after a date.
Leap(y) == (y % 4 = 0 /\ y % 100 # 0) \/ y % 400 = 0
DaysIn(y, m) == <<31, IF Leap(y) THEN 29 ELSE 28, 31, 30, 31, 30, 31, 31, 30, 31, 30, 31>>[m]
DayAfter(date) ==
    LET y == date[1]
        m == date[2]
        d == date[3]
    IN IF d < DaysIn(y, m) THEN <<y, m, d + 1>>
       ELSE IF m < 12 THEN <<y, m + 1, 1>> ELSE <<y + 1, 1, 1>>

\* Day 0 is the first of January 1970, the next day has the next date, and
\* the watchdog reads from a date the day it was written for.
CalendarExact(z, date) ==
    /\ z = 0 => date = <<1970, 1, 1>>
    /\ CivilFromDays(z + 1) = DayAfter(date)
    /\ CivilToDays(date[1], date[2], date[3]) = z
=============================================================================
