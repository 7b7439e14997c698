------------------------------ MODULE Replace ------------------------------
(***************************************************************************)
(* `todox replace TITLE TIME` (src/todox.sh): a shell function that lists  *)
(* the alarms, removes those of the title with `todox remove`, and, if     *)
(* that succeeds, adds them again with `todox add`.  Here the commands of  *)
(* module Cli and this one run without a daemon.                           *)
(*                                                                         *)
(* script[c].at is where the function is: "none"; "listed", the list read  *)
(* and the words of the add put together; "remove", "add", the command     *)
(* that runs; "removed" between the two.                                   *)
(***************************************************************************)
EXTENDS Cli

CONSTANTS
    InitFiles,      \* contents of the file before the first command
    DayLen,         \* clock units in a day
    Zone,           \* the system zone, units ahead of UTC
    NewTimes        \* times of day somebody asks for

WD == INSTANCE Weekdays

BadTime == -1       \* a word that is no time of day

ASSUME InitFilesAssumption == InitFiles \subseteq Seq(Alarm)
ASSUME DayLenAssumption    == DayLen \in Nat \ {0} /\ Week = 7 * DayLen
ASSUME NewTimesAssumption  == Zone \in Int /\ NewTimes \subseteq 0..DayLen-1

VARIABLES
    script,
    outcome     \* the replace that has just ended (history)

replaceVars == <<script, outcome>>

NoScript  == [at |-> "none"]
NoOutcome == [ended |-> FALSE]

-----------------------------------------------------------------------------
(* The words of the add                                                    *)

\* Mutant: the days are those in UTC.
DaysInUtc(lst, title) == {WD!Weekday(lst[i].ts) : i \in RowsOf(lst, title)}

\* The days of the week on which the list has the title, in local time.
DaysListed(lst, title) ==
    {WD!Weekday(lst[i].ts + Zone) : i \in RowsOf(lst, title)}

Span(first, last) == [kind |-> "range",  words |-> <<first, last>>]
Single(day)       == [kind |-> "single", words |-> <<day>>]

\* The `case "$days"`.  Any other set is joined with commas, and a weekday
\* expression has none: it is one word that is no day.
Pattern(days) ==
    CASE days = 1..5     -> Span(1, 5)
      [] days = {6, 0}   -> Span(6, 0)
      [] days = 0..6     -> Span(1, 0)
      [] Cardinality(days) = 1 -> Single(CHOOSE d \in days : TRUE)
      [] OTHER           -> Single(WD!BadDay)

\* A time in the past, that time of that day in Zone some weeks ago.
Phase(day, tod) == (((day - 4) * DayLen + tod - Zone) % Week) - Week

WeeklyAdd(title, comment, days, tod) ==
    LET wdays == IF tod = BadTime THEN WD!NoDays
                 ELSE WD!ParseWeekdayExpr(Pattern(days))
    IN  [op |-> "weekly", task |-> title, comment |-> comment,
         times |-> [i \in DOMAIN wdays |-> Phase(wdays[i], tod)],
         does_repeat |-> TRUE]

\* The first row says whether the title repeats, and its comment.  For a
\* one-shot alarm the words are DATE%%TIME%%TITLE%%COMMENT, which no form of
\* `add` reads.
Payload(lst, title, tod) ==
    LET first == lst[TaskFind(lst, title)]
    IN  IF first.does_repeat
        THEN WeeklyAdd(title, first.comment, DaysListed(lst, title), tod)
        ELSE [op |-> "add", task |-> title, comment |-> first.comment,
              times |-> <<>>, does_repeat |-> FALSE]

Removal(title) == [op |-> "remove", task |-> title, comment |-> NoComment,
                   times |-> <<>>, does_repeat |-> FALSE]

-----------------------------------------------------------------------------
(* The steps of the function                                               *)

At(c, where) == script[c].at = where
GoTo(c, where) == script' = [script EXCEPT ![c].at = where]

End(c, status) ==
    /\ script' = [script EXCEPT ![c] = NoScript]
    /\ outcome' = [ended |-> TRUE, ok |-> status, title |-> script[c].title,
                   tod |-> script[c].tod, before |-> script[c].before]

\* raw_list="$(command todox)"; a title that is not there ends the function.
List(c) ==
    /\ cpc[c] = "idle" /\ At(c, "none") /\ left[c] > 0
    /\ left' = [left EXCEPT ![c] = @ - 1]
    /\ \E title \in Tasks, tod \in NewTimes \cup {BadTime} :
          LET lst == ParseConfig(file)
          IN  IF RowsOf(lst, title) = {} THEN UNCHANGED script
              ELSE script' = [script EXCEPT ![c] =
                       [at |-> "listed", title |-> title, tod |-> tod,
                        before |-> lst, payload |-> Payload(lst, title, tod)]]
    /\ outcome' = NoOutcome
    /\ UNCHANGED <<world, cpc, ctab, asked, acked, gone, unsaid>>

\* The command is started; one that refuses ends the function.
RunCommand(c, from, cmd, to) ==
    /\ At(c, from)
    /\ Invoke(c, cmd)
    /\ IF cpc'[c] = "idle" THEN End(c, FALSE)
       ELSE GoTo(c, to) /\ UNCHANGED outcome
    /\ UNCHANGED <<world, left, acked, gone, unsaid>>

RunRemove(c) == RunCommand(c, "listed", Removal(script[c].title), "remove")
RunAdd(c)    == RunCommand(c, "removed", script[c].payload, "add")

\* The running command goes on; one that cannot open the file exits with 110.
CommandRuns(c) ==
    /\ script[c].at \in {"remove", "add"}
    /\ Open(c) \/ Flush(c)
    /\ IF cpc'[c] = "idle" THEN End(c, FALSE) ELSE UNCHANGED replaceVars

\* The running command returns 0.
CommandReturns(c) ==
    /\ Kill(c)
    /\ \/ At(c, "remove") /\ GoTo(c, "removed") /\ UNCHANGED outcome
       \/ At(c, "add") /\ End(c, TRUE)

ReplaceStep(c) == \/ List(c) \/ RunRemove(c) \/ RunAdd(c)
                  \/ CommandRuns(c) \/ CommandReturns(c)

\* A command on its own.
PlainStep(c) ==
    /\ At(c, "none")
    /\ \/ Begin(c) /\ outcome' = NoOutcome
       \/ (Open(c) \/ Flush(c) \/ Kill(c)) /\ UNCHANGED outcome
    /\ UNCHANGED script

-----------------------------------------------------------------------------

ReplaceInit ==
    /\ clock = 0 /\ pidFile = NoPid /\ file \in InitFiles
    /\ CliInit
    /\ script = [c \in Clients |-> NoScript] /\ outcome = NoOutcome

ReplaceNext ==
    \/ \E c \in Clients : PlainStep(c) \/ ReplaceStep(c)
    \/ Tick /\ UNCHANGED <<file, pidFile, cliVars, replaceVars>>

ReplaceSpec == ReplaceInit /\ [][ReplaceNext]_<<world, cliVars, replaceVars>>

-----------------------------------------------------------------------------
(* Properties                                                              *)

\* Commands that run one at a time are atomic: the file (or, while a command
\* has emptied it, the table in that command) goes from one table to the next
\* as the abstract book does; a replace is a removal and an addition.
Table == IF \E c \in Clients : cpc[c] = "flush"
         THEN ctab[CHOOSE c \in Clients : cpc[c] = "flush"] ELSE file

Adds == {k \in Commands : k.op # "remove"} \cup
        {WeeklyAdd(t, com, days, tod) : t \in Tasks, com \in Comments,
             days \in {1..5, {6, 0}, 0..6} \cup {{d} : d \in 0..6}, tod \in NewTimes}

B == INSTANCE TaskBook WITH
        book <- ToBag(Table),
        Start <- {ToBag(f) : f \in InitFiles},
        Batches <- {Items(cmd, t) : cmd \in Adds, t \in 0..Horizon}
ImplementsTaskBook == B!Spec

OthersOf(lst, title) == {lst[i] : i \in DOMAIN lst \ RowsOf(lst, title)}

\* A replace that returns 0 has moved the title: weekly on the days it was
\* listed on, at the new time, with its comment, and nothing else is touched.
\* It does so exactly for a weekly title on one day or on mon-fri, sat-sun or
\* mon-sun, and a time that is one.
ReplaceTellsTruth ==
    outcome.ended =>
        LET first == outcome.before[TaskFind(outcome.before, outcome.title)]
            days  == DaysListed(outcome.before, outcome.title)
        IN  /\ outcome.ok <=>
                  /\ first.does_repeat /\ outcome.tod # BadTime
                  /\ days \in {1..5, {6, 0}, 0..6} \/ Cardinality(days) = 1
            /\ OthersOf(Table, outcome.title) = OthersOf(outcome.before, outcome.title)
            /\ outcome.ok =>
                  /\ DaysListed(Table, outcome.title) = days
                  /\ Cardinality(RowsOf(Table, outcome.title)) = Cardinality(days)
                  /\ \A i \in RowsOf(Table, outcome.title) :
                        /\ WD!TimeOfDay(Table[i].ts + Zone) = outcome.tod
                        /\ Table[i].comment = first.comment /\ Table[i].does_repeat

\* A title that somebody replaces, at a time that is one, is still there
\* afterwards.
ReplaceKeepsTitle ==
    outcome.ended /\ outcome.tod # BadTime => RowsOf(Table, outcome.title) # {}
=============================================================================
