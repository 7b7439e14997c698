-------------------------------- MODULE Cli --------------------------------
(***************************************************************************)
(* The commands that change the alarm file (cmd_add and cmd_remove in      *)
(* src/src/app/app.c), each a short-lived process without any lock.        *)
(* `todox` and `todox --help` change nothing and are left out.             *)
(*                                                                         *)
(* Each client runs one command after another.  cpc[c] is where it is:     *)
(*   idle   no process                                                     *)
(*   open   table parsed, checked and changed in memory; about to          *)
(*          fopen(.., "wt")                                                *)
(*   flush  file emptied, rows in the stdio buffer                         *)
(*   kill   rows in the file, the daemon not signalled yet                 *)
(***************************************************************************)
EXTENDS AlarmFile

CONSTANTS
    Clients,        \* concurrent users of the command line
    Commands,       \* what they may run
    MaxCommands,    \* bound: commands per client
    NoComment       \* the empty comment

(* "add" is `add TS%%TASK%%COMMENT[%%repeat]`; "weekly" is the weekday form *)
(* `add DAYS%%TIME%%TASK%%COMMENT`, its times given as phases within the   *)
(* week; "remove" is `remove TASK`.                                        *)
Command == [op: {"add", "weekly", "remove"}, task: Tasks, comment: Comments,
            times: Seq(Int), does_repeat: BOOLEAN]

ASSUME CommandsAssumption ==
    /\ Commands \subseteq Command
    /\ \A cmd \in Commands : cmd.op = "add" => Len(cmd.times) = 1
    /\ NoComment \in Comments
    /\ MaxCommands \in Nat

VARIABLES
    cpc,        \* [Clients -> program counter]
    ctab,       \* the table a client is about to write
    left,       \* how many commands a client may still run
    asked,      \* what a running command is to add or remove (history)
    acked,      \* rows whose add returned 0 and that nobody removed (history)
    gone,       \* tasks whose remove returned 0, not added since (history)
    unsaid      \* a command was killed after it emptied the file, and none
                \* has signalled the daemon since (history)

cliVars == <<cpc, ctab, left, asked, acked, gone, unsaid>>

CliTypeOK ==
    /\ cpc \in [Clients -> {"idle", "open", "flush", "kill"}]
    /\ ctab \in [Clients -> Seq(Alarm)]
    /\ left \in [Clients -> 0..MaxCommands]
    /\ asked \in [Clients -> [removes: SUBSET Tasks, adds: Seq(Alarm)]]
    /\ acked \subseteq Alarm
    /\ gone \subseteq Tasks
    /\ unsaid \in BOOLEAN

Nothing == [removes |-> {}, adds |-> <<>>]

CliInit ==
    /\ cpc  = [c \in Clients |-> "idle"]
    /\ ctab = [c \in Clients |-> <<>>]
    /\ left = [c \in Clients |-> MaxCommands]
    /\ asked = [c \in Clients |-> Nothing]
    /\ acked = {} /\ gone = {} /\ unsaid = FALSE

-----------------------------------------------------------------------------
(* What a command makes of a table                                         *)

\* next_weekday_timestamp: the first time strictly after now in that phase.
NextWeekdayTimestamp(phase, t) == AdvanceRepeatToFuture(phase, t)

\* Mutant: does_repeat is never set.
ItemsUnset(cmd, t) ==
    [i \in DOMAIN cmd.times |->
        [task |-> cmd.task, comment |-> cmd.comment,
         ts |-> IF cmd.op = "weekly"
                THEN NextWeekdayTimestamp(cmd.times[i], t) ELSE cmd.times[i]]]

\* The rows an add brings.  The weekday form computes its times itself and
\* its rows always repeat.
Items(cmd, t) ==
    [i \in DOMAIN cmd.times |->
        [task |-> cmd.task, comment |-> cmd.comment,
         ts |-> IF cmd.op = "weekly"
                THEN NextWeekdayTimestamp(cmd.times[i], t) ELSE cmd.times[i],
         does_repeat |-> cmd.op = "weekly" \/ cmd.does_repeat]]

\* is_duplicate_non_repeat
IsDuplicateNonRepeat(lst, t) == \E i \in RowsOf(lst, t) : ~ lst[i].does_repeat

\* An add of a single row is refused if the first row of its task has another
\* comment and the new comment is not empty.
OtherComment(lst, cmd) ==
    LET i == TaskFind(lst, cmd.task)
    IN  i # 0 /\ cmd.comment # NoComment /\ lst[i].comment # cmd.comment

\* The text of an add that does not parse brings no times.
Refused(lst, cmd) ==
    CASE cmd.op = "add"    -> cmd.times = <<>> \/ OtherComment(lst, cmd)
      [] cmd.op = "weekly" -> cmd.times = <<>> \/ IsDuplicateNonRepeat(lst, cmd.task)
      [] cmd.op = "remove" -> RowsOf(lst, cmd.task) = {}

Changed(lst, cmd, t) ==
    IF cmd.op = "remove" THEN TaskRemoveAll(lst, cmd.task)
    ELSE PushAll(lst, Items(cmd, t))

-----------------------------------------------------------------------------
(* The steps of a command                                                  *)

\* todox_parse_config and the checks; a refused command ends here
Invoke(c, cmd) ==
    LET lst == ParseConfig(file)
    IN  IF Refused(lst, cmd)
        THEN UNCHANGED <<cpc, ctab, asked>>
        ELSE /\ ctab' = [ctab EXCEPT ![c] = Changed(lst, cmd, clock)]
             /\ asked' = [asked EXCEPT ![c] =
                   IF cmd.op = "remove"
                   THEN [removes |-> {cmd.task}, adds |-> <<>>]
                   ELSE [removes |-> {}, adds |-> Items(cmd, clock)]]
             /\ cpc' = [cpc EXCEPT ![c] = "open"]

Begin(c) ==
    /\ cpc[c] = "idle" /\ left[c] > 0
    /\ left' = [left EXCEPT ![c] = @ - 1]
    /\ \E cmd \in Commands : Invoke(c, cmd)
    /\ UNCHANGED <<world, acked, gone, unsaid>>

\* fopen(.., "wt"), or exit(110)
Open(c) ==
    /\ cpc[c] = "open"
    /\ \/ OpenMaySucceed /\ TruncateConfig /\ cpc' = [cpc EXCEPT ![c] = "flush"]
       \/ OpenMayFail /\ cpc' = [cpc EXCEPT ![c] = "idle"] /\ UNCHANGED file
    /\ UNCHANGED <<clock, pidFile, ctab, left, asked, acked, gone, unsaid>>

Flush(c) ==
    /\ cpc[c] = "flush"
    /\ WriteRows(ctab[c])
    /\ cpc' = [cpc EXCEPT ![c] = "kill"]
    /\ UNCHANGED <<clock, pidFile, ctab, left, asked, acked, gone, unsaid>>

\* Reading the pid file and kill(); what the signal does to a daemon is in
\* module Todox.
Kill(c) ==
    /\ cpc[c] = "kill"
    /\ cpc' = [cpc EXCEPT ![c] = "idle"]
    /\ ctab' = [ctab EXCEPT ![c] = <<>>]
    /\ asked' = [asked EXCEPT ![c] = Nothing]
    /\ acked' = {a \in acked : a.task \notin asked[c].removes}
                   \cup ToSet(asked[c].adds)
    /\ gone' = (gone \ {a.task : a \in ToSet(asked[c].adds)})
                   \cup asked[c].removes
    /\ unsaid' = FALSE
    /\ UNCHANGED <<world, left>>

\* The process is killed before it returns.
Interrupt(c) ==
    /\ "interrupt" \in Faults /\ cpc[c] # "idle"
    /\ cpc' = [cpc EXCEPT ![c] = "idle"]
    /\ ctab' = [ctab EXCEPT ![c] = <<>>]
    /\ asked' = [asked EXCEPT ![c] = Nothing]
    /\ unsaid' = (unsaid \/ cpc[c] # "open")
    /\ UNCHANGED <<world, left, acked, gone>>

\* A command that is not killed.
CliStep(c) == Begin(c) \/ Open(c) \/ Flush(c) \/ Kill(c)

-----------------------------------------------------------------------------
(* Properties                                                              *)

Quiet == \A c \in Clients : cpc[c] = "idle"

\* A command writes a sorted table, so that its successor finds the rows of a
\* file no longer than MaxRows where it left them.
WritesSorted ==
    \A c \in Clients :
        cpc[c] # "idle" => IsSortedByTime(ctab[c]) /\ Len(ctab[c]) <= MaxRows
=============================================================================
