---------------------------- MODULE AlarmList ----------------------------
(***************************************************************************)
(* The in-memory alarm table of todox: src/src/list/list.c, and the        *)
(* reordering the daemon does on its own copy (src/src/notify/notify.c).   *)
(*                                                                         *)
(* A table is a sequence of alarms.  The operations are stated by their    *)
(* result, as the other modules use them; module AlarmLoops has the loops  *)
(* of the C code, which implement them (AlarmTable, LoopProofs).  No       *)
(* operator here is recursive, so that theorems can be about them.         *)
(*                                                                         *)
(* A task and a comment are members of small sets (NoComment is the empty  *)
(* comment); a time stamp is an integer number of clock units.             *)
(***************************************************************************)
EXTENDS Integers, SequencesExt

CONSTANTS
    Tasks,      \* task names
    Comments,   \* comments
    MaxRows,    \* TODOX_ALARM_TABLE_MAX_ROWS, 128 in include/file/format.h
    Week        \* length of a week in clock units

ASSUME MaxRowsAssumption == MaxRows \in Nat \ {0}
ASSUME WeekAssumption    == Week \in Nat \ {0}

\* todox_format_t
Alarm == [task: Tasks, comment: Comments, ts: Int, does_repeat: BOOLEAN]

\* Rows of task t.
RowsOf(lst, t) == {i \in DOMAIN lst : lst[i].task = t}

\* Row j comes no later than row i once the table is sorted stably by time.
Precedes(s, j, i) == \/ s[j].ts < s[i].ts
                     \/ s[j].ts = s[i].ts /\ j <= i

Rank(s, K, i) == Cardinality({j \in K : Precedes(s, j, i)})

\* The rows of s whose index is in K, sorted by time, ties in their old order.
ByTime(s, K) ==
    [p \in 1..Cardinality(K) |-> s[CHOOSE i \in K : Rank(s, K, i) = p]]

\* sort_alarms_by_time
SortAlarmsByTime(lst) == ByTime(lst, DOMAIN lst)

\* The last position p such that row p is not later than itm (0: none).
Slot(lst, itm) ==
    CHOOSE p \in 0..Len(lst) : /\ p = 0 \/ lst[p].ts <= itm.ts
                               /\ \A q \in p+1..Len(lst) : lst[q].ts > itm.ts

\* todox_task_push: a full table is left as it is, and nobody is told.
TaskPush(lst, itm) ==
    IF Len(lst) >= MaxRows THEN lst
    ELSE InsertAt(lst, Slot(lst, itm) + 1, itm)

\* Mutant: rows are added at the end.
PushAtEnd(lst, items) == lst \o items

\* todox_task_push for each of items in turn, on a sorted table: those beyond
\* MaxRows are lost, the others are in the order of their times.
PushAll(lst, items) ==
    ByTime(lst \o items, {i \in DOMAIN (lst \o items) : i <= MaxRows})

\* todox_task_find: the first row of the task, 0 when there is none.
TaskFind(lst, t) == SelectInSeq(lst, LAMBDA a : a.task = t)

\* todox_task_remove: the first row of the task, if there is one.
TaskRemove(lst, t) ==
    IF TaskFind(lst, t) = 0 THEN lst ELSE RemoveAt(lst, TaskFind(lst, t))

\* todox_task_remove_all on a sorted table: the other rows close up.
TaskRemoveAll(lst, t) == ByTime(lst, DOMAIN lst \ RowsOf(lst, t))

\* Mutant: a week one unit short.
SixDaysLater(t) == t + (Week - 1)

\* todox_next_weekly_occurrence (external: mktime, see the README on DST)
NextWeeklyOccurrence(t) == t + Week

\* todox_advance_repeat_to_future: the least t + k * Week after now.
AdvanceRepeatToFuture(t, now) ==
    IF t <= now THEN t + Week * ((now - t) \div Week + 1) ELSE t

\* advance_repeat_alarm: row idx moves one week on, behind the rows that are
\* now strictly earlier.
AdvanceRepeatAlarm(lst, idx) ==
    LET moved == [lst[idx] EXCEPT !.ts = NextWeeklyOccurrence(@)]
        j == CHOOSE j \in idx..Len(lst) :
                 /\ \A q \in idx+1..j : lst[q].ts < moved.ts
                 /\ j < Len(lst) => lst[j+1].ts >= moved.ts
    IN  InsertAt(RemoveAt(lst, idx), j, moved)

\* The rows purge_past_alarms looks at, repeating ones moved to the future.
Advanced(lst, now) ==
    [i \in DOMAIN lst |->
        IF lst[i].does_repeat
        THEN [lst[i] EXCEPT !.ts = AdvanceRepeatToFuture(@, now)]
        ELSE lst[i]]

Due(lst, now)    == {i \in DOMAIN lst : lst[i].ts <= now}
\* Mutant: an alarm due this very moment still counts as to come.
FutureOrNow(lst, now) == {i \in DOMAIN lst : lst[i].ts >= now}

Future(lst, now) == {i \in DOMAIN lst : lst[i].ts > now}

\* purge_past_alarms without its write: due one-shot rows disappear, due
\* weekly rows move to the future, and the table is sorted if it changed.
PurgePastAlarms(lst, now) ==
    LET moved == Advanced(lst, now)
    IN  IF Due(lst, now) = {} THEN lst ELSE ByTime(moved, Future(moved, now))

\* Mutant: the search runs from the end of the table.
IsLastAlarm(lst, now, i) == i = Len(lst) /\ i \in Future(lst, now)

\* find_next_alarm returns i: the first row after now.
IsNextAlarm(lst, now, i) == /\ i \in Future(lst, now)
                            /\ \A j \in 1..i-1 : lst[j].ts <= now

IsSortedByTime(lst) ==
    \A i, j \in DOMAIN lst : i < j => lst[i].ts <= lst[j].ts
=============================================================================
