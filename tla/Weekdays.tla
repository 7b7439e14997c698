----------------------------- MODULE Weekdays -----------------------------
(***************************************************************************)
(* The weekday form of an alarm, DAY%%TIME%%TASK%%COMMENT                  *)
(* (src/src/repeat/repeat.c): which days an expression names, and when     *)
(* each of them comes next.                                                *)
(*                                                                         *)
(* A day is its tm_wday (0 is Sunday), BadDay a word that is none.  A time *)
(* of day is the number of clock units since midnight: the comparison of   *)
(* hour, minute and second is the comparison of these numbers.  gmtime and *)
(* timegm count days of DayLen units from Thursday, 1970-01-01.            *)
(***************************************************************************)
EXTENDS AlarmFile

CONSTANT DayLen     \* clock units in a day, 86400 seconds

ASSUME DayAssumption == DayLen \in Nat \ {0} /\ Week = 7 * DayLen

Days   == 0..6
BadDay == -1

\* strtok has cut a list into its words; a range has two; a single day one.
WeekdayExpr == [kind: {"single", "range", "list"}, words: Seq(Days \cup {BadDay})]

NoDays == <<>>

\* Mutant: a range does not go over the end of the week.
RangeWithoutWrap(first, last) ==
    [k \in 1..(last - first + 1) |-> first + k - 1]

\* The loop of parse_weekday_expr over a range goes on over the end of the
\* week, so that `fri-mon` names four days and `mon-sun` all seven.
RangeDays(first, last) ==
    [k \in 1..((last - first) % 7) + 1 |-> (first + k - 1) % 7]

\* parse_weekday_expr; NoDays stands for its failure, and for an expression
\* without a word, which its callers refuse.
ParseWeekdayExpr(expr) ==
    CASE BadDay \in ToSet(expr.words) -> NoDays
      [] expr.kind = "range" -> RangeDays(expr.words[1], expr.words[2])
      [] Len(expr.words) > 7 -> NoDays
      [] OTHER -> expr.words

Weekday(t)   == (t \div DayLen + 4) % 7
TimeOfDay(t) == t % DayLen

\* Mutant: this very moment counts as to come.
NextIncludingNow(wday, tod, tz, now) ==
    LET local == now + tz
        delta == (wday - Weekday(local) + 7) % 7
        ahead == IF delta = 0 /\ TimeOfDay(local) > tod THEN 7 ELSE delta
    IN  (local \div DayLen + ahead) * DayLen + tod - tz

\* Mutant: today is the day in UTC.
NextInUtc(wday, tod, tz, now) ==
    LET delta == (wday - Weekday(now) + 7) % 7
        ahead == IF delta = 0 /\ TimeOfDay(now) >= tod THEN 7 ELSE delta
    IN  (now \div DayLen + ahead) * DayLen + tod - tz

\* next_weekday_timestamp, for a clock tz units ahead of UTC
NextWeekdayTimestamp(wday, tod, tz, now) ==
    LET local == now + tz
        delta == (wday - Weekday(local) + 7) % 7
        ahead == IF delta = 0 /\ TimeOfDay(local) >= tod THEN 7 ELSE delta
    IN  (local \div DayLen + ahead) * DayLen + tod - tz

\* expand_weekday_triplet: the rows, none if the expression is refused.  One
\* reading of the clock stands for one reading per row.
ExpandWeekdayTriplet(expr, tod, tz, task, comment, now) ==
    LET days == ParseWeekdayExpr(expr)
    IN  [i \in DOMAIN days |->
            [task |-> task, comment |-> comment, does_repeat |-> TRUE,
             ts |-> NextWeekdayTimestamp(days[i], tod, tz, now)]]

-----------------------------------------------------------------------------
(* The clock shows any moment.                                             *)

Offsets == (1 - DayLen)..(DayLen - 1)
TimesOfDay == 0..DayLen-1

\* t is that time of that day of the week, on a clock tz ahead of UTC.
Occurs(t, wday, tod, tz) == /\ Weekday(t + tz) = wday
                            /\ TimeOfDay(t + tz) = tod

\* The timestamp computed from the calendar is the first moment strictly
\* after now that has the day and the time, also when the day in tz is not
\* the day in UTC and when the time of today is the present moment.
NextIsFirst ==
    \A wday \in Days, tod \in TimesOfDay, tz \in Offsets :
        LET r == NextWeekdayTimestamp(wday, tod, tz, clock)
        IN  /\ r > clock /\ Occurs(r, wday, tod, tz)
            /\ \A t \in clock+1..r-1 : ~ Occurs(t, wday, tod, tz)

\* Entering the same weekday alarm again, however much later, gives the time
\* to which the daemon moves the row entered now: the calendar of the add
\* command and the weekly step of the daemon never disagree.  (Without DST.)
StaysInPhase ==
    \A wday \in Days, tod \in TimesOfDay, tz \in Offsets, before \in 0..clock :
        AdvanceRepeatToFuture(NextWeekdayTimestamp(wday, tod, tz, before), clock)
            = NextWeekdayTimestamp(wday, tod, tz, clock)

\* A range gives one row for each of its days, from the first cyclically to
\* the last, all at different times within the coming week.
RangeCoversWeek ==
    \A first, last \in Days, tz \in Offsets :
        LET rows == ExpandWeekdayTriplet([kind |-> "range", words |-> <<first, last>>],
                                         0, tz, "task", "comment", clock)
            named(d) == (d - first) % 7 <= (last - first) % 7
        IN  /\ {Weekday(rows[i].ts + tz) : i \in DOMAIN rows} = {d \in Days : named(d)}
            /\ \A i, j \in DOMAIN rows : rows[i].ts = rows[j].ts => i = j
            /\ \A i \in DOMAIN rows : rows[i].ts - clock \in 1..Week
=============================================================================
