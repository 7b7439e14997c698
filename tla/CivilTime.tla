---------------------------- MODULE CivilTime ----------------------------
(***************************************************************************)
(* What a time stamp means: the date and time somebody writes or reads     *)
(* against the moment the alarm has (src/src/time/time.c, and the time     *)
(* code of src/src/repeat/repeat.c, parse.c, table.c and io.c), in a zone  *)
(* that has daylight saving time.                                          *)
(*                                                                         *)
(* A date and a time are a day, counted from 1970-01-01, and the units     *)
(* since its midnight; a wall clock is day * DayLen + tod.  The library    *)
(* functions are external; mktime believes tm_isdst, as that of glibc.     *)
(***************************************************************************)
EXTENDS Weekdays

CONSTANTS
    Winter,         \* the system zone, units ahead of UTC, outside DST
    SummerTime,     \* units by which DST is ahead of that
    SummerStart,    \* DST holds from here
    SummerEnd,      \* up to here
    Dates           \* bound: the days on which stamps are tried

\* No zone is a day or more away from UTC, in winter or in summer.
ASSUME ZoneAssumption == /\ {Winter, Winter + SummerTime} \subseteq Offsets
                         /\ SummerTime \in Nat \ {0}
                         /\ {SummerStart, SummerEnd} \subseteq Int
                         /\ Dates \subseteq Int

-----------------------------------------------------------------------------
(* The C library                                                           *)

IsDst(t)  == SummerStart <= t /\ t < SummerEnd
Gmtoff(t) == Winter + IF IsDst(t) THEN SummerTime ELSE 0

\* localtime, as the reading of a wall clock
Wall(t) == t + Gmtoff(t)

\* mktime for a wall clock said to be on DST or not
Mktime(wall, isdst) == wall - (Winter + IF isdst THEN SummerTime ELSE 0)

-----------------------------------------------------------------------------
(* Stamps                                                                  *)

NoZone  == DayLen           \* no zone is a day ahead of UTC
NoTime  == -1               \* (time_t)-1

\* strptime takes a zone also as +hh:mm, Z or +hh; `hhmm` says it is +hhmm.
Stamp == [day: Int, tod: 0..DayLen-1, zone: (1-DayLen)..DayLen, hhmm: BOOLEAN]

\* Mutant: east and west are mixed up.
ParseTzOffsetWest(s) == IF s.hhmm THEN - s.zone ELSE 0

\* parse_tz_offset: the last five characters, or nothing.
ParseTzOffset(s) == IF s.hhmm THEN s.zone ELSE 0

\* iso8601_to_time_t; NoTime also where the stamp really means that second.
FromIso8601(s) ==
    LET wall == s.day * DayLen + s.tod
    IN  CASE s.zone = NoZone                  -> Mktime(wall, FALSE)
          [] s.zone # NoZone /\ wall = NoTime -> NoTime
          [] OTHER                            -> wall - ParseTzOffset(s)

\* prepend_today: the date on the local calendar, whatever zone follows.
PrependToday(tod, zone, hhmm, now) ==
    [day |-> Wall(now) \div DayLen, tod |-> tod, zone |-> zone, hhmm |-> hhmm]

\* What todox_write_config writes: gmtime, whose %z is +0000.
WrittenStamp(t) == [day |-> t \div DayLen, tod |-> t % DayLen,
                    zone |-> 0, hhmm |-> TRUE]

\* Mutant: the listing has the zone of the winter.
ListedInWinter(t) ==
    [day |-> Wall(t) \div DayLen, tod |-> Wall(t) % DayLen,
     zone |-> Winter, hhmm |-> TRUE]

\* What print_tasks lists: localtime with its own offset.
ListedStamp(t) == [day |-> Wall(t) \div DayLen, tod |-> Wall(t) % DayLen,
                   zone |-> Gmtoff(t), hhmm |-> TRUE]

\* parse_time_field: the zone of a weekday alarm, the present one by default.
FieldOffset(zone, hhmm, now) ==
    IF zone = NoZone THEN Gmtoff(now)
    ELSE ParseTzOffset([day |-> 0, tod |-> 0, zone |-> zone, hhmm |-> hhmm])

\* Mutant: mktime is told that there is no DST.
WeeklyWithoutDst(t) == Mktime(Wall(t) + Week, FALSE)

\* todox_next_weekly_occurrence: the same tm, seven days on, its tm_isdst kept.
WeeklyByCalendar(t) == Mktime(Wall(t) + Week, IsDst(t))

-----------------------------------------------------------------------------
(* Properties, at every moment the clock shows                             *)

\* The weekly step is one Week of seconds, never 167 or 169 hours, as the
\* arithmetic of AlarmList and its theorems take it; and so the time on the
\* wall moves if DST begins or ends in that week.
WeeklyStepIsAWeek ==
    /\ WeeklyByCalendar(clock) = NextWeeklyOccurrence(clock)
    /\ TimeOfDay(Wall(WeeklyByCalendar(clock))) = TimeOfDay(Wall(clock))
          <=> (Gmtoff(clock + Week) - Gmtoff(clock)) % DayLen = 0

\* A moment survives being written to the file and read back, and being listed
\* and typed in again, but for one second at the turn of 1970: the stamp whose
\* date and time are read as -1 is taken for an error.
StampsReadBack ==
    \A t \in {clock, clock - DayLen} :
        /\ FromIso8601(WrittenStamp(t)) = t
        /\ FromIso8601(ListedStamp(t)) = IF Wall(t) = NoTime THEN NoTime ELSE t

\* When the wall clock a user writes is the one the alarm has.  With a zone:
\* exactly if it is spelt +hhmm or is zero.  Without: a bare time, which is
\* today's, outside DST; a weekday alarm if DST is then as it is now.
EnteredMeansWall ==
    /\ \A day \in Dates, tod \in TimesOfDay, zone \in Offsets, hhmm \in BOOLEAN :
          LET wall == day * DayLen + tod
              t == FromIso8601([day |-> day, tod |-> tod, zone |-> zone, hhmm |-> hhmm])
          IN  wall # NoTime => (t + zone = wall <=> hhmm \/ zone = 0)
    /\ \A tod \in TimesOfDay :
          LET t == FromIso8601(PrependToday(tod, NoZone, FALSE, clock))
          IN  Wall(t) = Wall(clock) - TimeOfDay(Wall(clock)) + tod <=> ~ IsDst(t)
    /\ \A wday \in Days, tod \in TimesOfDay :
          LET t == NextWeekdayTimestamp(wday, tod, FieldOffset(NoZone, FALSE, clock), clock)
          IN  Occurs(t, wday, tod, Gmtoff(t)) <=> Gmtoff(t) = Gmtoff(clock)
=============================================================================
