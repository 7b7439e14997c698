-------------------------- MODULE AlgorithmProofs --------------------------
(***************************************************************************)
(* Theorems about the sequential parts that the run "algorithms" checks.   *)
(* The calendar: weekdays, time stamps and zones, for every length of a    *)
(* day, every zone and every moment.  The D-Bus call: whichever step       *)
(* fails, each object is released exactly once, and a connection that was  *)
(* obtained is used.  The row format: which rows come back from the file   *)
(* and from the three forms of `add` as they were, for every text.         *)
(***************************************************************************)
EXTENDS CivilTime, RowFormat, Dbus, AlarmListProofs

-----------------------------------------------------------------------------
(* Days and times of day                                                   *)

\* A moment is a day and a time of day.
LEMMA Split ==
    ASSUME NEW n \in Int
    PROVE  /\ n \div DayLen \in Int
           /\ n % DayLen \in Int /\ 0 <= n % DayLen /\ n % DayLen < DayLen
           /\ n = DayLen * (n \div DayLen) + (n % DayLen)
BY DayAssumption

\* It is so in one way only.
LEMMA SplitOnce ==
    ASSUME NEW n \in Int, NEW q \in Int, NEW s \in TimesOfDay, n = DayLen * q + s
    PROVE  n \div DayLen = q /\ n % DayLen = s
<1> DEFINE d == n \div DayLen
           r == n % DayLen
<1>1. /\ DayLen \in Nat \ {0} /\ d \in Int
      /\ r \in Int /\ 0 <= r /\ r < DayLen /\ n = DayLen * d + r
  BY Split, DayAssumption
<1>2. s \in Int /\ 0 <= s /\ s < DayLen
  BY <1>1 DEF TimesOfDay
<1> HIDE DEF d, r
<1>3. DayLen * (d - q) = s - r
  BY <1>1, <1>2
<1>4. CASE d - q >= 1
  <2>1. DayLen * (d - q) >= DayLen
    BY <1>1, <1>4
  <2> QED BY <1>1, <1>2, <1>3, <2>1
<1>5. CASE d - q <= -1
  <2>1. DayLen * (d - q) <= - DayLen
    BY <1>1, <1>5
  <2> QED BY <1>1, <1>2, <1>3, <2>1
<1>6. CASE d = q
  BY <1>1, <1>2, <1>6 DEF d, r
<1> QED BY <1>1, <1>4, <1>5, <1>6

\* What it takes for t to be that time of that day of the week.
LEMMA OccursOn ==
    ASSUME NEW t \in Int, NEW wday, NEW tod \in TimesOfDay, NEW tz \in Int
    PROVE  /\ \A e \in Int : t + tz = DayLen * e + tod /\ (e + 4) % 7 = wday
                                => Occurs(t, wday, tod, tz)
           /\ Occurs(t, wday, tod, tz) =>
                \E e \in Int : t + tz = DayLen * e + tod /\ (e + 4) % 7 = wday
<1>1. t + tz \in Int
  OBVIOUS
<1>2. ASSUME NEW e \in Int, t + tz = DayLen * e + tod, (e + 4) % 7 = wday
      PROVE  Occurs(t, wday, tod, tz)
  BY <1>1, <1>2, SplitOnce DEF Occurs, Weekday, TimeOfDay
<1>3. ASSUME Occurs(t, wday, tod, tz)
      PROVE  \E e \in Int : t + tz = DayLen * e + tod /\ (e + 4) % 7 = wday
  <2>1. /\ (t + tz) \div DayLen \in Int
        /\ t + tz = DayLen * ((t + tz) \div DayLen) + tod
        /\ ((t + tz) \div DayLen + 4) % 7 = wday
    BY <1>1, <1>3, Split DEF Occurs, Weekday, TimeOfDay
  <2> QED BY <2>1, Zenon
<1> QED BY <1>2, <1>3

\* It occurs again whole weeks later, and not within a week.
LEMMA OccursWeekly ==
    ASSUME NEW t \in Int, NEW u \in Int, NEW wday, NEW tod \in TimesOfDay,
           NEW tz \in Int, Occurs(t, wday, tod, tz)
    PROVE  /\ \A k \in Int : u = t + Week * k => Occurs(u, wday, tod, tz)
           /\ Occurs(u, wday, tod, tz) /\ u - t < Week /\ t - u < Week => u = t
<1>1. PICK e \in Int : t + tz = DayLen * e + tod /\ (e + 4) % 7 = wday
  BY OccursOn
<1>2. DayLen \in Nat \ {0} /\ Week = 7 * DayLen /\ tod \in Int
  BY DayAssumption DEF TimesOfDay
<1>3. ASSUME NEW k \in Int, u = t + Week * k
      PROVE  Occurs(u, wday, tod, tz)
  <2>1. u + tz = DayLen * (e + 7 * k) + tod
    <3>1. Week * k = DayLen * (7 * k)
      BY <1>2
    <3>2. DayLen * (e + 7 * k) = DayLen * e + DayLen * (7 * k)
      BY <1>2
    <3>3. DayLen * e \in Int /\ DayLen * (7 * k) \in Int
      BY <1>2
    <3> QED BY <1>1, <1>2, <1>3, <3>1, <3>2, <3>3
  <2>2. e + 7 * k \in Int /\ (e + 7 * k + 4) % 7 = wday
    BY <1>1
  <2> QED BY <2>1, <2>2, OccursOn
<1>4. ASSUME Occurs(u, wday, tod, tz), u - t < Week, t - u < Week
      PROVE  u = t
  <2>1. PICK f \in Int : u + tz = DayLen * f + tod /\ (f + 4) % 7 = wday
    BY <1>4, OccursOn
  <2>2. PICK m \in Int : f - e = 7 * m
    <3>1. \E m \in Int : f - e = 7 * m
      <4>1. f - e = 7 * ((f + 4) \div 7 - (e + 4) \div 7)
        BY <1>1, <2>1
      <4>2. (f + 4) \div 7 - (e + 4) \div 7 \in Int
        OBVIOUS
      <4> QED BY <4>1, <4>2, Zenon
    <3> QED BY <3>1
  <2>3. u - t = Week * m
    <3>1. u - t = DayLen * f - DayLen * e /\ DayLen * f \in Int /\ DayLen * e \in Int
      BY <1>1, <1>2, <2>1
    <3>2. DayLen * f - DayLen * e = DayLen * (f - e)
      BY <1>2
    <3>3. DayLen * (7 * m) = Week * m
      BY <1>2
    <3> QED BY <2>2, <3>1, <3>2, <3>3
  <2>4. m = 0
    <3>1. CASE m >= 1
      <4>1. Week * m >= Week
        BY <1>2, <3>1
      <4> QED BY <1>2, <1>4, <2>3, <4>1
    <3>2. CASE m <= -1
      <4>1. Week * m <= - Week
        BY <1>2, <3>2
      <4> QED BY <1>2, <1>4, <2>3, <4>1
    <3> QED BY <3>1, <3>2
  <2>5. Week * 0 = 0
    BY <1>2
  <2> QED BY <2>3, <2>4, <2>5
<1> QED BY <1>3, <1>4

-----------------------------------------------------------------------------
(* The next occurrence                                                     *)

\* next_weekday_timestamp gives an occurrence within the coming week.
LEMMA NextOccurs ==
    ASSUME NEW wday \in Days, NEW tod \in TimesOfDay, NEW tz \in Int, NEW now \in Int
    PROVE  LET r == NextWeekdayTimestamp(wday, tod, tz, now)
           IN  /\ r \in Int /\ r > now /\ r - now <= Week
               /\ Occurs(r, wday, tod, tz)
<1> DEFINE local == now + tz
           d == local \div DayLen
           s == local % DayLen
           delta == (wday - ((d + 4) % 7) + 7) % 7
           ahead == IF delta = 0 /\ s >= tod THEN 7 ELSE delta
           r == (d + ahead) * DayLen + tod - tz
<1>1. NextWeekdayTimestamp(wday, tod, tz, now) = r
  BY DEF NextWeekdayTimestamp, Weekday, TimeOfDay
<1>2. /\ DayLen \in Nat \ {0} /\ Week = 7 * DayLen
      /\ tod \in Int /\ 0 <= tod /\ tod < DayLen /\ wday \in 0..6
  BY DayAssumption DEF TimesOfDay, Days
<1>3. /\ d \in Int /\ s \in Int /\ 0 <= s /\ s < DayLen
      /\ now + tz = DayLen * d + s
  BY Split
<1> HIDE DEF local, d, s
<1>4. ahead \in 0..7 /\ (d + ahead + 4) % 7 = wday
  BY <1>2, <1>3
<1>5. (ahead = 0 => s < tod) /\ (ahead = 7 => s >= tod)
  BY <1>2, <1>3
<1> HIDE DEF delta, ahead
<1>6. /\ r + tz = DayLen * (d + ahead) + tod /\ d + ahead \in Int
      /\ r \in Int
  BY <1>2, <1>3, <1>4
<1>7. Occurs(r, wday, tod, tz)
  BY <1>4, <1>6, OccursOn
<1> HIDE DEF r
<1>8. r - now = DayLen * ahead + tod - s
  <2> DEFINE x == DayLen * d
             y == DayLen * ahead
  <2>1. x \in Int /\ y \in Int /\ DayLen * (d + ahead) = x + y
    BY <1>2, <1>3, <1>4
  <2>2. r + tz = x + y + tod
    BY <1>6, <2>1
  <2>3. now + tz = x + s
    BY <1>3
  <2> HIDE DEF x, y
  <2>4. r - now = y + tod - s
    BY <1>2, <1>3, <1>6, <2>1, <2>2, <2>3
  <2> QED BY <2>4 DEF y
<1>9. r > now /\ r - now <= Week
  <2>1. CASE ahead = 0
    BY <1>2, <1>3, <1>5, <1>6, <1>8, <2>1
  <2>2. CASE ahead = 7
    BY <1>2, <1>3, <1>5, <1>6, <1>8, <2>2
  <2>3. CASE ahead \in 1..6
    <3>1. DayLen * ahead >= DayLen /\ DayLen * ahead <= DayLen * 6
      BY <1>2, <2>3
    <3> QED BY <1>2, <1>3, <1>6, <1>8, <2>3, <3>1
  <2> QED BY <1>4, <2>1, <2>2, <2>3
<1> QED BY <1>1, <1>6, <1>7, <1>9

\* An occurrence within the coming week is the next one.
LEMMA OccurrenceIsNext ==
    ASSUME NEW wday \in Days, NEW tod \in TimesOfDay, NEW tz \in Int,
           NEW now \in Int, NEW t \in Int,
           Occurs(t, wday, tod, tz), t > now, t - now <= Week
    PROVE  t = NextWeekdayTimestamp(wday, tod, tz, now)
<1> DEFINE r == NextWeekdayTimestamp(wday, tod, tz, now)
<1>1. r \in Int /\ r > now /\ r - now <= Week /\ Occurs(r, wday, tod, tz)
  BY NextOccurs
<1> HIDE DEF r
<1>2. t - r < Week /\ r - t < Week
  BY <1>1, WeekAssumption
<1>3. t = r
  BY <1>1, <1>2, OccursWeekly
<1> QED BY <1>3 DEF r

\* A zone is an integer, and midnight a time of day.
LEMMA ZonesAreIntegers == Offsets \subseteq Int /\ 0 \in TimesOfDay
BY DayAssumption DEF Offsets, TimesOfDay

\* The time stamp of a weekday alarm is the first moment after now that has
\* the day and the time, in every zone.
THEOREM NextOccurrenceIsFirst ==
    ASSUME clock \in Int
    PROVE  NextIsFirst
<1> SUFFICES ASSUME NEW wday \in Days, NEW tod \in TimesOfDay, NEW tz \in Offsets
             PROVE  LET r == NextWeekdayTimestamp(wday, tod, tz, clock)
                    IN  /\ r > clock /\ Occurs(r, wday, tod, tz)
                        /\ \A t \in clock+1..r-1 : ~ Occurs(t, wday, tod, tz)
  BY DEF NextIsFirst
<1> DEFINE r == NextWeekdayTimestamp(wday, tod, tz, clock)
<1>1. tz \in Int
  BY ZonesAreIntegers
<1>2. r \in Int /\ r > clock /\ r - clock <= Week /\ Occurs(r, wday, tod, tz)
  BY <1>1, NextOccurs
<1>3. ASSUME NEW t \in clock+1..r-1, Occurs(t, wday, tod, tz) PROVE FALSE
  <2> HIDE DEF r
  <2>1. t \in Int /\ t > clock /\ t < r /\ t - clock <= Week
    BY <1>2, WeekAssumption
  <2>2. t = r
    BY <1>1, <1>3, <2>1, OccurrenceIsNext DEF r
  <2> QED BY <2>1, <2>2
<1> QED BY <1>2, <1>3

\* The calendar of the add command and the weekly step of the daemon agree:
\* the row entered before, moved on by weeks, has the time of the row entered
\* now.
THEOREM WeeksStayInPhase ==
    ASSUME clock \in Int
    PROVE  StaysInPhase
<1> SUFFICES ASSUME NEW wday \in Days, NEW tod \in TimesOfDay,
                    NEW tz \in Offsets, NEW before \in 0..clock
             PROVE  AdvanceRepeatToFuture(
                        NextWeekdayTimestamp(wday, tod, tz, before), clock)
                      = NextWeekdayTimestamp(wday, tod, tz, clock)
  BY DEF StaysInPhase
<1> DEFINE t == NextWeekdayTimestamp(wday, tod, tz, before)
           u == AdvanceRepeatToFuture(t, clock)
<1>1. tz \in Int /\ before \in Int /\ before <= clock
  BY ZonesAreIntegers
<1>2. t \in Int /\ t - before <= Week /\ Occurs(t, wday, tod, tz)
  BY <1>1, NextOccurs
<1> HIDE DEF t
<1>3. /\ u \in Int /\ u > clock /\ (t <= clock => u - Week <= clock)
      /\ \E k \in Nat : u = t + Week * k
  BY <1>2, AdvanceIsNextOccurrence
<1>4. t > clock => u = t
  BY <1>2 DEF AdvanceRepeatToFuture
<1> HIDE DEF u
<1>5. Occurs(u, wday, tod, tz)
  BY <1>1, <1>2, <1>3, OccursWeekly
<1>6. u - clock <= Week
  BY <1>1, <1>2, <1>3, <1>4, WeekAssumption
<1>7. u = NextWeekdayTimestamp(wday, tod, tz, clock)
  BY <1>1, <1>3, <1>5, <1>6, OccurrenceIsNext
<1> QED BY <1>7 DEF t, u

\* A range of weekdays brings one row for each of its days, at different times
\* within the coming week.
THEOREM RangesCoverWeek ==
    ASSUME clock \in Int
    PROVE  RangeCoversWeek
<1> SUFFICES ASSUME NEW first \in Days, NEW last \in Days, NEW tz \in Offsets
             PROVE  LET added == ExpandWeekdayTriplet(
                                  [kind |-> "range", words |-> <<first, last>>],
                                  0, tz, "task", "comment", clock)
                        named(d) == (d - first) % 7 <= (last - first) % 7
                    IN  /\ {Weekday(added[i].ts + tz) : i \in DOMAIN added}
                               = {d \in Days : named(d)}
                        /\ \A i, j \in DOMAIN added : added[i].ts = added[j].ts => i = j
                        /\ \A i \in DOMAIN added : added[i].ts - clock \in 1..Week
  BY DEF RangeCoversWeek
<1> DEFINE expr == [kind |-> "range", words |-> <<first, last>>]
           added == ExpandWeekdayTriplet(expr, 0, tz, "task", "comment", clock)
           n    == (last - first) % 7
           day(i) == (first + i - 1) % 7
<1>1. first \in 0..6 /\ last \in 0..6 /\ n \in 0..6 /\ tz \in Int
  BY ZonesAreIntegers DEF Days
<1>2. ParseWeekdayExpr(expr) = [i \in 1..n+1 |-> day(i)]
  <2>1. BadDay \notin ToSet(expr.words)
    <3> DEFINE named == <<first, last>>
    <3>1. expr.words = named /\ DOMAIN named = 1..2 /\ named[1] = first /\ named[2] = last
      OBVIOUS
    <3> HIDE DEF named
    <3>2. \A k \in DOMAIN named : named[k] \in 0..6
      BY <1>1, <3>1
    <3>3. BadDay \notin 0..6
      BY DEF BadDay
    <3> QED BY <3>1, <3>2, <3>3 DEF ToSet
  <2> QED BY <2>1 DEF ParseWeekdayExpr, RangeDays
<1>3. DOMAIN added = 1..n+1
  BY <1>2 DEF ExpandWeekdayTriplet
<1>4. ASSUME NEW i \in 1..n+1
      PROVE  /\ added[i].ts \in Int /\ added[i].ts > clock /\ added[i].ts - clock <= Week
             /\ Weekday(added[i].ts + tz) = day(i)
  <2>1. added[i].ts = NextWeekdayTimestamp(day(i), 0, tz, clock)
    BY <1>2, <1>4 DEF ExpandWeekdayTriplet
  <2>2. day(i) \in Days
    BY <1>1, <1>4 DEF Days
  <2> HIDE DEF added, day
  <2>3. 0 \in TimesOfDay
    BY ZonesAreIntegers
  <2>4. LET r == NextWeekdayTimestamp(day(i), 0, tz, clock)
        IN  r \in Int /\ r > clock /\ r - clock <= Week /\ Occurs(r, day(i), 0, tz)
    BY <1>1, <2>2, <2>3, NextOccurs
  <2> QED BY <2>1, <2>4 DEF Occurs
<1> HIDE DEF added, expr
<1>5. {Weekday(added[i].ts + tz) : i \in DOMAIN added} = {day(i) : i \in 1..n+1}
  BY <1>3, <1>4
<1>6. ASSUME NEW i \in 1..n+1, NEW j \in 1..n+1, day(i) = day(j) PROVE i = j
  BY <1>1, <1>6
<1>7. {day(i) : i \in 1..n+1} = {d \in Days : (d - first) % 7 <= n}
  <2>1. ASSUME NEW i \in 1..n+1 PROVE day(i) \in Days /\ (day(i) - first) % 7 <= n
    BY <1>1, <2>1 DEF Days
  <2>2. ASSUME NEW d \in Days, (d - first) % 7 <= n
        PROVE  \E i \in 1..n+1 : d = day(i)
    <3> DEFINE i == ((d - first) % 7) + 1
    <3>1. i \in 1..n+1 /\ d = day(i)
      BY <1>1, <2>2 DEF Days
    <3> QED BY <3>1
  <2> QED BY <2>1, <2>2
<1>8. \A i, j \in DOMAIN added : added[i].ts = added[j].ts => i = j
  BY <1>3, <1>4, <1>6
<1>9. \A i \in DOMAIN added : added[i].ts - clock \in 1..Week
  BY <1>3, <1>4, WeekAssumption
<1> QED BY <1>5, <1>7, <1>8, <1>9 DEF added, expr

-----------------------------------------------------------------------------
(* Zones and daylight saving time                                          *)

\* The zone at any moment is less than a day from UTC.
LEMMA GmtoffType ==
    ASSUME NEW t \in Int
    PROVE  /\ Gmtoff(t) \in Int /\ Gmtoff(t) \in Offsets /\ Gmtoff(t) # NoZone
           /\ Winter \in Int /\ SummerTime \in Int /\ SummerTime > 0
           /\ DayLen \in Nat \ {0}
BY ZoneAssumption, DayAssumption DEF Gmtoff, Offsets, NoZone

\* Two clocks show the same time of day if they are whole days apart.
LEMMA SameTimeOfDay ==
    ASSUME NEW a \in Int, NEW b \in Int
    PROVE  TimeOfDay(a) = TimeOfDay(b) <=> (a - b) % DayLen = 0
<1> DEFINE p == a \div DayLen
           q == b \div DayLen
           r == a % DayLen
           s == b % DayLen
<1>1. /\ DayLen \in Nat \ {0} /\ p \in Int /\ q \in Int
      /\ r \in TimesOfDay /\ s \in TimesOfDay /\ r \in Int /\ s \in Int
      /\ a = DayLen * p + r /\ b = DayLen * q + s
  BY Split, DayAssumption DEF TimesOfDay
<1> HIDE DEF p, q, r, s
<1>2. 0 \in TimesOfDay
  BY ZonesAreIntegers
<1>3. ASSUME r = s PROVE (a - b) % DayLen = 0
  <2>1. DayLen * p - DayLen * q = DayLen * (p - q) /\ DayLen * p \in Int
        /\ DayLen * q \in Int /\ p - q \in Int
    BY <1>1
  <2>2. a - b = DayLen * (p - q) + 0
    BY <1>1, <1>3, <2>1
  <2> QED BY <1>2, <2>1, <2>2, SplitOnce
<1>4. ASSUME (a - b) % DayLen = 0 PROVE r = s
  <2> DEFINE k == (a - b) \div DayLen
  <2>1. k \in Int /\ a - b = DayLen * k
    <3>1. a - b \in Int
      OBVIOUS
    <3>2. k \in Int /\ a - b = DayLen * k + ((a - b) % DayLen)
      BY <3>1, Split
    <3> QED BY <1>1, <1>4, <3>2
  <2> HIDE DEF k
  <2>2. DayLen * (k + q) = DayLen * k + DayLen * q /\ DayLen * k \in Int
        /\ DayLen * q \in Int /\ k + q \in Int
    BY <1>1, <2>1
  <2>3. a = DayLen * (k + q) + s
    BY <1>1, <2>1, <2>2
  <2>4. a % DayLen = s
    BY <1>1, <2>2, <2>3, SplitOnce
  <2> QED BY <2>4 DEF r
<1> QED BY <1>3, <1>4 DEF TimeOfDay, r, s

\* The weekly step through the calendar is a week of seconds, whatever DST
\* does meanwhile; the time of day on the wall survives it unless DST does.
THEOREM WeekIsAlwaysAWeek ==
    ASSUME clock \in Int
    PROVE  WeeklyStepIsAWeek
<1> DEFINE g == Gmtoff(clock)
           h == Gmtoff(clock + Week)
<1>1. /\ Week \in Int /\ DayLen \in Int /\ clock + Week \in Int
      /\ Week = DayLen * 7 /\ g \in Int /\ h \in Int
  BY DayAssumption, GmtoffType
<1>2. WeeklyByCalendar(clock) = clock + Week
  BY <1>1 DEF WeeklyByCalendar, Mktime, Wall, Gmtoff
<1> HIDE DEF g, h
<1>3. /\ Wall(clock + Week) = clock + Week + h /\ Wall(clock) = clock + g
      /\ Wall(clock + Week) \in Int /\ Wall(clock) \in Int
  BY <1>1 DEF Wall, g, h
<1>4. TimeOfDay(Wall(clock + Week)) = TimeOfDay(Wall(clock))
        <=> (Week + h - g) % DayLen = 0
  <2> DEFINE a == Wall(clock + Week)
             b == Wall(clock)
  <2>1. a \in Int /\ b \in Int /\ a = clock + Week + h /\ b = clock + g
    BY <1>3
  <2> HIDE DEF a, b
  <2>2. a - b = Week + h - g
    BY <1>1, <2>1
  <2>3. TimeOfDay(a) = TimeOfDay(b) <=> (a - b) % DayLen = 0
    BY <2>1, SameTimeOfDay
  <2> QED BY <2>2, <2>3 DEF a, b
<1>5. (Week + h - g) % DayLen = (h - g) % DayLen
  <2> DEFINE q == (h - g) \div DayLen
             s == (h - g) % DayLen
  <2>1. q \in Int /\ s \in TimesOfDay /\ s \in Int /\ h - g = DayLen * q + s
    BY <1>1, Split DEF TimesOfDay
  <2> HIDE DEF q, s
  <2>2. DayLen * (q + 7) = DayLen * q + Week /\ DayLen * q \in Int /\ q + 7 \in Int
    BY <1>1, <2>1
  <2>3. Week + h - g = DayLen * (q + 7) + s /\ Week + h - g \in Int
    BY <1>1, <2>1, <2>2
  <2>4. (Week + h - g) % DayLen = s
    BY <2>1, <2>2, <2>3, SplitOnce
  <2> QED BY <2>4 DEF s
<1> QED BY <1>2, <1>4, <1>5 DEF WeeklyStepIsAWeek, NextWeeklyOccurrence, g, h

\* A moment survives the file, and a listing that is typed in again, but for
\* the second whose date and time are read as -1.
THEOREM StampsSurvive ==
    ASSUME clock \in Int
    PROVE  StampsReadBack
<1>1. ASSUME NEW t \in Int
      PROVE  /\ FromIso8601(WrittenStamp(t)) = t
             /\ FromIso8601(ListedStamp(t)) = IF Wall(t) = NoTime THEN NoTime ELSE t
  <2> DEFINE w == Wall(t)
  <2>1. /\ DayLen \in Nat \ {0} /\ w \in Int /\ Gmtoff(t) \in Int
        /\ Gmtoff(t) # NoZone /\ w = t + Gmtoff(t)
    BY GmtoffType DEF Wall
  <2>2. \A n \in Int : (n \div DayLen) * DayLen + (n % DayLen) = n
    <3>1. \A n \in Int : /\ n \div DayLen \in Int
                         /\ n = DayLen * (n \div DayLen) + (n % DayLen)
      BY Split
    <3> QED BY <2>1, <3>1
  <2>3. FromIso8601(WrittenStamp(t)) = t
    <3> DEFINE s == WrittenStamp(t)
    <3>1. /\ s.day * DayLen + s.tod = t /\ s.zone # NoZone
          /\ ParseTzOffset(s) = 0
      BY <2>1, <2>2 DEF WrittenStamp, ParseTzOffset, NoZone
    <3> HIDE DEF s
    <3>2. FromIso8601(s) = IF t = NoTime THEN NoTime ELSE t - 0
      BY <3>1 DEF FromIso8601
    <3> QED BY <3>2 DEF s
  <2> HIDE DEF w
  <2>4. FromIso8601(ListedStamp(t)) = IF w = NoTime THEN NoTime ELSE w - Gmtoff(t)
    <3>1. (w \div DayLen) * DayLen + (w % DayLen) = w
      BY <2>1, <2>2
    <3> QED BY <2>1, <3>1 DEF FromIso8601, ListedStamp, ParseTzOffset, w
  <2>5. w - Gmtoff(t) = t
    BY <2>1
  <2> QED BY <2>3, <2>4, <2>5 DEF w
<1>2. clock \in Int /\ clock - DayLen \in Int
  BY DayAssumption
<1> QED BY <1>1, <1>2 DEF StampsReadBack

\* Moving a clock by less than two days keeps the day of the week and the time
\* only if it does not move at all.
LEMMA OccursOnce ==
    ASSUME NEW t \in Int, NEW g \in Offsets, NEW h \in Offsets,
           NEW wday, NEW tod \in TimesOfDay, Occurs(t, wday, tod, g)
    PROVE  Occurs(t, wday, tod, h) <=> h = g
<1>1. /\ g \in Int /\ h \in Int /\ DayLen \in Nat \ {0} /\ Week = 7 * DayLen
      /\ h - g < Week /\ g - h < Week
  BY DayAssumption DEF Offsets
<1>2. ASSUME Occurs(t, wday, tod, h) PROVE h = g
  <2>1. t + (h - g) \in Int /\ (t + (h - g)) + g = t + h
    BY <1>1
  <2>2. Occurs(t + (h - g), wday, tod, g)
    BY <1>2, <2>1 DEF Occurs
  <2>3. (t + (h - g)) - t < Week /\ t - (t + (h - g)) < Week
    BY <1>1
  <2>4. t + (h - g) = t
    BY <1>1, <2>1, <2>2, <2>3, OccursWeekly
  <2> QED BY <1>1, <2>4
<1> QED BY <1>2

\* When the wall clock that is typed in is the one the alarm has: with a zone,
\* if it is spelt +hhmm or zero; a bare time, outside DST; a weekday, if DST is
\* then as it is now.
THEOREM TypedTimeOnTheWall ==
    ASSUME clock \in Int
    PROVE  EnteredMeansWall
<1>1. DayLen \in Nat \ {0} /\ TimesOfDay \subseteq Int /\ Offsets \subseteq Int
  BY ZonesAreIntegers, DayAssumption DEF TimesOfDay
<1>2. ASSUME NEW day \in Dates, NEW tod \in TimesOfDay, NEW zone \in Offsets,
             NEW hhmm \in BOOLEAN
      PROVE  LET wall == day * DayLen + tod
                 t == FromIso8601([day |-> day, tod |-> tod, zone |-> zone, hhmm |-> hhmm])
             IN  wall # NoTime => (t + zone = wall <=> hhmm \/ zone = 0)
  <2> DEFINE wall == day * DayLen + tod
             t == FromIso8601([day |-> day, tod |-> tod, zone |-> zone, hhmm |-> hhmm])
  <2>1. day \in Int /\ tod \in Int /\ zone \in Int /\ zone # NoZone /\ wall \in Int
    BY <1>1, ZoneAssumption DEF Offsets, NoZone
  <2>2. wall # NoTime => t = wall - (IF hhmm THEN zone ELSE 0)
    BY <2>1 DEF FromIso8601, ParseTzOffset
  <2> HIDE DEF wall, t
  <2>3. wall # NoTime => (t + zone = wall <=> hhmm \/ zone = 0)
    <3>1. CASE hhmm
      BY <2>1, <2>2, <3>1
    <3>2. CASE ~ hhmm
      BY <2>1, <2>2, <3>2
    <3> QED BY <3>1, <3>2
  <2> QED BY <2>3 DEF wall, t
<1>3. ASSUME NEW tod \in TimesOfDay
      PROVE  LET t == FromIso8601(PrependToday(tod, NoZone, FALSE, clock))
             IN  Wall(t) = Wall(clock) - TimeOfDay(Wall(clock)) + tod <=> ~ IsDst(t)
  <2> DEFINE w == Wall(clock)
             t == FromIso8601(PrependToday(tod, NoZone, FALSE, clock))
             midnight == (w \div DayLen) * DayLen
  <2>1. w \in Int /\ Winter \in Int /\ SummerTime \in Int /\ SummerTime > 0
    BY GmtoffType DEF Wall
  <2> HIDE DEF w
  <2>2. midnight \in Int /\ midnight = w - (w % DayLen) /\ w % DayLen \in Int
    <3>1. /\ w \div DayLen \in Int /\ w % DayLen \in Int
          /\ w = DayLen * (w \div DayLen) + (w % DayLen)
      BY <2>1, Split
    <3> QED BY <1>1, <2>1, <3>1
  <2>3. t = midnight + tod - Winter
    <3> DEFINE s == PrependToday(tod, NoZone, FALSE, clock)
    <3>1. s.day * DayLen + s.tod = midnight + tod /\ s.zone = NoZone
      BY DEF PrependToday, w
    <3> HIDE DEF s, midnight
    <3>2. midnight \in Int /\ tod \in Int /\ Winter \in Int
      BY <1>1, <2>1, <2>2
    <3>3. FromIso8601(s) = midnight + tod - Winter
      BY <3>1, <3>2 DEF FromIso8601, Mktime
    <3> QED BY <3>3 DEF s
  <2> HIDE DEF midnight, t
  <2>4. t + Winter = w - (w % DayLen) + tod /\ t \in Int /\ tod \in Int
    BY <1>1, <2>1, <2>2, <2>3
  <2>5. Wall(t) = t + Winter <=> ~ IsDst(t)
    BY <2>1, <2>4 DEF Wall, Gmtoff
  <2> QED BY <2>4, <2>5 DEF TimeOfDay, w, t
<1>4. ASSUME NEW wday \in Days, NEW tod \in TimesOfDay
      PROVE  LET t == NextWeekdayTimestamp(wday, tod, FieldOffset(NoZone, FALSE, clock), clock)
             IN  Occurs(t, wday, tod, Gmtoff(t)) <=> Gmtoff(t) = Gmtoff(clock)
  <2> DEFINE g == Gmtoff(clock)
             t == NextWeekdayTimestamp(wday, tod, g, clock)
  <2>1. FieldOffset(NoZone, FALSE, clock) = g /\ g \in Int /\ g \in Offsets
    BY GmtoffType DEF FieldOffset
  <2> HIDE DEF g
  <2>2. t \in Int /\ Occurs(t, wday, tod, g)
    BY <2>1, NextOccurs
  <2> HIDE DEF t
  <2>3. Gmtoff(t) \in Offsets
    BY <2>2, GmtoffType
  <2>4. Occurs(t, wday, tod, Gmtoff(t)) <=> Gmtoff(t) = g
    BY <2>1, <2>2, <2>3, OccursOnce
  <2> QED BY <2>1, <2>4 DEF g, t
<1> QED BY <1>2, <1>3, <1>4 DEF EnteredMeansWall

-----------------------------------------------------------------------------
(* One notification over the session bus                                   *)

\* The locals are where the function is: nothing is held outside the call,
\* no connection before it was asked for, and no reply before the message went.
LocalsInv ==
    /\ dpc \in {"idle", "bus", "derive", "check", "call", "cleanup", "done"}
    /\ held \subseteq Objects
    /\ dpc \in {"idle", "done"} => held = {}
    /\ dpc \in {"bus", "derive"} => held = {"msg"}
    /\ dpc \in {"check", "call"} => "msg" \in held /\ "reply" \notin held

\* The process owns one reference to each object it holds, and no other; an
\* error stands only for a connection that is not there.
DInv ==
    /\ LocalsInv
    /\ owned = [o \in Objects |-> IF o \in held THEN 1 ELSE 0]
    /\ dpc = "bus" => err = FALSE
    /\ dpc = "check" /\ "conn" \in held => err = FALSE

\* At first the function has not been called.
LEMMA DbusInitInv == DbusInit => DInv
BY DEF DbusInit, DInv, LocalsInv

\* Every step of the call keeps it.
LEMMA DbusStepInv == DInv /\ [DbusNext]_bus => DInv'
<1> SUFFICES ASSUME DInv, [DbusNext]_bus PROVE DInv'
  OBVIOUS
<1> USE DEF DInv, LocalsInv, Objects
<1>1. CASE SetDbusMessage
  BY <1>1 DEF SetDbusMessage
<1>2. CASE BusGet
  BY <1>2 DEF BusGet, Obtain
<1>3. CASE DeriveAddress
  BY <1>3 DEF DeriveAddress, Obtain
<1>4. CASE CheckConnection
  BY <1>4 DEF CheckConnection
<1>5. CASE AppendMessage
  <2>1. /\ dpc = "call" /\ dpc' = "cleanup" /\ err' \in {err, TRUE}
        /\ held \subseteq Objects /\ "msg" \in held /\ "reply" \notin held
    BY <1>5 DEF AppendMessage
  <2>2. /\ owned["msg"] = 1 /\ owned["reply"] = 0
        /\ owned["conn"] = IF "conn" \in held THEN 1 ELSE 0
    BY <2>1
  <2>3. CASE /\ held' = (held \ {"msg"}) \cup {"reply"}
             /\ owned' = [owned EXCEPT !["msg"] = @ - 1, !["reply"] = @ + 1]
    <3>1. /\ owned'["msg"] = 0 /\ owned'["reply"] = 1
          /\ owned'["conn"] = owned["conn"]
      BY <2>2, <2>3
    <3>2. owned' = [o \in Objects |-> IF o \in held' THEN 1 ELSE 0]
      BY <2>1, <2>2, <2>3, <3>1
    <3>3. held' \subseteq Objects
      BY <2>1, <2>3
    <3> QED BY <2>1, <3>2, <3>3
  <2>4. CASE held' = held \ {"msg"} /\ owned' = [owned EXCEPT !["msg"] = @ - 1]
    <3>1. /\ owned'["msg"] = 0 /\ owned'["reply"] = 0
          /\ owned'["conn"] = owned["conn"]
      BY <2>2, <2>4
    <3>2. owned' = [o \in Objects |-> IF o \in held' THEN 1 ELSE 0]
      BY <2>1, <2>2, <2>4, <3>1
    <3>3. held' \subseteq Objects
      BY <2>1, <2>4
    <3> QED BY <2>1, <3>2, <3>3
  <2> QED BY <1>5, <2>3, <2>4 DEF AppendMessage
<1>6. CASE Cleanup
  BY <1>6 DEF Cleanup
<1>7. CASE UNCHANGED bus
  BY <1>7 DEF bus
<1> QED BY <1>1, <1>2, <1>3, <1>4, <1>5, <1>6, <1>7 DEF DbusNext

\* It holds throughout.
LEMMA DbusInvariance == DbusSpec => []DInv
<1> QED BY DbusInitInv, DbusStepInv, PTL DEF DbusSpec

\* Whichever call of libdbus fails, and however often the function is called,
\* every object is released exactly once.
THEOREM EveryReferenceReleased == DbusSpec => []ReferencesBalanced
<1>1. DInv => ReferencesBalanced
  BY DEF DInv, LocalsInv, ReferencesBalanced
<1> QED BY <1>1, DbusInvariance, PTL

\* A connection that was obtained, at the first attempt or at the second with
\* the derived address, is used.
THEOREM ObtainedConnectionIsUsed == DbusSpec => ConnectionIsUsed
<1>1. DInv /\ [DbusNext]_bus
         => [dpc = "check" /\ "conn" \in held => dpc' = "call"]_bus
  BY DEF DInv, bus, DbusNext, SetDbusMessage, BusGet, DeriveAddress,
         CheckConnection, AppendMessage, Cleanup
<1> QED BY <1>1, DbusInvariance, PTL DEF DbusSpec, ConnectionIsUsed

-----------------------------------------------------------------------------
(* Sequences end to end                                                    *)

\* FlattenSeq goes along its sequences, one after another.
LEMMA FlattenIs ==
    ASSUME NEW S, NEW ss \in Seq(Seq(S)), Len(ss) > 0
    PROVE  \E f : /\ f[1] = ss[1]
                  /\ \A i \in 2..Len(ss) : f[i] = f[i-1] \o ss[i]
                  /\ FlattenSeq(ss) = f[Len(ss)]
<1> DEFINE n == Len(ss)
           P(m) == \E g \in [1..m -> Seq(S)] :
                      \A i \in 1..m : g[i] = IF i = 1 THEN ss[i] ELSE g[i-1] \o ss[i]
           T == {m \in 0..n : ~ P(m)}
<1>1. n \in Nat /\ n > 0 /\ \A i \in 1..n : ss[i] \in Seq(S)
  BY LenProperties, ElementOfSeq
<1>2. T = {}
  <2>1. SUFFICES ASSUME T # {} PROVE FALSE
    OBVIOUS
  <2>2. T \in SUBSET Nat
    BY <1>1
  <2> HIDE DEF P
  <2>3. PICK m \in T : \A k \in T : m <= k
    BY <2>1, <2>2, LeastOf
  <2>4. m # 0
    <3> DEFINE g == [i \in 1..0 |-> ss[i]]
    <3>1. g \in [1..0 -> Seq(S)] /\ \A i \in 1..0 : FALSE
      OBVIOUS
    <3> HIDE DEF g
    <3>2. P(0)
      BY <3>1 DEF P
    <3> QED BY <3>2
  <2>5. m \in 1..n /\ m - 1 \in 0..n /\ m - 1 \notin T
    BY <1>1, <2>3, <2>4
  <2>6. P(m - 1)
    BY <2>5
  <2>7. PICK g \in [1..(m-1) -> Seq(S)] :
           \A i \in 1..(m-1) : g[i] = IF i = 1 THEN ss[i] ELSE g[i-1] \o ss[i]
    BY <2>6 DEF P
  <2> DEFINE v == IF m = 1 THEN ss[m] ELSE g[m-1] \o ss[m]
             h == [i \in 1..m |-> IF i = m THEN v ELSE g[i]]
  <2>8. v \in Seq(S)
    <3>1. ss[m] \in Seq(S)
      BY <1>1, <2>5
    <3>2. CASE m = 1
      BY <3>1, <3>2
    <3>3. CASE m # 1
      <4>1. m - 1 \in 1..(m-1)
        BY <2>5, <3>3
      <4>2. g[m-1] \in Seq(S)
        BY <4>1
      <4> QED BY <3>1, <3>3, <4>2, ConcatProperties
    <3> QED BY <3>2, <3>3
  <2> HIDE DEF v
  <2>9. h \in [1..m -> Seq(S)]
    <3>1. ASSUME NEW i \in 1..m PROVE (IF i = m THEN v ELSE g[i]) \in Seq(S)
      <4>1. i # m => i \in 1..(m-1)
        BY <2>5
      <4> QED BY <2>8, <4>1
    <3> QED BY <3>1
  <2>10. ASSUME NEW i \in 1..m
         PROVE  h[i] = IF i = 1 THEN ss[i] ELSE h[i-1] \o ss[i]
    <3>1. CASE i = m
      <4>1. h[m] = v
        BY <2>5
      <4>2. m # 1 => h[m-1] = g[m-1]
        BY <2>5
      <4> QED BY <3>1, <4>1, <4>2 DEF v
    <3>2. CASE i # m
      <4>1. i \in 1..(m-1) /\ h[i] = g[i]
        BY <2>5, <3>2
      <4>2. i # 1 => h[i-1] = g[i-1]
        BY <2>5, <4>1
      <4> QED BY <2>7, <4>1, <4>2
    <3> QED BY <3>1, <3>2
  <2>11. P(m)
    BY <2>9, <2>10 DEF P
  <2> QED BY <2>3, <2>11
<1>3. P(n)
  <2> HIDE DEF P
  <2>1. n \in 0..n
    BY <1>1
  <2> QED BY <1>2, <2>1
<1>4. PICK g \in [1..n -> Seq(S)] :
         \A i \in 1..n : g[i] = IF i = 1 THEN ss[i] ELSE g[i-1] \o ss[i]
  BY <1>3
<1>5. g = [i \in 1..n |-> IF i = 1 THEN ss[i] ELSE g[i-1] \o ss[i]]
  BY <1>4
<1> DEFINE f == CHOOSE x : x = [i \in 1..n |-> IF i = 1 THEN ss[i] ELSE x[i-1] \o ss[i]]
<1>6. f = [i \in 1..n |-> IF i = 1 THEN ss[i] ELSE f[i-1] \o ss[i]]
  BY <1>5
<1>7. FlattenSeq(ss) = f[n]
  BY <1>1 DEF FlattenSeq
<1> HIDE DEF f
<1>8. f[1] = ss[1]
  <2>1. 1 \in 1..n
    BY <1>1
  <2> QED BY <1>6, <2>1
<1>9. ASSUME NEW i \in 2..n PROVE f[i] = f[i-1] \o ss[i]
  <2>1. i \in 1..n /\ i # 1
    BY <1>1
  <2> QED BY <1>6, <2>1
<1> QED BY <1>7, <1>8, <1>9

\* What comes out is made of what goes in.
LEMMA FlattenType ==
    ASSUME NEW S, NEW ss \in Seq(Seq(S))
    PROVE  FlattenSeq(ss) \in Seq(S)
<1>1. Len(ss) \in Nat /\ \A i \in 1..Len(ss) : ss[i] \in Seq(S)
  BY LenProperties, ElementOfSeq
<1>2. CASE Len(ss) = 0
  <2>1. ss = <<>>
    BY <1>2, EmptySeq
  <2> QED BY <1>2, <2>1, EmptySeq DEF FlattenSeq
<1>3. CASE Len(ss) > 0
  <2>1. PICK f : /\ f[1] = ss[1]
                 /\ \A i \in 2..Len(ss) : f[i] = f[i-1] \o ss[i]
                 /\ FlattenSeq(ss) = f[Len(ss)]
    BY <1>3, FlattenIs
  <2> DEFINE T == {i \in 1..Len(ss) : f[i] \notin Seq(S)}
  <2>2. T = {}
    <3>1. SUFFICES ASSUME T # {} PROVE FALSE
      OBVIOUS
    <3>2. T \in SUBSET Nat
      BY <1>1
    <3>3. PICK m \in T : \A k \in T : m <= k
      BY <3>1, <3>2, LeastOf
    <3>4. m # 1
      BY <1>1, <1>3, <2>1, <3>3
    <3>5. m - 1 \in 1..Len(ss) /\ m - 1 \notin T /\ m \in 2..Len(ss)
      BY <1>1, <3>3, <3>4
    <3>6. f[m-1] \in Seq(S) /\ ss[m] \in Seq(S) /\ f[m] = f[m-1] \o ss[m]
      BY <1>1, <2>1, <3>5
    <3>7. f[m] \in Seq(S)
      BY <3>6, ConcatProperties
    <3> QED BY <3>3, <3>7
  <2>3. Len(ss) \in 1..Len(ss)
    BY <1>1, <1>3
  <2>4. f[Len(ss)] \in Seq(S)
    BY ONLY <2>2, <2>3
  <2> QED BY <2>1, <2>4
<1> QED BY <1>1, <1>2, <1>3

\* If only the last is not empty, it is what comes out.
LEMMA FlattenLast ==
    ASSUME NEW S, NEW ss \in Seq(Seq(S)), Len(ss) > 0,
           \A i \in 1..Len(ss)-1 : ss[i] = <<>>
    PROVE  FlattenSeq(ss) = ss[Len(ss)]
<1>1. Len(ss) \in Nat /\ \A i \in 1..Len(ss) : ss[i] \in Seq(S)
  BY LenProperties, ElementOfSeq
<1>2. PICK f : /\ f[1] = ss[1]
               /\ \A i \in 2..Len(ss) : f[i] = f[i-1] \o ss[i]
               /\ FlattenSeq(ss) = f[Len(ss)]
  BY FlattenIs
<1> DEFINE T == {i \in 1..Len(ss) : f[i] # ss[i]}
<1>3. T = {}
  <2>1. SUFFICES ASSUME T # {} PROVE FALSE
    OBVIOUS
  <2>2. T \in SUBSET Nat
    BY <1>1
  <2>3. PICK m \in T : \A k \in T : m <= k
    BY <2>1, <2>2, LeastOf
  <2>4. m # 1
    BY <1>1, <1>2, <2>3
  <2>5. m - 1 \in 1..Len(ss)-1 /\ m - 1 \notin T /\ m \in 2..Len(ss) /\ m - 1 \in 1..Len(ss)
    BY <1>1, <2>3, <2>4
  <2>6. f[m-1] = <<>> /\ ss[m] \in Seq(S) /\ f[m] = f[m-1] \o ss[m]
    BY <1>1, <1>2, <2>5
  <2>7. f[m] = ss[m]
    BY <2>6, ConcatEmptySeq
  <2> QED BY <2>3, <2>7
<1> QED BY <1>1, <1>2, <1>3

-----------------------------------------------------------------------------
(* Texts and separators                                                    *)

\* What may stand before a separator and is found there again.
SepFree(s) == ~ HasSep(s) /\ ~ EndsIn(s, {"%"})

\* Elements and length of a text.
LEMMA TextIs ==
    ASSUME NEW s \in Seq(Token)
    PROVE  /\ Len(s) \in Nat /\ DOMAIN s = 1..Len(s)
           /\ \A i \in 1..Len(s) : s[i] \in Token
           /\ s # <<>> <=> Len(s) > 0
BY LenProperties, ElementOfSeq, EmptySeq

\* A separator is two tokens.
LEMMA SepIs == Sep \in Seq(Token) /\ Len(Sep) = 2 /\ Sep[1] = "%" /\ Sep[2] = "%"
<1>1. "%" \in Token
  BY DEF Token
<1> QED BY <1>1 DEF Sep

\* Three texts may be put together from either end.
LEMMA GroupIs ==
    ASSUME NEW A \in Seq(Token), NEW B \in Seq(Token), NEW C \in Seq(Token)
    PROVE  (A \o B) \o C = A \o (B \o C)
BY ConcatAssociative

\* One text after another.
LEMMA AppendIs ==
    ASSUME NEW A \in Seq(Token), NEW B \in Seq(Token)
    PROVE  /\ A \o B \in Seq(Token) /\ Len(A \o B) = Len(A) + Len(B)
           /\ \A i \in 1..Len(A) : (A \o B)[i] = A[i]
           /\ \A i \in 1..Len(B) : (A \o B)[Len(A) + i] = B[i]
<1>1. Len(A) \in Nat /\ Len(B) \in Nat
  BY TextIs
<1>2. /\ A \o B \in Seq(Token) /\ Len(A \o B) = Len(A) + Len(B)
      /\ \A i \in 1..Len(A)+Len(B) : (A \o B)[i] = IF i <= Len(A) THEN A[i] ELSE B[i - Len(A)]
  BY ConcatProperties
<1>3. ASSUME NEW i \in 1..Len(A) PROVE (A \o B)[i] = A[i]
  BY <1>1, <1>2
<1>4. ASSUME NEW i \in 1..Len(B) PROVE (A \o B)[Len(A) + i] = B[i]
  <2>1. /\ Len(A) + i \in 1..Len(A)+Len(B) /\ ~ (Len(A) + i <= Len(A))
        /\ Len(A) + i - Len(A) = i
    BY <1>1
  <2> QED BY <1>2, <2>1
<1> QED BY <1>2, <1>3, <1>4

\* The beginning of a text.
LEMMA PrefixIs ==
    ASSUME NEW s \in Seq(Token), NEW n \in 0..Len(s)
    PROVE  /\ SubSeq(s, 1, n) \in Seq(Token) /\ Len(SubSeq(s, 1, n)) = n
           /\ \A i \in 1..n : SubSeq(s, 1, n)[i] = s[i]
<1>1. Len(s) \in Nat /\ n \in Int /\ \A i \in 1..n : s[i] \in Token
  BY TextIs
<1>2. /\ SubSeq(s, 1, n) \in Seq(Token)
      /\ Len(SubSeq(s, 1, n)) = IF 1 <= n THEN n-1+1 ELSE 0
      /\ \A i \in 1..n-1+1 : SubSeq(s, 1, n)[i] = s[1+i-1]
  BY <1>1, SubSeqProperties
<1>3. n-1+1 = n /\ (IF 1 <= n THEN n-1+1 ELSE 0) = n
  BY <1>1
<1>4. ASSUME NEW i \in 1..n PROVE SubSeq(s, 1, n)[i] = s[i]
  <2>1. 1+i-1 = i
    OBVIOUS
  <2> QED BY <1>2, <1>3, <2>1
<1> QED BY <1>2, <1>3, <1>4

\* The end of a text.
LEMMA SuffixIs ==
    ASSUME NEW s \in Seq(Token), NEW m \in 1..Len(s)+1
    PROVE  /\ SubSeq(s, m, Len(s)) \in Seq(Token) /\ Len(SubSeq(s, m, Len(s))) = Len(s) + 1 - m
           /\ \A i \in 1..Len(s)+1-m : SubSeq(s, m, Len(s))[i] = s[m-1+i]
<1>1. Len(s) \in Nat /\ Len(s) \in Int /\ m \in Int /\ \A i \in m..Len(s) : s[i] \in Token
  BY TextIs
<1>2. /\ SubSeq(s, m, Len(s)) \in Seq(Token)
      /\ Len(SubSeq(s, m, Len(s))) = IF m <= Len(s) THEN Len(s)-m+1 ELSE 0
      /\ \A i \in 1..Len(s)-m+1 : SubSeq(s, m, Len(s))[i] = s[m+i-1]
  BY <1>1, SubSeqProperties
<1>3. Len(s)-m+1 = Len(s)+1-m /\ (IF m <= Len(s) THEN Len(s)-m+1 ELSE 0) = Len(s)+1-m
  BY <1>1
<1>4. ASSUME NEW i \in 1..Len(s)+1-m PROVE SubSeq(s, m, Len(s))[i] = s[m-1+i]
  <2>1. m+i-1 = m-1+i
    BY <1>1
  <2> QED BY <1>2, <1>3, <2>1
<1> QED BY <1>2, <1>3, <1>4

\* A text of two parts.
LEMMA JoinIs ==
    ASSUME NEW A \in Seq(Token), NEW B \in Seq(Token)
    PROVE  /\ A \o Sep \o B \in Seq(Token) /\ Len(A \o Sep \o B) = Len(A) + 2 + Len(B)
           /\ \A i \in 1..Len(A) : (A \o Sep \o B)[i] = A[i]
           /\ (A \o Sep \o B)[Len(A) + 1] = "%" /\ (A \o Sep \o B)[Len(A) + 2] = "%"
           /\ \A i \in 1..Len(B) : (A \o Sep \o B)[Len(A) + 2 + i] = B[i]
<1> DEFINE u == A \o Sep
           s == u \o B
<1>1. Len(A) \in Nat /\ Len(B) \in Nat /\ Sep \in Seq(Token) /\ Len(Sep) = 2
      /\ Sep[1] = "%" /\ Sep[2] = "%"
  BY TextIs, SepIs
<1>2. /\ u \in Seq(Token) /\ Len(u) = Len(A) + Len(Sep)
      /\ \A i \in 1..Len(A) : u[i] = A[i]
      /\ \A i \in 1..Len(Sep) : u[Len(A) + i] = Sep[i]
  <2>1. Sep \in Seq(Token)
    BY SepIs
  <2> QED BY <2>1, AppendIs
<1> HIDE DEF u
<1>3. /\ s \in Seq(Token) /\ Len(s) = Len(u) + Len(B)
      /\ \A i \in 1..Len(u) : s[i] = u[i]
      /\ \A i \in 1..Len(B) : s[Len(u) + i] = B[i]
  <2>1. u \in Seq(Token)
    BY <1>2
  <2> QED BY <2>1, AppendIs
<1> HIDE DEF s
<1>4. \A i \in 1..Len(A) : s[i] = A[i]
  BY <1>1, <1>2, <1>3
<1>5. s[Len(A) + 1] = "%" /\ s[Len(A) + 2] = "%"
  BY <1>1, <1>2, <1>3
<1>6. Len(s) = Len(A) + 2 + Len(B) /\ \A i \in 1..Len(B) : s[Len(A) + 2 + i] = B[i]
  BY <1>1, <1>2, <1>3
<1> QED BY <1>3, <1>4, <1>5, <1>6 DEF s, u

\* Two texts of equal parts; the first are as long as each other.
LEMMA JoinUnique ==
    ASSUME NEW A \in Seq(Token), NEW B \in Seq(Token),
           NEW C \in Seq(Token), NEW D \in Seq(Token),
           A \o Sep \o B = C \o Sep \o D, Len(A) = Len(C)
    PROVE  A = C /\ B = D
<1> DEFINE s == A \o Sep \o B
<1>1. /\ Len(s) = Len(A) + 2 + Len(B)
      /\ \A i \in 1..Len(A) : s[i] = A[i]
      /\ \A i \in 1..Len(B) : s[Len(A) + 2 + i] = B[i]
  BY JoinIs
<1>2. /\ Len(s) = Len(C) + 2 + Len(D)
      /\ \A i \in 1..Len(C) : s[i] = C[i]
      /\ \A i \in 1..Len(D) : s[Len(C) + 2 + i] = D[i]
  <2> DEFINE t == C \o Sep \o D
  <2>1. /\ Len(t) = Len(C) + 2 + Len(D)
        /\ \A i \in 1..Len(C) : t[i] = C[i]
        /\ \A i \in 1..Len(D) : t[Len(C) + 2 + i] = D[i]
    BY JoinIs
  <2>2. s = t
    OBVIOUS
  <2> HIDE DEF s, t
  <2> QED BY <2>1, <2>2
<1> HIDE DEF s
<1>3. Len(A) \in Nat /\ Len(B) \in Nat /\ Len(C) \in Nat /\ Len(D) \in Nat
  BY TextIs
<1>4. A = C
  <2>1. \A i \in 1..Len(A) : A[i] = C[i]
    BY <1>1, <1>2
  <2> QED BY <2>1, SeqEqual
<1>5. Len(B) = Len(D)
  BY <1>1, <1>2, <1>3
<1>6. B = D
  <2>1. \A i \in 1..Len(B) : B[i] = D[i]
    BY <1>1, <1>2, <1>5
  <2> QED BY <1>5, <2>1, SeqEqual
<1> QED BY <1>4, <1>6

\* The first separator.
LEMMA FirstIs ==
    ASSUME NEW s \in Seq(Token), HasSep(s)
    PROVE  /\ FirstSep(s) \in 1..Len(s)-1 /\ IsSepAt(s, FirstSep(s))
           /\ \A j \in 1..FirstSep(s)-1 : ~ IsSepAt(s, j)
<1> DEFINE I == {i \in DOMAIN s : IsSepAt(s, i)}
<1>1. Len(s) \in Nat /\ DOMAIN s = 1..Len(s)
  BY TextIs
<1>2. I \in SUBSET Nat /\ I # {}
  BY <1>1 DEF HasSep
<1>3. PICK m \in I : \A k \in I : m <= k
  BY <1>2, LeastOf
<1>4. m \in DOMAIN s /\ IsSepAt(s, m) /\ \A j \in 1..m-1 : ~ IsSepAt(s, j)
  <2>1. ASSUME NEW j \in 1..m-1 PROVE ~ IsSepAt(s, j)
    <3>1. j \in DOMAIN s /\ ~ (m <= j)
      BY <1>1, <1>3
    <3> QED BY <1>3, <3>1
  <2> QED BY <1>3, <2>1
<1> DEFINE p == FirstSep(s)
<1>5. p \in DOMAIN s /\ IsSepAt(s, p) /\ \A j \in 1..p-1 : ~ IsSepAt(s, j)
  BY <1>4 DEF FirstSep
<1> HIDE DEF p
<1>6. p + 1 \in DOMAIN s
  BY <1>5 DEF IsSepAt
<1>7. p \in 1..Len(s)-1
  BY <1>1, <1>5, <1>6
<1> QED BY <1>5, <1>7 DEF p

\* There is one first separator only.
LEMMA FirstOnly ==
    ASSUME NEW s \in Seq(Token), NEW p \in 1..Len(s)-1, IsSepAt(s, p),
           \A j \in 1..p-1 : ~ IsSepAt(s, j)
    PROVE  HasSep(s) /\ FirstSep(s) = p
<1>1. Len(s) \in Nat /\ DOMAIN s = 1..Len(s)
  BY TextIs
<1>2. HasSep(s)
  BY <1>1 DEF HasSep
<1> DEFINE q == FirstSep(s)
<1>3. q \in 1..Len(s)-1 /\ IsSepAt(s, q) /\ \A j \in 1..q-1 : ~ IsSepAt(s, j)
  BY <1>2, FirstIs
<1> HIDE DEF q
<1>4. ~ (p < q) /\ ~ (q < p)
  BY <1>1, <1>3
<1>5. p = q
  BY <1>1, <1>3, <1>4
<1> QED BY <1>2, <1>5 DEF q

\* A text with a separator is what is before it and what is after it.
LEMMA SepSplit ==
    ASSUME NEW s \in Seq(Token), HasSep(s)
    PROVE  /\ Before(s) \in Seq(Token) /\ After(s) \in Seq(Token) /\ SepFree(Before(s))
           /\ s = Before(s) \o Sep \o After(s)
<1> DEFINE p == FirstSep(s)
           A == Before(s)
           B == After(s)
           u == A \o Sep \o B
<1>1. Len(s) \in Nat /\ DOMAIN s = 1..Len(s) /\ \A i \in 1..Len(s) : s[i] \in Token
  BY TextIs
<1>2. p \in 1..Len(s)-1 /\ IsSepAt(s, p) /\ \A j \in 1..p-1 : ~ IsSepAt(s, j)
  BY FirstIs
<1>3. A = SubSeq(s, 1, p-1) /\ B = SubSeq(s, p+2, Len(s))
  BY DEF Before, After
<1> HIDE DEF A, B, p
<1>4. /\ A \in Seq(Token) /\ Len(A) = p - 1 /\ \A i \in 1..p-1 : A[i] = s[i]
  <2>1. p - 1 \in 0..Len(s)
    BY <1>1, <1>2
  <2> QED BY <1>3, <2>1, PrefixIs
<1>5. /\ B \in Seq(Token) /\ Len(B) = Len(s) - p - 1
      /\ \A i \in 1..Len(s)-p-1 : B[i] = s[p+1+i]
  <2> DEFINE m == p + 2
  <2>1. m \in 1..Len(s)+1 /\ Len(s) + 1 - m = Len(s) - p - 1 /\ m - 1 = p + 1
    BY <1>1, <1>2
  <2>2. B = SubSeq(s, m, Len(s))
    BY <1>3
  <2> HIDE DEF m
  <2>3. /\ B \in Seq(Token) /\ Len(B) = Len(s) + 1 - m
        /\ \A i \in 1..Len(s)+1-m : B[i] = s[m-1+i]
    BY <2>1, <2>2, SuffixIs
  <2> QED BY <2>1, <2>3
<1>6. SepFree(A)
  <2>1. DOMAIN A = 1..p-1
    BY <1>4, TextIs
  <2>2. ~ HasSep(A)
    <3>1. ASSUME NEW i \in DOMAIN A, IsSepAt(A, i) PROVE FALSE
      <4>1. i \in 1..p-1 /\ i+1 \in 1..p-1 /\ A[i] = "%" /\ A[i+1] = "%"
        BY <2>1, <3>1 DEF IsSepAt
      <4>2. i \in DOMAIN s /\ i + 1 \in DOMAIN s /\ s[i] = "%" /\ s[i+1] = "%"
        BY <1>1, <1>2, <1>4, <4>1
      <4> QED BY <1>2, <4>1, <4>2 DEF IsSepAt
    <3> QED BY <3>1 DEF HasSep
  <2>3. ~ EndsIn(A, {"%"})
    <3>1. SUFFICES ASSUME EndsIn(A, {"%"}) PROVE FALSE
      OBVIOUS
    <3>2. Len(A) > 0 /\ A[Len(A)] = "%"
      BY <1>4, <3>1, TextIs DEF EndsIn
    <3>3. p - 1 \in 1..p-1 /\ s[p-1] = "%"
      BY <1>2, <1>4, <3>2
    <3>4. s[p] = "%"
      BY <1>2 DEF IsSepAt
    <3>5. IsSepAt(s, p-1)
      <4>1. p - 1 \in DOMAIN s /\ (p - 1) + 1 \in DOMAIN s /\ (p - 1) + 1 = p
        BY <1>1, <1>2, <3>3
      <4> QED BY <3>3, <3>4, <4>1 DEF IsSepAt
    <3> QED BY <1>2, <3>3, <3>5
  <2> QED BY <2>2, <2>3 DEF SepFree
<1>7. s = u
  <2>1. /\ u \in Seq(Token) /\ Len(u) = Len(A) + 2 + Len(B)
        /\ \A i \in 1..Len(A) : u[i] = A[i]
        /\ u[Len(A) + 1] = "%" /\ u[Len(A) + 2] = "%"
        /\ \A i \in 1..Len(B) : u[Len(A) + 2 + i] = B[i]
    BY <1>4, <1>5, JoinIs
  <2> HIDE DEF u
  <2>2. Len(u) = Len(s)
    BY <1>1, <1>2, <1>4, <1>5, <2>1
  <2>3. s[p] = "%" /\ s[p+1] = "%"
    BY <1>2 DEF IsSepAt
  <2>4. ASSUME NEW i \in 1..Len(s) PROVE s[i] = u[i]
    <3>1. CASE i < p
      BY <1>2, <1>4, <2>1, <3>1
    <3>2. CASE i = p \/ i = p + 1
      BY <1>2, <1>4, <2>1, <2>3, <3>2
    <3>3. CASE i > p + 1
      <4>1. i - (p + 1) \in 1..Len(B) /\ Len(A) + 2 + (i - (p + 1)) = i
               /\ p + 1 + (i - (p + 1)) = i
        BY <1>1, <1>2, <1>4, <1>5, <3>3
      <4> QED BY <1>5, <2>1, <4>1
    <3> QED BY <1>2, <3>1, <3>2, <3>3
  <2> QED BY <2>1, <2>2, <2>4, SeqEqual
<1> QED BY <1>4, <1>5, <1>6, <1>7 DEF A, B

\* What stands before the separator is found there, and what is after it.
LEMMA SepJoin ==
    ASSUME NEW A \in Seq(Token), NEW B \in Seq(Token), SepFree(A)
    PROVE  /\ HasSep(A \o Sep \o B)
           /\ Before(A \o Sep \o B) = A /\ After(A \o Sep \o B) = B
<1> DEFINE s == A \o Sep \o B
<1>1. /\ s \in Seq(Token) /\ Len(s) = Len(A) + 2 + Len(B)
      /\ \A i \in 1..Len(A) : s[i] = A[i]
      /\ s[Len(A) + 1] = "%" /\ s[Len(A) + 2] = "%"
  BY JoinIs
<1> HIDE DEF s
<1>2. Len(A) \in Nat /\ DOMAIN A = 1..Len(A) /\ Len(B) \in Nat /\ DOMAIN s = 1..Len(s)
  BY <1>1, TextIs
<1>3. IsSepAt(s, Len(A) + 1) /\ Len(A) + 1 \in 1..Len(s)-1
  BY <1>1, <1>2 DEF IsSepAt
<1>4. ASSUME NEW j \in 1..Len(A), IsSepAt(s, j) PROVE FALSE
  <2>1. s[j] = "%" /\ s[j+1] = "%"
    BY <1>4 DEF IsSepAt
  <2>2. CASE j = Len(A)
    <3>1. A # <<>> /\ A[Len(A)] = "%"
      BY <1>1, <1>2, <2>1, <2>2, TextIs
    <3> QED BY <3>1 DEF SepFree, EndsIn
  <2>3. CASE j # Len(A)
    <3>1. j + 1 \in 1..Len(A)
      <4>1. Len(A) \in Nat /\ j \in 1..Len(A) /\ j # Len(A)
        BY <1>2, <2>3
      <4> HIDE DEF SepFree
      <4> QED BY ONLY <4>1
    <3>2. j \in DOMAIN A /\ j + 1 \in DOMAIN A /\ A[j] = "%" /\ A[j+1] = "%"
      BY <1>1, <1>2, <2>1, <3>1
    <3> QED BY <3>2 DEF SepFree, HasSep, IsSepAt
  <2> QED BY <2>2, <2>3
<1>5. HasSep(s) /\ FirstSep(s) = Len(A) + 1
  <2>1. \A j \in 1..(Len(A)+1)-1 : ~ IsSepAt(s, j)
    BY <1>2, <1>4
  <2> QED BY <1>1, <1>3, <2>1, FirstOnly
<1>6. Len(Before(s)) = Len(A)
  <2>1. Before(s) = SubSeq(s, 1, Len(A)) /\ Len(A) \in 0..Len(s)
    BY <1>1, <1>2, <1>5 DEF Before
  <2> QED BY <1>1, <2>1, PrefixIs
<1>7. /\ Before(s) \in Seq(Token) /\ After(s) \in Seq(Token)
      /\ s = Before(s) \o Sep \o After(s)
  BY <1>1, <1>5, SepSplit
<1>8. Before(s) = A /\ After(s) = B
  <2>1. Before(s) \o Sep \o After(s) = A \o Sep \o B
    BY <1>7 DEF s
  <2> QED BY <1>6, <1>7, <2>1, JoinUnique
<1> QED BY <1>5, <1>8 DEF s

\* A first part that a text has before some separator is not shorter than
\* that before the first one.
LEMMA FirstPart ==
    ASSUME NEW A \in Seq(Token), NEW B \in Seq(Token)
    PROVE  HasSep(A \o Sep \o B) /\ Len(Before(A \o Sep \o B)) <= Len(A)
<1> DEFINE s == A \o Sep \o B
<1>1. /\ s \in Seq(Token) /\ Len(s) = Len(A) + 2 + Len(B)
      /\ s[Len(A) + 1] = "%" /\ s[Len(A) + 2] = "%"
  BY JoinIs
<1> HIDE DEF s
<1>2. Len(A) \in Nat /\ Len(B) \in Nat /\ DOMAIN s = 1..Len(s)
  BY <1>1, TextIs
<1>3. IsSepAt(s, Len(A) + 1) /\ Len(A) + 1 \in 1..Len(s)-1
  BY <1>1, <1>2 DEF IsSepAt
<1>4. HasSep(s)
  <2>1. Len(A) + 1 \in DOMAIN s
    BY <1>1, <1>2
  <2> QED BY <1>3, <2>1 DEF HasSep
<1>5. FirstSep(s) \in 1..Len(s)-1 /\ \A j \in 1..FirstSep(s)-1 : ~ IsSepAt(s, j)
  BY <1>1, <1>4, FirstIs
<1>6. FirstSep(s) <= Len(A) + 1
  BY <1>1, <1>2, <1>3, <1>5
<1>7. Len(Before(s)) = FirstSep(s) - 1
  <2>1. FirstSep(s) - 1 \in 0..Len(s)
    BY <1>1, <1>2, <1>5
  <2> QED BY <1>1, <2>1, PrefixIs DEF Before
<1>8. Len(Before(s)) <= Len(A)
  BY <1>1, <1>2, <1>5, <1>6, <1>7
<1> QED BY <1>4, <1>8 DEF s

-----------------------------------------------------------------------------
(* Trimming and cutting                                                    *)

\* No blank, and no line break, at the end.
Tight(s) == ~ EndsIn(s, Blanks)

\* TrimRight keeps the text up to its last token that is no blank.
LEMMA TrimIs ==
    ASSUME NEW s \in Seq(Token)
    PROVE  /\ TrimRight(s) \in Seq(Token) /\ Len(TrimRight(s)) \in 0..Len(s)
           /\ \A i \in 1..Len(TrimRight(s)) : TrimRight(s)[i] = s[i]
           /\ \A i \in Len(TrimRight(s))+1..Len(s) : s[i] \in Blanks
           /\ Tight(TrimRight(s))
<1> DEFINE I == {i \in 1..Len(s) : s[i] \notin Blanks}
           n == IF I # {} THEN Max(I) ELSE 0
           u == TrimRight(s)
<1>1. Len(s) \in Nat
  BY TextIs
<1>2. u = SubSeq(s, 1, n)
  BY DEF TrimRight, SelectLastInSeq
<1>3. n \in 0..Len(s) /\ (n # 0 => s[n] \notin Blanks) /\ \A i \in n+1..Len(s) : s[i] \in Blanks
  <2>1. CASE I = {}
    BY <1>1, <2>1
  <2>2. CASE I # {}
    <3>1. I \in SUBSET 0..Len(s)
      BY <1>1
    <3> HIDE DEF I
    <3>2. \E m \in I : \A k \in I : k <= m
      BY <1>1, <2>2, <3>1, GreatestOf
    <3>3. \A k, m \in I : k <= m <=> m >= k
      BY <1>1, <3>1
    <3>4. Max(I) \in I /\ \A k \in I : k <= Max(I)
      BY <3>2, <3>3 DEF Max
    <3>5. n \in I /\ \A k \in I : k <= n
      BY <2>2, <3>4
    <3> HIDE DEF n
    <3>6. n \in 1..Len(s) /\ s[n] \notin Blanks
      BY <3>5 DEF I
    <3>7. ASSUME NEW i \in n+1..Len(s), s[i] \notin Blanks PROVE FALSE
      <4>1. i \in I /\ ~ (i <= n)
        BY <1>1, <3>6, <3>7 DEF I
      <4> QED BY <3>5, <4>1
    <3> QED BY <1>1, <3>6, <3>7
  <2> QED BY <2>1, <2>2
<1> HIDE DEF n, u
<1>4. u \in Seq(Token) /\ Len(u) = n /\ \A i \in 1..n : u[i] = s[i]
  BY <1>2, <1>3, PrefixIs
<1>5. Tight(u)
  <2>1. SUFFICES ASSUME u # <<>>, u[Len(u)] \in Blanks PROVE FALSE
    BY DEF Tight, EndsIn
  <2>2. n > 0
    BY <1>4, <2>1, TextIs
  <2>3. n # 0 /\ n \in 1..n
    BY <1>1, <1>3, <2>2
  <2> QED BY <1>3, <1>4, <2>1, <2>3
<1> QED BY <1>3, <1>4, <1>5 DEF u

\* There is one such text.
LEMMA TrimOnly ==
    ASSUME NEW s \in Seq(Token), NEW n \in 0..Len(s), n # 0 => s[n] \notin Blanks,
           \A i \in n+1..Len(s) : s[i] \in Blanks
    PROVE  Len(TrimRight(s)) = n
<1> DEFINE u == TrimRight(s)
           m == Len(u)
<1>1. Len(s) \in Nat
  BY TextIs
<1>2. /\ u \in Seq(Token) /\ m \in 0..Len(s) /\ \A i \in 1..m : u[i] = s[i]
      /\ \A i \in m+1..Len(s) : s[i] \in Blanks /\ Tight(u)
  BY TrimIs
<1>3. m # 0 => s[m] \notin Blanks
  <2> HIDE DEF u
  <2>1. ASSUME m # 0 PROVE u # <<>> /\ m \in 1..m
    BY <1>1, <1>2, <2>1, TextIs
  <2> QED BY <1>2, <2>1, TrimIs DEF Tight, EndsIn, u
<1> HIDE DEF u, m
<1>4. ~ (m < n) /\ ~ (n < m)
  BY <1>1, <1>2, <1>3
<1>5. m = n
  BY <1>1, <1>2, <1>4
<1> QED BY <1>5 DEF m, u

\* A text as long as what is trimmed of it is tight.
LEMMA TrimWhole ==
    ASSUME NEW s \in Seq(Token)
    PROVE  /\ Len(TrimRight(s)) = Len(s) => TrimRight(s) = s
           /\ Tight(s) => TrimRight(s) = s
           /\ TrimRight(s) = s => Tight(s)
<1>1. /\ TrimRight(s) \in Seq(Token) /\ Len(TrimRight(s)) \in 0..Len(s)
      /\ \A i \in 1..Len(TrimRight(s)) : TrimRight(s)[i] = s[i]
      /\ Tight(TrimRight(s))
  BY TrimIs
<1>2. Len(TrimRight(s)) = Len(s) => TrimRight(s) = s
  BY <1>1, SeqEqual
<1>3. ASSUME Tight(s) PROVE Len(TrimRight(s)) = Len(s)
  <2>1. Len(s) \in Nat /\ (Len(s) > 0 => s # <<>>)
    BY TextIs
  <2>2. Len(s) # 0 => s[Len(s)] \notin Blanks
    BY <1>3, <2>1 DEF Tight, EndsIn
  <2>3. Len(s) \in 0..Len(s) /\ \A i \in Len(s)+1..Len(s) : s[i] \in Blanks
    BY <2>1
  <2> QED BY <2>2, <2>3, TrimOnly
<1> QED BY <1>1, <1>2, <1>3

\* What is before a separator is not touched.
LEMMA TrimJoin ==
    ASSUME NEW A \in Seq(Token), NEW B \in Seq(Token)
    PROVE  TrimRight(A \o Sep \o B) = A \o Sep \o TrimRight(B)
<1> DEFINE s == A \o Sep \o B
           D == TrimRight(B)
           t == A \o Sep \o D
           n == Len(A) + 2 + Len(D)
<1>1. Len(A) \in Nat /\ Len(B) \in Nat
  BY TextIs
<1>2. /\ D \in Seq(Token) /\ Len(D) \in 0..Len(B) /\ \A i \in 1..Len(D) : D[i] = B[i]
      /\ \A i \in Len(D)+1..Len(B) : B[i] \in Blanks
  BY TrimIs
<1>3. Len(D) # 0 => B[Len(D)] \notin Blanks
  <2>1. Tight(D)
    BY TrimIs
  <2> HIDE DEF D
  <2>2. Len(D) # 0 => D # <<>> /\ Len(D) \in 1..Len(D)
    BY <1>1, <1>2, TextIs
  <2> QED BY <1>2, <2>1, <2>2 DEF Tight, EndsIn
<1> HIDE DEF D
<1>4. /\ s \in Seq(Token) /\ Len(s) = Len(A) + 2 + Len(B)
      /\ \A i \in 1..Len(A) : s[i] = A[i]
      /\ s[Len(A) + 1] = "%" /\ s[Len(A) + 2] = "%"
      /\ \A i \in 1..Len(B) : s[Len(A) + 2 + i] = B[i]
  BY JoinIs
<1>5. /\ t \in Seq(Token) /\ Len(t) = Len(A) + 2 + Len(D)
      /\ \A i \in 1..Len(A) : t[i] = A[i]
      /\ t[Len(A) + 1] = "%" /\ t[Len(A) + 2] = "%"
      /\ \A i \in 1..Len(D) : t[Len(A) + 2 + i] = D[i]
  <2>1. D \in Seq(Token)
    BY <1>2
  <2> QED BY <2>1, JoinIs
<1> HIDE DEF s, t
<1>6. Len(TrimRight(s)) = n
  <2>1. n \in 0..Len(s)
    BY <1>1, <1>2, <1>4
  <2>2. s[n] \notin Blanks
    <3>1. CASE Len(D) = 0
      <4>1. s[n] = "%"
        BY <1>1, <1>4, <3>1
      <4> QED BY <4>1 DEF Blanks
    <3>2. CASE Len(D) # 0
      <4>1. Len(D) \in 1..Len(B)
        BY <1>1, <1>2, <3>2
      <4>2. s[n] = B[Len(D)]
        BY <1>4, <4>1
      <4> QED BY <1>3, <3>2, <4>2
    <3> QED BY <3>1, <3>2
  <2>3. ASSUME NEW i \in n+1..Len(s) PROVE s[i] \in Blanks
    <3>1. i - (Len(A) + 2) \in Len(D)+1..Len(B) /\ i - (Len(A) + 2) \in 1..Len(B)
          /\ Len(A) + 2 + (i - (Len(A) + 2)) = i
      BY <1>1, <1>2, <1>4, <2>3
    <3> QED BY <1>2, <1>4, <3>1
  <2> HIDE DEF n
  <2> QED BY <1>4, <2>1, <2>2, <2>3, TrimOnly
<1>7. /\ TrimRight(s) \in Seq(Token) /\ \A i \in 1..n : TrimRight(s)[i] = s[i]
  BY <1>4, <1>6, TrimIs
<1>8. ASSUME NEW i \in 1..n PROVE TrimRight(s)[i] = t[i]
  <2>1. CASE i <= Len(A)
    BY <1>1, <1>2, <1>4, <1>5, <1>7, <2>1
  <2>2. CASE i = Len(A) + 1 \/ i = Len(A) + 2
    BY <1>1, <1>2, <1>4, <1>5, <1>7, <2>2
  <2>3. CASE i > Len(A) + 2
    <3> DEFINE j == i - (Len(A) + 2)
    <3>1. j \in 1..Len(D) /\ j \in 1..Len(B) /\ Len(A) + 2 + j = i
      BY <1>1, <1>2, <2>3
    <3> HIDE DEF j
    <3>2. s[Len(A) + 2 + j] = B[j] /\ t[Len(A) + 2 + j] = D[j] /\ D[j] = B[j]
      BY ONLY <1>2, <1>4, <1>5, <3>1
    <3>3. TrimRight(s)[i] = s[i]
      BY <1>7
    <3> QED BY ONLY <3>1, <3>2, <3>3
  <2> QED BY <1>1, <1>2, <2>1, <2>2, <2>3
<1>9. TrimRight(s) = t
  BY <1>5, <1>6, <1>7, <1>8, SeqEqual
<1> QED BY <1>9 DEF s, t, D

\* TrimLeft gives the text from its first token that is no blank.
LEMMA LeftIs ==
    ASSUME NEW s \in Seq(Token)
    PROVE  \E k \in 0..Len(s) :
              /\ TrimLeft(s) \in Seq(Token) /\ Len(TrimLeft(s)) = Len(s) - k
              /\ \A i \in 1..Len(s)-k : TrimLeft(s)[i] = s[k+i]
              /\ \A i \in 1..k : s[i] \in Blanks
              /\ k < Len(s) => s[k+1] \notin Blanks
<1> DEFINE I == {i \in 1..Len(s) : s[i] \notin Blanks}
           j == IF I # {} THEN Min(I) ELSE 0
           u == TrimLeft(s)
<1>1. Len(s) \in Nat
  BY TextIs
<1>2. u = IF j = 0 THEN <<>> ELSE SubSeq(s, j, Len(s))
  BY DEF TrimLeft, SelectInSeq
<1>3. CASE I = {}
  <2>1. u = <<>> /\ u \in Seq(Token) /\ Len(u) = 0
    BY <1>2, <1>3
  <2>2. \A i \in 1..Len(s) : s[i] \in Blanks
    BY <1>3
  <2> DEFINE k == Len(s)
  <2>3. /\ k \in 0..Len(s) /\ Len(u) = Len(s) - k /\ ~ (k < Len(s))
        /\ \A i \in 1..Len(s)-k : FALSE
    BY <1>1, <2>1
  <2> QED BY <2>1, <2>2, <2>3
<1>4. CASE I # {}
  <2>1. I \in SUBSET Nat
    BY <1>1
  <2> HIDE DEF I
  <2>2. \E m \in I : \A k \in I : m <= k
    BY <1>4, <2>1, LeastOf
  <2>3. j \in I /\ \A k \in I : j <= k
    BY <1>4, <2>2 DEF Min
  <2> HIDE DEF j
  <2>4. j \in 1..Len(s) /\ s[j] \notin Blanks /\ j - 1 \in 0..Len(s)
    BY <1>1, <2>3 DEF I
  <2>5. ASSUME NEW i \in 1..j-1, s[i] \notin Blanks PROVE FALSE
    <3>1. i \in I /\ ~ (j <= i)
      BY <1>1, <2>4, <2>5 DEF I
    <3> QED BY <2>3, <3>1
  <2>6. u = SubSeq(s, j, Len(s))
    BY <1>2, <2>4
  <2> HIDE DEF u
  <2>7. /\ u \in Seq(Token) /\ Len(u) = Len(s) + 1 - j
        /\ \A i \in 1..Len(s)+1-j : u[i] = s[j-1+i]
    <3>1. j \in 1..Len(s)+1
      BY <1>1, <2>4
    <3> QED BY <2>6, <3>1, SuffixIs
  <2> DEFINE k == j - 1
  <2>8. /\ k \in 0..Len(s) /\ Len(u) = Len(s) - k
        /\ \A i \in 1..Len(s)-k : u[i] = s[k+i]
        /\ \A i \in 1..k : s[i] \in Blanks
        /\ s[k+1] \notin Blanks
    BY <1>1, <2>4, <2>5, <2>7
  <2> QED BY <2>7, <2>8 DEF u
<1> QED BY <1>3, <1>4

\* Cut keeps at most FieldLen tokens, and a text no longer than that.
LEMMA CutIs ==
    ASSUME NEW s \in Seq(Token)
    PROVE  /\ Cut(s) \in Seq(Token) /\ Len(Cut(s)) \in 0..Len(s) /\ Len(Cut(s)) <= FieldLen
           /\ \A i \in 1..Len(Cut(s)) : Cut(s)[i] = s[i]
           /\ Len(s) <= FieldLen => Cut(s) = s
           /\ Len(Cut(s)) = Len(s) => Cut(s) = s
<1> DEFINE n == Min({FieldLen, Len(s)})
<1>1. Len(s) \in Nat /\ FieldLen \in Nat
  BY TextIs, FieldLenAssumption
<1>2. n = IF FieldLen <= Len(s) THEN FieldLen ELSE Len(s)
  BY <1>1 DEF Min
<1>3. Cut(s) = SubSeq(s, 1, n)
  BY DEF Cut
<1> HIDE DEF n
<1>4. n \in 0..Len(s) /\ n <= FieldLen /\ (Len(s) <= FieldLen => n = Len(s))
  BY <1>1, <1>2
<1>5. Cut(s) \in Seq(Token) /\ Len(Cut(s)) = n /\ \A i \in 1..n : Cut(s)[i] = s[i]
  BY <1>3, <1>4, PrefixIs
<1>6. n = Len(s) => Cut(s) = s
  BY <1>5, SeqEqual
<1> QED BY <1>4, <1>5, <1>6

-----------------------------------------------------------------------------
(* Words, fields and lines                                                 *)

\* A text of one token.
LEMMA WordIs ==
    ASSUME NEW e \in Token
    PROVE  /\ <<e>> \in Seq(Token) /\ Len(<<e>>) = 1 /\ <<e>>[1] = e /\ <<e>> # <<>>
           /\ ~ HasSep(<<e>>)
           /\ e # "%" => SepFree(<<e>>)
           /\ e \notin Blanks => Tight(<<e>>) /\ TrimRight(<<e>>) = <<e>>
<1>1. <<e>> \in Seq(Token) /\ Len(<<e>>) = 1 /\ <<e>>[1] = e /\ <<e>> # <<>> /\ DOMAIN <<e>> = {1}
  OBVIOUS
<1>2. ~ HasSep(<<e>>)
  <2>1. ASSUME NEW i \in {1}, i + 1 \in {1} PROVE FALSE
    BY <2>1
  <2> QED BY <1>1, <2>1 DEF HasSep, IsSepAt
<1>3. e # "%" => SepFree(<<e>>)
  BY <1>1, <1>2 DEF SepFree, EndsIn
<1>4. e \notin Blanks => Tight(<<e>>)
  BY <1>1 DEF Tight, EndsIn
<1> QED BY <1>1, <1>2, <1>3, <1>4, TrimWhole

\* The words that stand in a line.
LEMMA WordsAre ==
    \A e \in {"TS", "HH", "mon", "repeat", "x"} :
       /\ e \in Token /\ e # "%" /\ e \notin Blanks /\ e # "\n"
BY DEF Token, Blanks

\* What is after a separator may be read first.
LEMMA Regroup ==
    ASSUME NEW u \in Seq(Token), NEW t \in Seq(Token), NEW Y \in Seq(Token)
    PROVE  u \o t \o Sep \o Y = u \o (t \o Sep \o Y)
<1>1. Sep \in Seq(Token)
  BY SepIs
<1>2. (u \o t) \in Seq(Token) /\ (Sep \o Y) \in Seq(Token)
  BY <1>1, ConcatProperties
<1> DEFINE v == u \o t
           Z == Sep \o Y
<1>3. (v \o Sep) \o Y = v \o (Sep \o Y)
  <2>1. v \in Seq(Token) /\ Sep \in Seq(Token) /\ Y \in Seq(Token)
    BY <1>1, <1>2
  <2> HIDE DEF v
  <2> QED BY ONLY <2>1, GroupIs, ZenonT(60)
<1>4. (u \o t) \o Z = u \o (t \o Z)
  <2>1. u \in Seq(Token) /\ t \in Seq(Token) /\ Z \in Seq(Token)
    BY <1>2
  <2> HIDE DEF Z
  <2> QED BY ONLY <2>1, GroupIs, ZenonT(60)
<1>5. (t \o Sep) \o Y = t \o (Sep \o Y)
  <2>1. t \in Seq(Token) /\ Sep \in Seq(Token) /\ Y \in Seq(Token)
    BY <1>1
  <2> QED BY ONLY <2>1, GroupIs, ZenonT(60)
<1> QED BY <1>3, <1>4, <1>5

\* A field no shorter than the text it was trimmed and cut from is that text.
LEMMA KeptWhole ==
    ASSUME NEW A \in Seq(Token), NEW t \in Seq(Token), Len(A) <= Len(t),
           t = Cut(TrimRight(A))
    PROVE  A = t /\ Tight(A)
<1> DEFINE u == TrimRight(A)
<1>1. u \in Seq(Token) /\ Len(u) \in 0..Len(A) /\ (Len(u) = Len(A) => u = A)
      /\ (u = A => Tight(A))
  BY TrimIs, TrimWhole
<1> HIDE DEF u
<1>2. Len(Cut(u)) \in 0..Len(u) /\ (Len(Cut(u)) = Len(u) => Cut(u) = u)
  BY <1>1, CutIs
<1>3. Len(A) \in Nat /\ Len(t) \in Nat /\ t = Cut(u)
  BY TextIs DEF u
<1>4. Len(u) = Len(A) /\ Len(Cut(u)) = Len(u)
  BY <1>1, <1>2, <1>3
<1> QED BY <1>1, <1>2, <1>3, <1>4

\* Trimming and cutting shorten a text or leave it alone.
LEMMA KeptOf ==
    ASSUME NEW A \in Seq(Token)
    PROVE  /\ Cut(TrimRight(A)) \in Seq(Token) /\ Len(Cut(TrimRight(A))) \in 0..Len(A)
           /\ Len(Cut(TrimRight(A))) <= FieldLen
           /\ Len(Cut(TrimRight(A))) = Len(A) => Cut(TrimRight(A)) = A
           /\ Tight(A) /\ Len(A) <= FieldLen => Cut(TrimRight(A)) = A
           /\ \A i \in 1..Len(Cut(TrimRight(A))) : Cut(TrimRight(A))[i] = A[i]
<1> DEFINE u == TrimRight(A)
           v == Cut(u)
<1>1. /\ u \in Seq(Token) /\ Len(u) \in 0..Len(A) /\ (Len(u) = Len(A) => u = A)
      /\ (Tight(A) => u = A) /\ \A i \in 1..Len(u) : u[i] = A[i]
  BY TrimIs, TrimWhole
<1> HIDE DEF u
<1>2. /\ v \in Seq(Token) /\ Len(v) \in 0..Len(u) /\ (Len(v) = Len(u) => v = u) /\ Len(v) <= FieldLen
      /\ (Len(u) <= FieldLen => v = u) /\ \A i \in 1..Len(v) : v[i] = u[i]
  BY <1>1, CutIs
<1>3. Len(A) \in Nat
  BY TextIs
<1> HIDE DEF v
<1>4. /\ Len(v) \in 0..Len(A) /\ (Len(v) = Len(A) => v = A)
      /\ (Tight(A) /\ Len(A) <= FieldLen => v = A)
      /\ \A i \in 1..Len(v) : v[i] = A[i]
  BY <1>1, <1>2, <1>3
<1> QED BY <1>2, <1>4 DEF u, v

\* The row that is read from the fields after the stamp.
ReadAfter(rest) ==
    <<TextRow(Cut(TrimRight(Before(rest))), Cut(TrimRight(Body(After(rest)))),
              Repeats(After(rest)))>>

\* What a triplet that begins with a stamp is read as.
LEMMA TripletIs ==
    ASSUME NEW h \in {"TS", "HH"}, NEW t \in Seq(Token), NEW X \in Seq(Token)
    PROVE  ParseTriplet(<<h>> \o Sep \o (t \o Sep \o X)) = ReadAfter(t \o Sep \o TrimRight(X))
<1> DEFINE rest == t \o Sep \o TrimRight(X)
           Y == t \o Sep \o X
           w == <<h>>
           s == w \o Sep \o Y
           buf == TrimRight(s)
<1>1. TrimRight(X) \in Seq(Token)
  BY TrimIs
<1>2. rest \in Seq(Token) /\ HasSep(rest)
  <2> DEFINE D == TrimRight(X)
  <2>1. D \in Seq(Token)
    BY <1>1
  <2> HIDE DEF D
  <2>2. t \o Sep \o D \in Seq(Token)
    BY <2>1, JoinIs
  <2>3. HasSep(t \o Sep \o D)
    BY <2>1, FirstPart
  <2> QED BY <2>2, <2>3 DEF D
<1>3. Y \in Seq(Token) /\ TrimRight(Y) = rest
  BY JoinIs, TrimJoin
<1>4. /\ w \in Seq(Token) /\ SepFree(w) /\ TrimRight(w) = w
      /\ w[1] = h /\ w # <<>> /\ Len(w) = 1
  BY WordsAre, WordIs
<1> HIDE DEF w, Y, rest
<1>5. buf = w \o Sep \o rest
  BY <1>3, <1>4, TrimJoin
<1>6. HasSep(buf) /\ Before(buf) = w /\ After(buf) = rest
  <2>1. /\ HasSep(w \o Sep \o rest)
        /\ Before(w \o Sep \o rest) = w /\ After(w \o Sep \o rest) = rest
    BY <1>2, <1>4, SepJoin
  <2> HIDE DEF buf
  <2> QED BY <1>5, <2>1
<1>7. IsStamp(TrimRight(Before(buf)))
  <2> HIDE DEF buf
  <2>1. TrimRight(Before(buf)) = w
    BY <1>4, <1>6
  <2>2. CASE h = "HH"
    BY <1>4, <2>1, <2>2 DEF IsStamp, StartsWith
  <2>3. CASE h = "TS"
    <3>1. PICK k \in 0..Len(w) :
              /\ TrimLeft(w) \in Seq(Token) /\ Len(TrimLeft(w)) = Len(w) - k
              /\ \A i \in 1..Len(w)-k : TrimLeft(w)[i] = w[k+i]
              /\ \A i \in 1..k : w[i] \in Blanks
      BY <1>4, LeftIs
    <3>2. h \notin Blanks
      BY WordsAre
    <3>3. k = 0
      BY <1>4, <3>1, <3>2
    <3>4. TrimLeft(w) # <<>> /\ TrimLeft(w)[1] = h
      BY <1>4, <3>1, <3>3, TextIs
    <3> QED BY <2>1, <2>3, <3>4 DEF IsStamp, StartsWith
  <2> QED BY <2>2, <2>3
<1>8. ParseTriplet(s) = ReadAfter(rest)
  <2>1. buf = TrimRight(s)
    BY DEF buf
  <2> HIDE DEF buf, s
  <2> QED BY <1>2, <1>6, <1>7, <2>1 DEF ParseTriplet, ReadAfter
<1> QED BY <1>8 DEF s, w, Y, rest

-----------------------------------------------------------------------------
(* A row and its line                                                      *)

Field    == {f \in Seq(Token) : Len(f) <= FieldLen}
FieldRow == [task : Field, comment : Field, does_repeat : BOOLEAN]

\* What stands in a line after the task's separator.
LastField(r) == IF r.does_repeat THEN r.comment \o Sep \o <<"repeat">> ELSE r.comment

OneLine(r) == ~ Contains(r.task, "\n") /\ ~ Contains(r.comment, "\n")

\* A row read is a row if its fields are.
LEMMA RowEqual ==
    ASSUME NEW r \in FieldRow, NEW a, NEW b, NEW c
    PROVE  <<TextRow(a, b, c)>> = <<r>> <=> a = r.task /\ b = r.comment /\ c = r.does_repeat
<1>1. r = TextRow(r.task, r.comment, r.does_repeat)
  BY DEF FieldRow, TextRow
<1>2. TextRow(a, b, c) = TextRow(r.task, r.comment, r.does_repeat)
         <=> a = r.task /\ b = r.comment /\ c = r.does_repeat
  BY DEF TextRow
<1> QED BY <1>1, <1>2

\* The fields of a row.
LEMMA FieldsAre ==
    ASSUME NEW r \in FieldRow
    PROVE  /\ r.task \in Seq(Token) /\ r.comment \in Seq(Token) /\ r.does_repeat \in BOOLEAN
           /\ Len(r.task) <= FieldLen /\ Len(r.comment) <= FieldLen
BY DEF FieldRow, Field

\* A text without a line break is tight if it does not end in a space.
LEMMA TightIs ==
    ASSUME NEW s \in Seq(Token), ~ Contains(s, "\n")
    PROVE  Tight(s) <=> ~ EndsIn(s, {" "})
<1>1. Len(s) \in Nat /\ (s # <<>> => Len(s) > 0)
  BY TextIs
<1>2. s # <<>> => Len(s) \in 1..Len(s) /\ s[Len(s)] # "\n"
  BY <1>1 DEF Contains
<1> QED BY <1>2 DEF Tight, EndsIn, Blanks

\* What Plain asks of a row on one line.
LEMMA PlainIs ==
    ASSUME NEW r \in FieldRow, OneLine(r)
    PROVE  Plain(r) <=> /\ SepFree(r.task) /\ Tight(r.task) /\ Tight(r.comment)
                        /\ IF r.does_repeat THEN SepFree(r.comment) ELSE ~ Repeats(r.comment)
<1>1. /\ Tight(r.task) <=> ~ EndsIn(r.task, {" "})
      /\ Tight(r.comment) <=> ~ EndsIn(r.comment, {" "})
  BY FieldsAre, TightIs DEF OneLine
<1>2. EndsIn(r.task, {"%", " "}) <=> EndsIn(r.task, {"%"}) \/ EndsIn(r.task, {" "})
  BY DEF EndsIn
<1> QED BY <1>1, <1>2 DEF Plain, SepFree, OneLine

\* The repetition is found at the end of a text.
LEMMA RepeatsIs ==
    ASSUME NEW c \in Seq(Token), SepFree(c)
    PROVE  Repeats(c \o Sep \o <<"repeat">>) /\ Body(c \o Sep \o <<"repeat">>) = c
<1> DEFINE w == <<"repeat">>
           X == c \o Sep \o w
<1>1. w \in Seq(Token) /\ TrimRight(w) = w
  BY WordsAre, WordIs
<1> HIDE DEF w
<1>2. HasSep(X) /\ Before(X) = c /\ After(X) = w
  <2>1. w \in Seq(Token)
    BY <1>1
  <2> QED BY <2>1, SepJoin
<1> HIDE DEF X
<1>3. Repeats(X) /\ Body(X) = c
  BY <1>1, <1>2 DEF Repeats, Body, w
<1> QED BY <1>3 DEF X, w

\* The end of a line, trimmed.
LEMMA LastIs ==
    ASSUME NEW r \in FieldRow
    PROVE  /\ LastField(r) \in Seq(Token)
           /\ TrimRight(LastField(r)) = IF r.does_repeat THEN LastField(r) ELSE TrimRight(r.comment)
<1>1. <<"repeat">> \in Seq(Token) /\ TrimRight(<<"repeat">>) = <<"repeat">>
  BY WordsAre, WordIs
<1>2. CASE r.does_repeat
  <2> DEFINE w == <<"repeat">>
             c == r.comment
  <2>1. w \in Seq(Token) /\ TrimRight(w) = w /\ c \in Seq(Token)
    BY <1>1, FieldsAre
  <2> HIDE DEF w, c
  <2>2. c \o Sep \o w \in Seq(Token) /\ TrimRight(c \o Sep \o w) = c \o Sep \o w
    BY <2>1, JoinIs, TrimJoin
  <2>3. LastField(r) = c \o Sep \o w
    BY <1>2 DEF LastField, c, w
  <2> QED BY <1>2, <2>2, <2>3
<1>3. CASE ~ r.does_repeat
  BY <1>3, FieldsAre DEF LastField
<1> QED BY <1>2, <1>3, FieldsAre

\* A plain row is read back from its line.
LEMMA PlainGives ==
    ASSUME NEW r \in FieldRow, Plain(r), NEW h \in {"TS", "HH"}
    PROVE  ParseTriplet(<<h>> \o Sep \o (r.task \o Sep \o LastField(r))) = <<r>>
<1> DEFINE t == r.task
           c == r.comment
           X == LastField(r)
           D == TrimRight(X)
<1>1. OneLine(r)
  BY DEF Plain, OneLine
<1>2. /\ SepFree(t) /\ Tight(t) /\ Tight(c)
      /\ IF r.does_repeat THEN SepFree(c) ELSE ~ Repeats(c)
  BY <1>1, PlainIs
<1>3. /\ t \in Seq(Token) /\ c \in Seq(Token) /\ Len(t) <= FieldLen /\ Len(c) <= FieldLen
      /\ r.does_repeat \in BOOLEAN
  BY FieldsAre
<1>4. /\ X \in Seq(Token) /\ D = X
      /\ Repeats(X) = r.does_repeat /\ Body(X) = c
  <2>1. CASE r.does_repeat
    <3>1. X = c \o Sep \o <<"repeat">> /\ D = X /\ X \in Seq(Token)
      BY <2>1, LastIs DEF LastField
    <3>2. Repeats(c \o Sep \o <<"repeat">>) /\ Body(c \o Sep \o <<"repeat">>) = c
      BY <1>2, <1>3, <2>1, RepeatsIs
    <3>3. Repeats(X) \in BOOLEAN
      BY DEF Repeats
    <3> QED BY <2>1, <3>1, <3>2, <3>3
  <2>2. CASE ~ r.does_repeat
    <3>1. X = c /\ D = TrimRight(c) /\ X \in Seq(Token)
      BY <2>2, LastIs DEF LastField
    <3>2. TrimRight(c) = c
      BY <1>2, <1>3, TrimWhole
    <3>3. ~ Repeats(X) /\ Body(X) = c
      BY <1>2, <2>2, <3>1 DEF Body
    <3>4. Repeats(X) \in BOOLEAN
      BY DEF Repeats
    <3> QED BY <1>3, <2>2, <3>1, <3>2, <3>3, <3>4
  <2> QED BY <1>3, <2>1, <2>2
<1> HIDE DEF t, c, X
<1>5. Before(t \o Sep \o X) = t /\ After(t \o Sep \o X) = X
  BY <1>2, <1>3, <1>4, SepJoin
<1>6. ParseTriplet(<<h>> \o Sep \o (t \o Sep \o X)) = ReadAfter(t \o Sep \o X)
  <2>1. ParseTriplet(<<h>> \o Sep \o (t \o Sep \o X)) = ReadAfter(t \o Sep \o TrimRight(X))
    BY <1>3, <1>4, TripletIs
  <2> QED BY <1>4, <2>1
<1>7. Cut(TrimRight(t)) = t /\ Cut(TrimRight(c)) = c
  BY <1>2, <1>3, KeptOf
<1>8. <<TextRow(t, c, r.does_repeat)>> = <<r>>
  BY RowEqual DEF t, c
<1> QED BY <1>4, <1>5, <1>6, <1>7, <1>8 DEF t, X, ReadAfter

\* A row that is read back from its line is plain.
LEMMA GivesPlain ==
    ASSUME NEW r \in FieldRow, OneLine(r),
           ParseTriplet(<<"TS">> \o Sep \o (r.task \o Sep \o LastField(r))) = <<r>>
    PROVE  Plain(r)
<1> DEFINE t == r.task
           c == r.comment
           X == LastField(r)
           D == TrimRight(X)
           rest == t \o Sep \o D
           A == Before(rest)
           B == After(rest)
<1>1. /\ t \in Seq(Token) /\ c \in Seq(Token) /\ X \in Seq(Token) /\ D \in Seq(Token)
      /\ D = IF r.does_repeat THEN X ELSE TrimRight(c)
  BY FieldsAre, LastIs, TrimIs
<1>2. X = IF r.does_repeat THEN c \o Sep \o <<"repeat">> ELSE c
  BY DEF LastField
<1>3. ParseTriplet(<<"TS">> \o Sep \o (t \o Sep \o X)) = <<r>>
  OBVIOUS
<1> HIDE DEF t, c, X
<1>4. <<TextRow(Cut(TrimRight(A)), Cut(TrimRight(Body(B))), Repeats(B))>> = <<r>>
  <2>1. ParseTriplet(<<"TS">> \o Sep \o (t \o Sep \o X)) = ReadAfter(t \o Sep \o TrimRight(X))
    BY <1>1, TripletIs
  <2> QED BY <1>3, <2>1 DEF ReadAfter
<1> HIDE DEF D
<1>5. t = Cut(TrimRight(A)) /\ c = Cut(TrimRight(Body(B))) /\ r.does_repeat = Repeats(B)
  <2> HIDE DEF A, B
  <2> QED BY <1>4, RowEqual DEF t, c
<1>6. A \in Seq(Token) /\ Len(A) <= Len(t) /\ B \in Seq(Token) /\ SepFree(A)
      /\ rest = A \o Sep \o B
  <2>1. rest \in Seq(Token)
    BY <1>1, JoinIs
  <2>2. HasSep(rest) /\ Len(A) <= Len(t)
    BY <1>1, FirstPart
  <2> HIDE DEF rest
  <2> QED BY <2>1, <2>2, SepSplit
<1> HIDE DEF A, B
<1>7. A = t /\ SepFree(t) /\ Tight(t)
  BY <1>1, <1>5, <1>6, KeptWhole
<1>8. B = D
  <2>1. t \o Sep \o D = A \o Sep \o B /\ Len(t) = Len(A)
    BY <1>6, <1>7
  <2> QED BY <1>1, <1>6, <2>1, JoinUnique
<1>9. Tight(c) /\ IF r.does_repeat THEN SepFree(c) ELSE ~ Repeats(c)
  <2>1. CASE r.does_repeat
    <3> DEFINE w == <<"repeat">>
               P == Before(X)
    <3>1. w \in Seq(Token)
      BY WordsAre, WordIs
    <3>2. B = X /\ X = c \o Sep \o w /\ Repeats(X) /\ c = Cut(TrimRight(P))
      BY <1>1, <1>2, <1>5, <1>8, <2>1 DEF Body
    <3> HIDE DEF w
    <3>3. HasSep(X) /\ Len(P) <= Len(c)
      <4>1. HasSep(c \o Sep \o w) /\ Len(Before(c \o Sep \o w)) <= Len(c)
        BY <1>1, <3>1, FirstPart
      <4> QED BY <3>2, <4>1 DEF P
    <3>4. P \in Seq(Token) /\ SepFree(P)
      BY <1>1, <3>3, SepSplit
    <3> HIDE DEF P
    <3>5. P = c /\ Tight(c)
      BY <1>1, <3>2, <3>3, <3>4, KeptWhole
    <3> QED BY <2>1, <3>4, <3>5
  <2>2. CASE ~ r.does_repeat
    <3>1. B = TrimRight(c) /\ ~ Repeats(B) /\ c = Cut(TrimRight(B))
      BY <1>1, <1>5, <1>8, <2>2 DEF Body
    <3>2. Len(B) <= Len(c) /\ (Len(B) = Len(c) => B = c)
      BY <1>1, <3>1, TrimIs, TrimWhole, TextIs
    <3>3. B = c /\ Tight(c)
      BY <1>1, <1>6, <3>1, <3>2, KeptWhole
    <3> QED BY <2>2, <3>1, <3>3
  <2> QED BY <2>1, <2>2, FieldsAre
<1> QED BY <1>7, <1>9, PlainIs DEF t, c

-----------------------------------------------------------------------------
(* The file written and read back                                          *)

NoBreak(s) == \A i \in 1..Len(s) : s[i] # "\n"

\* A row that is on one line.
LineRow == {r \in FieldRow : OneLine(r)}

\* A line without its end.
Text(r) == <<"TS">> \o Sep \o (r.task \o Sep \o LastField(r))

\* A text of two parts has a break if one of them has.
LEMMA BreakJoin ==
    ASSUME NEW A \in Seq(Token), NEW B \in Seq(Token)
    PROVE  NoBreak(A \o Sep \o B) <=> NoBreak(A) /\ NoBreak(B)
<1> DEFINE s == A \o Sep \o B
<1>1. /\ s \in Seq(Token) /\ Len(s) = Len(A) + 2 + Len(B)
      /\ \A i \in 1..Len(A) : s[i] = A[i]
      /\ s[Len(A) + 1] = "%" /\ s[Len(A) + 2] = "%"
      /\ \A i \in 1..Len(B) : s[Len(A) + 2 + i] = B[i]
  BY JoinIs
<1>2. Len(A) \in Nat /\ Len(B) \in Nat
  BY TextIs
<1> HIDE DEF s
<1>3. ASSUME NoBreak(s) PROVE NoBreak(A) /\ NoBreak(B)
  <2>1. \A i \in 1..Len(A) : i \in 1..Len(s)
    BY <1>1, <1>2
  <2>2. \A i \in 1..Len(B) : Len(A) + 2 + i \in 1..Len(s)
    BY <1>1, <1>2
  <2> QED BY <1>1, <1>3, <2>1, <2>2 DEF NoBreak
<1>4. ASSUME NoBreak(A), NoBreak(B), NEW i \in 1..Len(s) PROVE s[i] # "\n"
  <2>1. CASE i <= Len(A)
    <3>1. i \in 1..Len(A)
      BY <1>1, <1>2, <2>1
    <3> QED BY <1>1, <1>4, <3>1 DEF NoBreak
  <2>2. CASE i = Len(A) + 1 \/ i = Len(A) + 2
    BY <1>1, <2>2
  <2>3. CASE i > Len(A) + 2
    <3>1. i - (Len(A) + 2) \in 1..Len(B) /\ Len(A) + 2 + (i - (Len(A) + 2)) = i
      BY <1>1, <1>2, <2>3
    <3> QED BY <1>1, <1>4, <3>1 DEF NoBreak
  <2> QED BY <1>1, <1>2, <2>1, <2>2, <2>3
<1>5. NoBreak(A) /\ NoBreak(B) => NoBreak(s)
  BY <1>4 DEF NoBreak
<1> QED BY <1>3, <1>5 DEF s

\* What is kept of a text without breaks has none.
LEMMA BreakKept ==
    ASSUME NEW s \in Seq(Token), NoBreak(s)
    PROVE  NoBreak(Cut(TrimRight(s))) /\ NoBreak(TrimRight(s)) /\ ~ Contains(s, "\n")
<1>1. Len(s) \in Nat
  BY TextIs
<1>2. /\ Len(Cut(TrimRight(s))) \in 0..Len(s)
      /\ \A i \in 1..Len(Cut(TrimRight(s))) : Cut(TrimRight(s))[i] = s[i]
  BY KeptOf
<1>3. /\ Len(TrimRight(s)) \in 0..Len(s)
      /\ \A i \in 1..Len(TrimRight(s)) : TrimRight(s)[i] = s[i]
  BY TrimIs
<1>4. NoBreak(Cut(TrimRight(s)))
  BY <1>1, <1>2 DEF NoBreak
<1>5. NoBreak(TrimRight(s))
  BY <1>1, <1>3 DEF NoBreak
<1> QED BY <1>4, <1>5 DEF NoBreak, Contains

\* Reading a triplet gives rows whose fields fit, on one line if it is one.
LEMMA TripletType ==
    ASSUME NEW s \in Seq(Token)
    PROVE  ParseTriplet(s) \in Seq(FieldRow) /\ (NoBreak(s) => ParseTriplet(s) \in Seq(LineRow))
<1> DEFINE buf == TrimRight(s)
           rest == After(buf)
           A == Before(rest)
           B == After(rest)
           v == TextRow(Cut(TrimRight(A)), Cut(TrimRight(Body(B))), Repeats(B))
<1>1. CASE ~ (HasSep(buf) /\ HasSep(rest) /\ IsStamp(TrimRight(Before(buf))))
  BY <1>1 DEF ParseTriplet, Unreadable
<1>2. CASE HasSep(buf) /\ HasSep(rest) /\ IsStamp(TrimRight(Before(buf)))
  <2>1. ParseTriplet(s) = <<v>>
    BY <1>2 DEF ParseTriplet
  <2>2. buf \in Seq(Token)
    BY TrimIs
  <2>3. NoBreak(s) => NoBreak(buf)
    BY BreakKept
  <2> HIDE DEF buf
  <2>4. Before(buf) \in Seq(Token) /\ rest \in Seq(Token) /\ buf = Before(buf) \o Sep \o rest
    BY <1>2, <2>2, SepSplit
  <2>5. NoBreak(s) => NoBreak(rest)
    <3> HIDE DEF rest
    <3>1. NoBreak(Before(buf) \o Sep \o rest) => NoBreak(rest)
      BY <2>4, BreakJoin
    <3> QED BY <2>3, <2>4, <3>1
  <2> HIDE DEF rest
  <2>6. A \in Seq(Token) /\ B \in Seq(Token) /\ rest = A \o Sep \o B
    BY <1>2, <2>4, SepSplit
  <2> HIDE DEF A, B
  <2>7. NoBreak(s) => NoBreak(A) /\ NoBreak(B)
    <3>1. NoBreak(A \o Sep \o B) => NoBreak(A) /\ NoBreak(B)
      BY <2>6, BreakJoin
    <3> QED BY <2>5, <2>6, <3>1
  <2>8. Body(B) \in Seq(Token) /\ (NoBreak(s) => NoBreak(Body(B)))
    <3>1. CASE Repeats(B)
      <4> DEFINE P == Before(B)
                 Q == After(B)
      <4>1. P \in Seq(Token) /\ Q \in Seq(Token) /\ B = P \o Sep \o Q
        BY <2>6, <3>1, SepSplit DEF Repeats
      <4>2. Body(B) = P
        BY <3>1 DEF Body
      <4> HIDE DEF P, Q
      <4>3. NoBreak(P \o Sep \o Q) => NoBreak(P)
        BY <4>1, BreakJoin
      <4> QED BY <2>7, <4>1, <4>2, <4>3
    <3>2. CASE ~ Repeats(B)
      BY <2>6, <2>7, <3>2 DEF Body
    <3> QED BY <3>1, <3>2
  <2> DEFINE C == Body(B)
             a == Cut(TrimRight(A))
             c == Cut(TrimRight(C))
  <2>9. a \in Seq(Token) /\ Len(a) <= FieldLen /\ (NoBreak(A) => NoBreak(a))
    BY <2>6, KeptOf, BreakKept
  <2>10. C \in Seq(Token) /\ (NoBreak(s) => NoBreak(C))
    BY <2>8
  <2> HIDE DEF C
  <2>11. c \in Seq(Token) /\ Len(c) <= FieldLen /\ (NoBreak(C) => NoBreak(c))
    BY <2>10, KeptOf, BreakKept
  <2> HIDE DEF a, c
  <2>12. v = TextRow(a, c, Repeats(B)) /\ Repeats(B) \in BOOLEAN
    BY DEF a, c, C, Repeats
  <2> HIDE DEF v
  <2>13. v \in FieldRow /\ v.task = a /\ v.comment = c
    BY <2>9, <2>11, <2>12 DEF TextRow, FieldRow, Field
  <2>14. NoBreak(s) => OneLine(v)
    <3>1. NoBreak(a) => ~ Contains(a, "\n")
      BY DEF NoBreak, Contains
    <3>2. NoBreak(c) => ~ Contains(c, "\n")
      BY DEF NoBreak, Contains
    <3> QED BY <2>7, <2>9, <2>10, <2>11, <2>13, <3>1, <3>2 DEF OneLine
  <2> QED BY <2>1, <2>13, <2>14 DEF LineRow
<1> QED BY <1>1, <1>2

\* The line of a row is its text and an end.
LEMMA LineIs ==
    ASSUME NEW r \in FieldRow
    PROVE  /\ Text(r) \in Seq(Token) /\ Line(r) = Text(r) \o <<"\n">>
           /\ Len(Text(r)) = 5 + Len(r.task) + Len(LastField(r))
           /\ OneLine(r) => NoBreak(Text(r))
<1> DEFINE w == <<"TS">>
           x == <<"repeat">>
           t == r.task
           c == r.comment
           X == LastField(r)
           K == IF r.does_repeat THEN Sep \o x ELSE <<>>
           u == w \o Sep
           v == u \o t \o Sep
           Y == t \o Sep \o X
<1>1. /\ w \in Seq(Token) /\ x \in Seq(Token) /\ t \in Seq(Token) /\ c \in Seq(Token)
      /\ X \in Seq(Token) /\ Sep \in Seq(Token) /\ Len(w) = 1 /\ w[1] = "TS" /\ x[1] = "repeat"
      /\ Len(x) = 1 /\ r.does_repeat \in BOOLEAN
  BY WordsAre, WordIs, FieldsAre, LastIs, SepIs
<1>2. Line(r) = ((v \o c) \o K) \o <<"\n">> /\ Text(r) = w \o Sep \o Y
  BY DEF Line, Text
<1>3. X = IF r.does_repeat THEN c \o Sep \o x ELSE c
  BY DEF LastField
<1> HIDE DEF w, x, t, c, X
<1>4. u \in Seq(Token) /\ (Sep \o x) \in Seq(Token)
  BY <1>1, ConcatProperties
<1>5. v \in Seq(Token)
  <2>1. (u \o t) \in Seq(Token)
    <3>1. u \in Seq(Token)
      BY <1>4
    <3> HIDE DEF u
    <3> QED BY <1>1, <3>1, ConcatProperties
  <2> QED BY <1>1, <2>1, ConcatProperties
<1>6. K \in Seq(Token) /\ c \o K = X
  <2>1. CASE r.does_repeat
    <3>1. c \in Seq(Token) /\ Sep \in Seq(Token) /\ x \in Seq(Token)
      BY <1>1
    <3>2. (c \o Sep) \o x = c \o (Sep \o x)
      BY ONLY <3>1, GroupIs, ZenonT(60)
    <3> QED BY <1>3, <1>4, <2>1, <3>2
  <2>2. CASE ~ r.does_repeat
    <3>1. c \o <<>> = c
      BY <1>1, ConcatEmptySeq
    <3>2. <<>> \in Seq(Token)
      BY EmptySeq
    <3> QED BY <1>3, <2>2, <3>1, <3>2
  <2> QED BY <1>1, <2>1, <2>2
<1>7. (v \o c) \o K = v \o X
  <2>1. v \in Seq(Token) /\ K \in Seq(Token)
    BY <1>5, <1>6
  <2> HIDE DEF v, K
  <2>2. (v \o c) \o K = v \o (c \o K)
    <3>1. v \in Seq(Token) /\ c \in Seq(Token) /\ K \in Seq(Token)
      BY <1>1, <2>1
    <3> QED BY ONLY <3>1, GroupIs, ZenonT(60)
  <2> QED BY <1>6, <2>2
<1>8. v \o X = u \o Y
  <2>1. u \in Seq(Token) /\ t \in Seq(Token) /\ X \in Seq(Token)
    BY <1>1, <1>4
  <2> HIDE DEF u
  <2>2. u \o t \o Sep \o X = u \o (t \o Sep \o X)
    BY ONLY <2>1, Regroup, ZenonT(60)
  <2> QED BY ONLY <2>2
<1>9. Line(r) = Text(r) \o <<"\n">>
  BY <1>2, <1>7, <1>8
<1>10. Y \in Seq(Token) /\ Len(Y) = Len(t) + 2 + Len(X)
  BY <1>1, JoinIs
<1>11. w \o Sep \o Y \in Seq(Token) /\ Len(w \o Sep \o Y) = Len(w) + 2 + Len(Y)
  <2>1. w \in Seq(Token) /\ Y \in Seq(Token)
    BY <1>1, <1>10
  <2> HIDE DEF Y
  <2> QED BY ONLY <2>1, JoinIs, ZenonT(60)
<1>12. Len(w \o Sep \o Y) = 5 + Len(t) + Len(X)
  <2>1. Len(t) \in Nat /\ Len(X) \in Nat
    BY <1>1, TextIs
  <2> QED BY <1>1, <1>10, <1>11, <2>1
<1>13. ASSUME OneLine(r) PROVE NoBreak(w \o Sep \o Y)
  <2>1. NoBreak(t) /\ NoBreak(c)
    BY <1>13 DEF OneLine, Contains, NoBreak, t, c
  <2>2. NoBreak(w) /\ NoBreak(x)
    BY <1>1 DEF NoBreak
  <2>3. NoBreak(X)
    <3>1. NoBreak(c \o Sep \o x)
      BY <1>1, <2>1, <2>2, BreakJoin
    <3> QED BY <1>1, <1>3, <2>1, <3>1
  <2>4. NoBreak(Y)
    BY <1>1, <2>1, <2>3, BreakJoin
  <2>5. Y \in Seq(Token)
    BY <1>10
  <2> HIDE DEF Y
  <2> QED BY <1>1, <2>2, <2>4, <2>5, BreakJoin
<1> QED BY <1>2, <1>9, <1>11, <1>12, <1>13 DEF t, X

\* A line is what stands between two breaks.
LEMMA LineAtIs ==
    ASSUME NEW s \in Seq(Token), NEW i \in 1..Len(s)
    PROVE  /\ LineAt(s, i) \in Seq(Token) /\ NoBreak(LineAt(s, i))
           /\ (\A j \in 1..i-1 : s[j] # "\n") => LineAt(s, i) = SubSeq(s, 1, i - 1)
<1> DEFINE I == {j \in 1..i-1 : s[j] = "\n"}
           k == IF I # {} THEN Max(I) ELSE 0
           u == LineAt(s, i)
<1>1. Len(s) \in Nat /\ i \in Nat /\ \A j \in 1..Len(s) : s[j] \in Token
  BY TextIs
<1>2. u = SubSeq(s, k + 1, i - 1)
  BY DEF LineAt, SelectLastInSubSeq
<1>3. k \in 0..i-1 /\ \A j \in k+1..i-1 : s[j] # "\n"
  <2>1. CASE I = {}
    BY <1>1, <2>1
  <2>2. CASE I # {}
    <3>1. I \in SUBSET 0..i-1 /\ i - 1 \in Nat
      BY <1>1
    <3> HIDE DEF I
    <3>2. \E m \in I : \A j \in I : j <= m
      BY <2>2, <3>1, GreatestOf
    <3>3. \A j, m \in I : j <= m <=> m >= j
      BY <1>1, <3>1
    <3>4. Max(I) \in I /\ \A j \in I : j <= Max(I)
      BY <3>2, <3>3 DEF Max
    <3>5. k \in I /\ \A j \in I : j <= k
      BY <2>2, <3>4
    <3> HIDE DEF k
    <3>6. k \in 1..i-1
      BY <3>5 DEF I
    <3>7. ASSUME NEW j \in k+1..i-1, s[j] = "\n" PROVE FALSE
      <4>1. j \in I /\ ~ (j <= k)
        BY <1>1, <3>6, <3>7 DEF I
      <4> QED BY <3>5, <4>1
    <3> QED BY <1>1, <3>6, <3>7
  <2> QED BY <2>1, <2>2
<1>4. (\A j \in 1..i-1 : s[j] # "\n") => k = 0
  OBVIOUS
<1> HIDE DEF k, u
<1> DEFINE m == k + 1
           n == i - 1
<1>5. m \in Int /\ n \in Int /\ \A j \in m..n : s[j] \in Token
  BY <1>1, <1>3
<1>6. u = SubSeq(s, m, n)
  BY <1>2
<1> HIDE DEF m, n
<1>7. /\ u \in Seq(Token) /\ Len(u) = IF m <= n THEN n - m + 1 ELSE 0
      /\ \A j \in 1..n-m+1 : u[j] = s[m+j-1]
  BY <1>5, <1>6, SubSeqProperties
<1>8. ASSUME NEW j \in 1..Len(u) PROVE u[j] # "\n"
  <2>1. j \in 1..n-m+1
    BY <1>5, <1>7
  <2>2. m+j-1 \in k+1..i-1
    BY <1>1, <1>3, <2>1 DEF m, n
  <2> QED BY <1>3, <1>7, <2>1, <2>2
<1>9. (\A j \in 1..i-1 : s[j] # "\n") => u = SubSeq(s, 1, i - 1)
  BY <1>4, <1>6 DEF m, n
<1> QED BY <1>7, <1>8, <1>9 DEF u, NoBreak

\* What is read from a file of lines is rows on one line.
LEMMA RewrittenIs ==
    ASSUME NEW lst \in Seq(FieldRow)
    PROVE  Rewritten(lst) \in Seq(LineRow)
<1> DEFINE ss == [k \in DOMAIN lst |-> Line(lst[k])]
           s == FlattenSeq(ss)
           pp == [i \in DOMAIN s |-> IF s[i] = "\n" THEN ParseTriplet(LineAt(s, i)) ELSE <<>>]
<1>1. Len(lst) \in Nat /\ DOMAIN lst = 1..Len(lst) /\ \A k \in 1..Len(lst) : lst[k] \in FieldRow
  BY LenProperties, ElementOfSeq
<1>2. \A k \in 1..Len(lst) : Line(lst[k]) \in Seq(Token)
  <2>1. "\n" \in Token
    BY DEF Token
  <2>2. <<"\n">> \in Seq(Token)
    BY <2>1, WordIs
  <2>3. ASSUME NEW r \in FieldRow PROVE Line(r) \in Seq(Token)
    <3>1. Text(r) \in Seq(Token) /\ Line(r) = Text(r) \o <<"\n">>
      BY LineIs
    <3> QED BY <2>2, <3>1, ConcatProperties
  <2> QED BY <1>1, <2>3
<1>3. ss \in Seq(Seq(Token))
  BY <1>1, <1>2
<1>4. s \in Seq(Token)
  <2> HIDE DEF ss
  <2> QED BY <1>3, FlattenType
<1> HIDE DEF s
<1>5. Len(s) \in Nat /\ DOMAIN s = 1..Len(s)
  BY <1>4, TextIs
<1>6. \A i \in 1..Len(s) : ParseTriplet(LineAt(s, i)) \in Seq(LineRow)
  <2>1. ASSUME NEW i \in 1..Len(s) PROVE ParseTriplet(LineAt(s, i)) \in Seq(LineRow)
    <3>1. LineAt(s, i) \in Seq(Token) /\ NoBreak(LineAt(s, i))
      BY <1>4, LineAtIs
    <3> QED BY <3>1, TripletType
  <2> QED BY <2>1
<1>7. pp \in Seq(Seq(LineRow))
  <2>1. <<>> \in Seq(LineRow)
    BY EmptySeq
  <2>2. ASSUME NEW i \in 1..Len(s)
        PROVE  (IF s[i] = "\n" THEN ParseTriplet(LineAt(s, i)) ELSE <<>>) \in Seq(LineRow)
    BY <1>6, <2>1
  <2> QED BY <1>5, <2>2
<1>8. Rewritten(lst) = FlattenSeq(pp)
  BY DEF Rewritten, s
<1> HIDE DEF pp
<1> QED BY <1>7, <1>8, FlattenType

\* What is read from the line of one row.
LEMMA RewrittenOne ==
    ASSUME NEW r \in FieldRow, OneLine(r)
    PROVE  Rewritten(<<r>>) = ParseTriplet(Text(r))
<1> DEFINE ss == [k \in DOMAIN <<r>> |-> Line(<<r>>[k])]
           t == Text(r)
           s == t \o <<"\n">>
           pp == [i \in DOMAIN s |-> IF s[i] = "\n" THEN ParseTriplet(LineAt(s, i)) ELSE <<>>]
           e == <<"\n">>
<1>1. t \in Seq(Token) /\ Line(r) = s /\ NoBreak(t)
  BY LineIs
<1>2. e \in Seq(Token) /\ Len(e) = 1 /\ e[1] = "\n"
  <2>1. "\n" \in Token
    BY DEF Token
  <2> QED BY <2>1, WordIs
<1> HIDE DEF t
<1>3. /\ s \in Seq(Token) /\ Len(s) = Len(t) + 1
      /\ \A i \in 1..Len(t) : s[i] = t[i]
      /\ s[Len(t) + 1] = "\n"
  <2> HIDE DEF e
  <2>1. /\ t \o e \in Seq(Token) /\ Len(t \o e) = Len(t) + Len(e)
        /\ \A i \in 1..Len(t) : (t \o e)[i] = t[i]
        /\ \A i \in 1..Len(e) : (t \o e)[Len(t) + i] = e[i]
    <3>1. t \in Seq(Token) /\ e \in Seq(Token)
      BY <1>1, <1>2
    <3> QED BY <3>1, AppendIs
  <2>2. (t \o e)[Len(t) + 1] = "\n"
    BY <1>2, <2>1
  <2> QED BY <1>2, <2>1, <2>2 DEF e
<1>4. FlattenSeq(ss) = s
  <2>1. ss = <<Line(r)>>
    OBVIOUS
  <2>2. <<Line(r)>> \in Seq(Seq(Token)) /\ Len(<<Line(r)>>) = 1 /\ <<Line(r)>>[1] = Line(r)
    BY <1>1, <1>3
  <2> DEFINE q == <<Line(r)>>
  <2>3. q \in Seq(Seq(Token)) /\ Len(q) > 0 /\ q[Len(q)] = s /\ \A i \in 1..Len(q)-1 : q[i] = <<>>
    BY <1>1, <2>2
  <2> HIDE DEF q, s
  <2>4. FlattenSeq(q) = q[Len(q)]
    BY <2>3, FlattenLast
  <2> QED BY <2>1, <2>3, <2>4 DEF q
<1> HIDE DEF s, ss
<1>5. Len(t) \in Nat /\ Len(s) \in Nat /\ DOMAIN s = 1..Len(s) /\ Len(s) \in 1..Len(s)
  BY <1>1, <1>3, TextIs
<1>6. LineAt(s, Len(s)) = t
  <2>1. \A j \in 1..Len(s)-1 : s[j] # "\n"
    BY <1>1, <1>3, <1>5 DEF NoBreak
  <2>2. LineAt(s, Len(s)) = SubSeq(s, 1, Len(s) - 1)
    BY <1>3, <1>5, <2>1, LineAtIs
  <2>3. Len(s) - 1 = Len(t) /\ Len(t) \in 0..Len(s)
    BY <1>3, <1>5
  <2>4. /\ SubSeq(s, 1, Len(t)) \in Seq(Token) /\ Len(SubSeq(s, 1, Len(t))) = Len(t)
        /\ \A i \in 1..Len(t) : SubSeq(s, 1, Len(t))[i] = s[i]
    BY <1>3, <2>3, PrefixIs
  <2>5. SubSeq(s, 1, Len(t)) = t
    BY <1>1, <1>3, <2>4, SeqEqual
  <2> QED BY <2>2, <2>3, <2>5
<1>7. ParseTriplet(t) \in Seq(FieldRow)
  BY <1>1, TripletType
<1>8. /\ pp \in Seq(Seq(FieldRow)) /\ Len(pp) = Len(s)
      /\ \A i \in 1..Len(s)-1 : pp[i] = <<>>
      /\ pp[Len(s)] = ParseTriplet(t)
  <2>1. pp = [i \in 1..Len(s) |-> IF i = Len(s) THEN ParseTriplet(t) ELSE <<>>]
    <3>1. ASSUME NEW i \in 1..Len(s)
          PROVE  (IF s[i] = "\n" THEN ParseTriplet(LineAt(s, i)) ELSE <<>>)
                    = IF i = Len(s) THEN ParseTriplet(t) ELSE <<>>
      <4>1. CASE i = Len(s)
        BY <1>3, <1>5, <1>6, <4>1
      <4>2. CASE i # Len(s)
        <5>1. i \in 1..Len(t) /\ s[i] # "\n"
          BY <1>1, <1>3, <1>5, <4>2 DEF NoBreak
        <5> QED BY <4>2, <5>1
      <4> QED BY <4>1, <4>2
    <3> QED BY <1>5, <3>1
  <2>2. <<>> \in Seq(FieldRow)
    BY EmptySeq
  <2> DEFINE n == Len(s)
             v == ParseTriplet(t)
  <2>3. n \in Nat /\ n >= 1 /\ v \in Seq(FieldRow) /\ pp = [i \in 1..n |-> IF i = n THEN v ELSE <<>>]
    BY <1>5, <1>7, <2>1
  <2> HIDE DEF pp, n, v
  <2>4. pp \in Seq(Seq(FieldRow))
    <3>1. \A i \in 1..n : (IF i = n THEN v ELSE <<>>) \in Seq(FieldRow)
      BY <2>2, <2>3
    <3> QED BY <2>3, <3>1
  <2>5. Len(pp) = n
    BY <2>3
  <2>6. pp[n] = v /\ \A i \in 1..n-1 : pp[i] = <<>>
    BY <2>3
  <2> QED BY <2>4, <2>5, <2>6 DEF n, v
<1>9. Rewritten(<<r>>) = FlattenSeq(pp)
  BY <1>4 DEF Rewritten, ss
<1> HIDE DEF pp
<1>10. FlattenSeq(pp) = pp[Len(pp)]
  BY <1>5, <1>8, FlattenLast
<1> QED BY <1>8, <1>9, <1>10 DEF t

\* A row survives being written and read exactly if it is plain.
LEMMA Survives ==
    ASSUME NEW r \in FieldRow
    PROVE  Rewritten(<<r>>) = <<r>> <=> Plain(r)
<1>1. CASE OneLine(r)
  <2>1. Rewritten(<<r>>) = ParseTriplet(<<"TS">> \o Sep \o (r.task \o Sep \o LastField(r)))
    BY <1>1, RewrittenOne DEF Text
  <2> QED BY <1>1, <2>1, PlainGives, GivesPlain
<1>2. CASE ~ OneLine(r)
  <2>1. ~ Plain(r)
    BY <1>2 DEF Plain, OneLine
  <2>2. ASSUME Rewritten(<<r>>) = <<r>> PROVE FALSE
    <3>1. <<r>> \in Seq(FieldRow)
      OBVIOUS
    <3>2. <<r>> \in Seq(LineRow)
      BY <2>2, <3>1, RewrittenIs
    <3>3. Len(<<r>>) = 1 /\ <<r>>[1] = r
      OBVIOUS
    <3>4. r \in LineRow
      BY <3>2, <3>3, ElementOfSeq
    <3> QED BY <1>2, <3>4 DEF LineRow
  <2> QED BY <2>1, <2>2
<1> QED BY <1>1, <1>2

\* One sequence comes out as it goes in.
LEMMA FlattenOne ==
    ASSUME NEW S, NEW x \in Seq(S)
    PROVE  FlattenSeq(<<x>>) = x
<1> DEFINE q == <<x>>
<1>1. q \in Seq(Seq(S)) /\ Len(q) > 0 /\ q[Len(q)] = x /\ \A i \in 1..Len(q)-1 : q[i] = <<>>
  OBVIOUS
<1> HIDE DEF q
<1>2. FlattenSeq(q) = q[Len(q)]
  BY <1>1, FlattenLast
<1> QED BY <1>1, <1>2 DEF q

\* The comment and the repetition that are read from a text are not longer
\* than that text, and are that text if they are as long.
LEMMA LastOf ==
    ASSUME NEW B \in Seq(Token), NEW v \in FieldRow,
           v.comment = Cut(TrimRight(Body(B))), v.does_repeat = Repeats(B)
    PROVE  Len(LastField(v)) <= Len(B) /\ (Len(LastField(v)) = Len(B) => LastField(v) = B)
<1> DEFINE c == v.comment
<1>1. CASE Repeats(B)
  <2> DEFINE P == Before(B)
             Q == After(B)
             w == <<"repeat">>
  <2>1. P \in Seq(Token) /\ Q \in Seq(Token) /\ B = P \o Sep \o Q /\ TrimRight(Q) = w
    BY <1>1, SepSplit DEF Repeats
  <2>2. c = Cut(TrimRight(P)) /\ LastField(v) = c \o Sep \o w
    BY <1>1 DEF Body, LastField
  <2>3. w \in Seq(Token) /\ Len(w) = 1
    BY WordsAre, WordIs
  <2> HIDE DEF P, Q, w, c
  <2>4. c \in Seq(Token) /\ Len(c) \in 0..Len(P) /\ (Len(c) = Len(P) => c = P)
    BY <2>1, <2>2, KeptOf
  <2>5. Len(TrimRight(Q)) \in 0..Len(Q) /\ (Len(TrimRight(Q)) = Len(Q) => TrimRight(Q) = Q)
    BY <2>1, TrimIs, TrimWhole
  <2>6. Len(c \o Sep \o w) = Len(c) + 2 + Len(w)
    BY <2>3, <2>4, JoinIs
  <2>7. Len(P \o Sep \o Q) = Len(P) + 2 + Len(Q)
    BY <2>1, JoinIs
  <2>8. Len(P) \in Nat /\ Len(Q) \in Nat /\ Len(c) \in Nat
    BY <2>1, <2>4, TextIs
  <2>9. Len(LastField(v)) <= Len(B)
    BY <2>1, <2>2, <2>3, <2>4, <2>5, <2>6, <2>7, <2>8
  <2>10. ASSUME Len(LastField(v)) = Len(B) PROVE LastField(v) = B
    <3>1. Len(c) = Len(P) /\ Len(TrimRight(Q)) = Len(Q)
      BY <2>1, <2>2, <2>3, <2>4, <2>5, <2>6, <2>7, <2>8, <2>10
    <3>2. c = P /\ w = Q
      BY <2>1, <2>4, <2>5, <3>1
    <3> QED BY <2>1, <2>2, <3>2
  <2> QED BY <2>9, <2>10
<1>2. CASE ~ Repeats(B)
  <2>1. LastField(v) = Cut(TrimRight(B))
    BY <1>2 DEF Body, LastField
  <2>2. /\ Len(Cut(TrimRight(B))) \in 0..Len(B)
        /\ Len(Cut(TrimRight(B))) = Len(B) => Cut(TrimRight(B)) = B
    BY KeptOf
  <2>3. Len(B) \in Nat
    BY TextIs
  <2> QED BY <2>1, <2>2, <2>3
<1> QED BY <1>1, <1>2

\* Writing and reading a row leaves its line as it is or makes it shorter.
LEMMA LineSettles ==
    ASSUME NEW r \in FieldRow, OneLine(r)
    PROVE  \E v \in FieldRow : /\ Rewritten(<<r>>) = <<v>>
                               /\ Line(v) = Line(r) \/ Len(Line(v)) < Len(Line(r))
<1> DEFINE t == r.task
           X == LastField(r)
           D == TrimRight(X)
           A == Before(t \o Sep \o D)
           B == After(t \o Sep \o D)
           a == Cut(TrimRight(A))
           c == Cut(TrimRight(Body(B)))
           v == TextRow(a, c, Repeats(B))
<1>1. t \in Seq(Token) /\ X \in Seq(Token) /\ Text(r) = <<"TS">> \o Sep \o (t \o Sep \o X)
  BY FieldsAre, LastIs DEF Text
<1>2. D \in Seq(Token) /\ Len(D) \in 0..Len(X) /\ (Len(D) = Len(X) => D = X)
  BY <1>1, TrimIs, TrimWhole
<1>3. Rewritten(<<r>>) = <<v>>
  <2>1. Rewritten(<<r>>) = ParseTriplet(<<"TS">> \o Sep \o (t \o Sep \o X))
    BY <1>1, RewrittenOne
  <2> HIDE DEF t, X
  <2>2. ParseTriplet(<<"TS">> \o Sep \o (t \o Sep \o X)) = ReadAfter(t \o Sep \o TrimRight(X))
    BY <1>1, TripletIs
  <2> QED BY <2>1, <2>2 DEF ReadAfter
<1> HIDE DEF t, X, D
<1>4. /\ A \in Seq(Token) /\ B \in Seq(Token) /\ t \o Sep \o D = A \o Sep \o B
  <2>1. t \o Sep \o D \in Seq(Token)
    BY <1>1, <1>2, JoinIs
  <2>2. HasSep(t \o Sep \o D)
    BY <1>1, <1>2, FirstPart
  <2> DEFINE s == t \o Sep \o D
  <2> HIDE DEF s
  <2>3. s \in Seq(Token) /\ HasSep(s)
    BY <2>1, <2>2 DEF s
  <2>4. Before(s) \in Seq(Token) /\ After(s) \in Seq(Token) /\ s = Before(s) \o Sep \o After(s)
    BY <2>3, SepSplit
  <2> QED BY <2>4 DEF s
<1> HIDE DEF A, B
<1>5. v \in FieldRow /\ v.task = a /\ v.comment = c /\ v.does_repeat = Repeats(B)
  <2> HIDE DEF v
  <2>1. Rewritten(<<r>>) \in Seq(LineRow)
    <3>1. <<r>> \in Seq(FieldRow)
      OBVIOUS
    <3> QED BY <3>1, RewrittenIs
  <2>2. <<v>>[1] = v /\ Len(<<v>>) = 1
    OBVIOUS
  <2>3. v \in LineRow
    BY <1>3, <2>1, <2>2, ElementOfSeq
  <2> QED BY <2>3 DEF LineRow, v, TextRow
<1>6. Len(a) \in 0..Len(A) /\ (Len(a) = Len(A) => a = A)
  BY <1>4, KeptOf
<1> HIDE DEF a
<1>7. Len(LastField(v)) <= Len(B) /\ (Len(LastField(v)) = Len(B) => LastField(v) = B)
  <2> HIDE DEF v
  <2> QED BY <1>4, <1>5, LastOf
<1> HIDE DEF v
<1> DEFINE Z == LastField(v)
<1>8. /\ Text(r) \in Seq(Token) /\ Line(r) = Text(r) \o <<"\n">>
      /\ Len(Text(r)) = 5 + Len(t) + Len(X)
  BY LineIs DEF t, X
<1>9. /\ Text(v) \in Seq(Token) /\ Line(v) = Text(v) \o <<"\n">>
      /\ Len(Text(v)) = 5 + Len(a) + Len(Z)
  BY <1>5, LineIs
<1>10. Z \in Seq(Token) /\ Text(v) = <<"TS">> \o Sep \o (a \o Sep \o Z)
  BY <1>5, LastIs DEF Text
<1> HIDE DEF Z
<1>11. Len(t) + Len(D) = Len(A) + Len(B)
  <2>1. Len(t \o Sep \o D) = Len(t) + 2 + Len(D)
    BY <1>1, <1>2, JoinIs
  <2>2. Len(A \o Sep \o B) = Len(A) + 2 + Len(B)
    BY <1>4, JoinIs
  <2>3. Len(t) \in Nat /\ Len(D) \in Nat /\ Len(A) \in Nat /\ Len(B) \in Nat
    BY <1>1, <1>2, <1>4, TextIs
  <2> QED BY <1>4, <2>1, <2>2, <2>3
<1>12. /\ Len(t) \in Nat /\ Len(D) \in Nat /\ Len(A) \in Nat /\ Len(B) \in Nat /\ Len(X) \in Nat
       /\ Len(Z) \in Nat /\ Len(a) \in Nat
  BY <1>1, <1>2, <1>4, <1>6, <1>10, TextIs
<1>13. Len(Text(v)) <= Len(Text(r))
  BY <1>2, <1>6, <1>7, <1>8, <1>9, <1>11, <1>12 DEF Z
<1>14. ASSUME Len(Text(v)) = Len(Text(r)) PROVE Text(v) = Text(r)
  <2>1. Len(a) = Len(A) /\ Len(Z) = Len(B) /\ Len(D) = Len(X)
    BY <1>2, <1>6, <1>7, <1>8, <1>9, <1>11, <1>12, <1>14 DEF Z
  <2>2. a = A /\ Z = B /\ D = X
    BY <1>2, <1>6, <1>7, <2>1 DEF Z
  <2>3. a \o Sep \o Z = t \o Sep \o X
    BY <1>4, <2>2
  <2> QED BY <1>1, <1>10, <2>3
<1>15. Line(v) = Line(r) \/ Len(Line(v)) < Len(Line(r))
  <2> DEFINE e == <<"\n">>
             x == Text(v)
             y == Text(r)
  <2>1. e \in Seq(Token)
    <3>1. "\n" \in Token
      BY DEF Token
    <3> QED BY <3>1, WordIs
  <2>2. x \in Seq(Token) /\ y \in Seq(Token) /\ Line(v) = x \o e /\ Line(r) = y \o e
    BY <1>8, <1>9
  <2>3. Len(x) <= Len(y) /\ (Len(x) = Len(y) => x = y)
    BY <1>13, <1>14
  <2> HIDE DEF e, x, y
  <2>4. Len(x \o e) = Len(x) + Len(e)
    BY <2>1, <2>2, AppendIs
  <2>5. Len(y \o e) = Len(y) + Len(e)
    BY <2>1, <2>2, AppendIs
  <2>6. Len(x) \in Nat /\ Len(y) \in Nat /\ Len(e) \in Nat
    BY <2>1, <2>2, TextIs
  <2> QED BY <2>2, <2>3, <2>4, <2>5, <2>6
<1> QED BY <1>3, <1>5, <1>15

-----------------------------------------------------------------------------
(* What may be entered                                                     *)

\* Trimming at the beginning, and at both ends.
LEMMA BothIs ==
    ASSUME NEW s \in Seq(Token)
    PROVE  TrimLeft(s) \in Seq(Token) /\ TrimBoth(s) \in Seq(Token)
<1>1. TrimLeft(s) \in Seq(Token)
  BY LeftIs
<1> QED BY <1>1, TrimIs DEF TrimBoth

\* A row whose fields fit.
LEMMA FieldsFit ==
    ASSUME NEW a \in Seq(Token), NEW c \in Seq(Token),
           Len(a) <= FieldLen, Len(c) <= FieldLen
    PROVE  TextRow(a, c, TRUE) \in FieldRow /\ TextRow(a, c, FALSE) \in FieldRow
BY DEF TextRow, FieldRow, Field

\* One row, or none.
LEMMA RowOrNone ==
    ASSUME NEW r, r \in FieldRow
    PROVE  <<r>> \in Seq(FieldRow) /\ <<>> \in Seq(FieldRow)
OBVIOUS

\* The second form gives rows whose fields fit.
LEMMA MultiType ==
    ASSUME NEW s \in Seq(Token), IsMultiTriplet(s)
    PROVE  ParseMultiTriplet(s) \in Seq(FieldRow)
<1> DEFINE buf == TrimRight(s)
           A == Before(buf)
           rest == After(buf)
           C == Before(rest)
           last == TrimRight(After(rest))
<1>1. HasSep(buf) /\ HasSep(rest)
  BY DEF IsMultiTriplet
<1>2. buf \in Seq(Token)
  BY TrimIs
<1> HIDE DEF buf
<1>3. A \in Seq(Token) /\ rest \in Seq(Token)
  BY <1>1, <1>2, SepSplit
<1> HIDE DEF A, rest
<1>4. C \in Seq(Token)
  BY <1>1, <1>3, SepSplit
<1> HIDE DEF C
<1> DEFINE a == TrimRight(Cut(A))
           c == Cut(TrimRight(C))
<1>5. Cut(A) \in Seq(Token) /\ Len(Cut(A)) <= FieldLen
  BY <1>3, CutIs
<1>6. a \in Seq(Token) /\ Len(a) <= FieldLen
  <2> DEFINE b == Cut(A)
  <2>1. b \in Seq(Token) /\ Len(b) <= FieldLen /\ Len(b) \in Nat
    BY <1>5, TextIs
  <2> HIDE DEF b
  <2>2. TrimRight(b) \in Seq(Token) /\ Len(TrimRight(b)) \in 0..Len(b)
    BY <2>1, TrimIs
  <2> QED BY <2>1, <2>2, FieldLenAssumption DEF b
<1>7. c \in Seq(Token) /\ Len(c) <= FieldLen
  BY <1>4, KeptOf
<1>8. Repeats(last) \in BOOLEAN
  BY DEF Repeats
<1>9. ParseMultiTriplet(s) = <<>> \/ ParseMultiTriplet(s) = <<TextRow(a, c, Repeats(last))>>
  BY DEF ParseMultiTriplet, Unreadable, A, C, rest, buf
<1> HIDE DEF a, c, last
<1> DEFINE f == Repeats(last)
           v == TextRow(a, c, f)
<1>10. f = TRUE \/ f = FALSE
  BY <1>8
<1> HIDE DEF f
<1>11. v \in FieldRow
  <2>1. TextRow(a, c, TRUE) \in FieldRow /\ TextRow(a, c, FALSE) \in FieldRow
    BY <1>6, <1>7, FieldsFit
  <2> QED BY <1>10, <2>1
<1> HIDE DEF v
<1>12. <<v>> \in Seq(FieldRow) /\ <<>> \in Seq(FieldRow)
  BY <1>11, RowOrNone
<1> QED BY <1>9, <1>12 DEF v, f

\* The weekday form gives rows whose fields fit.
LEMMA ExpandedType ==
    ASSUME NEW s \in Seq(Token), IsWeekdayExpr(s)
    PROVE  ExpandedRow(s) \in Seq(FieldRow)
<1> DEFINE buf == TrimBoth(s)
           rest == After(buf)
           named == After(rest)
           A == Before(named)
           C == After(named)
<1>1. HasSep(buf) /\ HasSep(rest) /\ HasSep(named)
  BY DEF IsWeekdayExpr
<1>2. buf \in Seq(Token)
  BY BothIs
<1> HIDE DEF buf
<1>3. rest \in Seq(Token)
  BY <1>1, <1>2, SepSplit
<1> HIDE DEF rest
<1>4. named \in Seq(Token)
  BY <1>1, <1>3, SepSplit
<1> HIDE DEF named
<1>5. A \in Seq(Token) /\ C \in Seq(Token)
  BY <1>1, <1>4, SepSplit
<1> HIDE DEF A, C
<1> DEFINE a == Cut(TrimBoth(A))
           c == Cut(TrimBoth(C))
<1>6. TrimBoth(A) \in Seq(Token) /\ TrimBoth(C) \in Seq(Token)
  BY <1>5, BothIs
<1>7. a \in Seq(Token) /\ Len(a) <= FieldLen /\ c \in Seq(Token) /\ Len(c) <= FieldLen
  BY <1>6, CutIs
<1>8. ExpandedRow(s) = <<>> \/ ExpandedRow(s) = <<TextRow(a, c, TRUE)>>
  BY DEF ExpandedRow, Unreadable, A, C, named, rest, buf
<1> HIDE DEF a, c
<1> DEFINE v == TextRow(a, c, TRUE)
<1>10. v \in FieldRow
  BY <1>7, FieldsFit
<1> HIDE DEF v
<1>11. <<v>> \in Seq(FieldRow) /\ <<>> \in Seq(FieldRow)
  BY <1>10, RowOrNone
<1> QED BY <1>8, <1>11 DEF v

\* Whatever is entered gives rows whose fields fit.
LEMMA EnteredType ==
    ASSUME NEW s \in Seq(Token)
    PROVE  Entered(s) \in Seq(FieldRow)
<1>1. CASE IsWeekdayExpr(s)
  BY <1>1, ExpandedType DEF Entered
<1>2. CASE ~ IsWeekdayExpr(s) /\ IsMultiTriplet(s)
  BY <1>2, MultiType DEF Entered
<1>3. CASE ~ IsWeekdayExpr(s) /\ ~ IsMultiTriplet(s)
  BY <1>3, TripletType DEF Entered
<1> QED BY <1>1, <1>2, <1>3

\* What is typed is a text.
LEMMA TypedType ==
    ASSUME NEW h \in Heads, NEW fields \in Seq(FieldTexts)
    PROVE  Typed(h, fields) \in Seq(Token)
<1> DEFINE ss == [i \in DOMAIN fields |-> Sep \o fields[i]]
           s == FlattenSeq(ss)
<1>1. Len(fields) \in Nat /\ DOMAIN fields = 1..Len(fields) /\ \A i \in 1..Len(fields) : fields[i] \in FieldTexts
  BY LenProperties, ElementOfSeq
<1>2. h \in Seq(Token) /\ FieldTexts \subseteq Seq(Token)
  BY TextsAssumption
<1>3. \A i \in 1..Len(fields) : Sep \o fields[i] \in Seq(Token)
  <2>1. ASSUME NEW f \in Seq(Token) PROVE Sep \o f \in Seq(Token)
    BY SepIs, ConcatProperties
  <2> QED BY <1>1, <1>2, <2>1
<1>4. ss \in Seq(Seq(Token))
  BY <1>1, <1>3
<1> HIDE DEF ss
<1>5. s \in Seq(Token)
  BY <1>4, FlattenType
<1>6. Typed(h, fields) = h \o s
  BY DEF Typed, ss
<1> HIDE DEF s
<1> QED BY <1>2, <1>5, <1>6, ConcatProperties

\* The rows of the file, and the row that was entered, have fields that fit.
TextInv == born \in Seq(FieldRow) /\ rows \in Seq(FieldRow)

\* The invariant is inductive.
LEMMA TextInductive ==
    /\ TextInit => TextInv
    /\ TextInv /\ [TextNext]_text => TextInv'
<1>1. TextInit => TextInv
  BY EmptySeq DEF TextInit, TextInv
<1>2. ASSUME TextInv, EnterText PROVE TextInv'
  <2>1. PICK h \in Heads, f2 \in FieldTexts, f3 \in FieldTexts, f4 \in FieldTexts :
           \E s \in {Typed(h, <<f2, f3>>), Typed(h, <<f2, f3, f4>>)} :
              born' = Entered(s) /\ rows' = Entered(s)
    BY <1>2 DEF EnterText
  <2>2. <<f2, f3>> \in Seq(FieldTexts) /\ <<f2, f3, f4>> \in Seq(FieldTexts)
    OBVIOUS
  <2>3. PICK s \in {Typed(h, <<f2, f3>>), Typed(h, <<f2, f3, f4>>)} :
           born' = Entered(s) /\ rows' = Entered(s)
    BY <2>1
  <2>4. Typed(h, <<f2, f3>>) \in Seq(Token) /\ Typed(h, <<f2, f3, f4>>) \in Seq(Token)
    BY <2>2, TypedType
  <2>5. s \in Seq(Token)
    BY <2>3, <2>4
  <2>6. Entered(s) \in Seq(FieldRow)
    BY <2>5, EnteredType
  <2> QED BY <2>3, <2>6 DEF TextInv
<1>3. ASSUME TextInv, Rewrite PROVE TextInv'
  <2>1. Rewritten(rows) \in Seq(LineRow)
    BY <1>3, RewrittenIs DEF TextInv
  <2>2. LineRow \subseteq FieldRow
    BY DEF LineRow
  <2>3. Rewritten(rows) \in Seq(FieldRow)
    <3> DEFINE u == Rewritten(rows)
    <3> HIDE DEF u
    <3>1. u \in Seq(LineRow)
      BY <2>1 DEF u
    <3>2. Len(u) \in Nat /\ u \in [1..Len(u) -> FieldRow]
      BY <2>2, <3>1, LenProperties
    <3> QED BY <3>2 DEF u
  <2> QED BY <1>3, <2>3 DEF Rewrite, TextInv
<1>4. ASSUME TextInv, UNCHANGED text PROVE TextInv'
  BY <1>4 DEF text, TextInv
<1> QED BY <1>1, <1>2, <1>3, <1>4 DEF TextNext

\* The invariant gives what a run checks of the rows.
LEMMA TextGives ==
    ASSUME TextInv
    PROVE  PlainSurvives /\ Settles
<1>1. \A i \in DOMAIN rows : rows[i] \in FieldRow
  BY ElementOfSeq, LenProperties DEF TextInv
<1>2. PlainSurvives
  <2>1. ASSUME NEW i \in DOMAIN rows PROVE Rewritten(<<rows[i]>>) = <<rows[i]>> <=> Plain(rows[i])
    BY <1>1, Survives
  <2> QED BY <2>1 DEF PlainSurvives
<1>3. Settles
  <2>1. ASSUME NEW i \in DOMAIN rows, ~ Contains(rows[i].task \o rows[i].comment, "\n")
        PROVE  LET line  == Line(rows[i])
                   again == FlattenSeq([k \in DOMAIN Rewritten(<<rows[i]>>) |->
                                           Line(Rewritten(<<rows[i]>>)[k])])
               IN  again = line \/ Len(again) < Len(line)
    <3> DEFINE r == rows[i]
               t == r.task
               c == r.comment
    <3>1. r \in FieldRow /\ t \in Seq(Token) /\ c \in Seq(Token)
      BY <1>1, FieldsAre
    <3>2. OneLine(r)
      <4> HIDE DEF t, c
      <4>1. /\ Len(t \o c) = Len(t) + Len(c) /\ Len(t) \in Nat /\ Len(c) \in Nat
            /\ \A j \in 1..Len(t) : (t \o c)[j] = t[j]
            /\ \A j \in 1..Len(c) : (t \o c)[Len(t) + j] = c[j]
        BY <3>1, AppendIs, TextIs
      <4>2. \A j \in 1..Len(t \o c) : (t \o c)[j] # "\n"
        BY <2>1 DEF Contains, t, c
      <4>3. \A j \in 1..Len(t) : t[j] # "\n"
        BY <4>1, <4>2
      <4>4. ASSUME NEW j \in 1..Len(c) PROVE c[j] # "\n"
        <5>1. Len(t) + j \in 1..Len(t \o c)
          BY <4>1
        <5> QED BY <4>1, <4>2, <5>1
      <4> QED BY <4>3, <4>4 DEF OneLine, Contains, t, c
    <3> HIDE DEF r
    <3>3. PICK v \in FieldRow : /\ Rewritten(<<r>>) = <<v>>
                                /\ Line(v) = Line(r) \/ Len(Line(v)) < Len(Line(r))
      BY <3>1, <3>2, LineSettles
    <3>4. [k \in DOMAIN Rewritten(<<r>>) |-> Line(Rewritten(<<r>>)[k])] = <<Line(v)>>
      BY <3>3
    <3>5. Line(v) \in Seq(Token)
      <4>1. Text(v) \in Seq(Token) /\ Line(v) = Text(v) \o <<"\n">>
        BY <3>3, LineIs
      <4>2. <<"\n">> \in Seq(Token)
        BY DEF Token
      <4> QED BY <4>1, <4>2, ConcatProperties
    <3>6. FlattenSeq(<<Line(v)>>) = Line(v)
      BY <3>5, FlattenOne
    <3> QED BY <3>3, <3>4, <3>6 DEF r
  <2> QED BY <2>1 DEF Settles
<1> QED BY <1>2, <1>3

\* A row comes back from the file as it was written exactly if it is plain
\* (todox_write_config, todox_parse_config).
THEOREM PlainRowsSurvive == TextSpec => []PlainSurvives
<1>1. TextInv => PlainSurvives
  BY TextGives
<1> QED BY <1>1, TextInductive, PTL DEF TextSpec

\* Writing back what was read cannot go on changing a row.
THEOREM RewritingSettles == TextSpec => []Settles
<1>1. TextInv => Settles
  BY TextGives
<1> QED BY <1>1, TextInductive, PTL DEF TextSpec

-----------------------------------------------------------------------------
(* The three forms of `add`                                                *)

\* There is one first token that is no blank.
LEMMA LeftOnly ==
    ASSUME NEW s \in Seq(Token), NEW n \in 0..Len(s), \A i \in 1..n : s[i] \in Blanks,
           n < Len(s) => s[n+1] \notin Blanks
    PROVE  Len(TrimLeft(s)) = Len(s) - n
<1>1. PICK k \in 0..Len(s) :
              /\ TrimLeft(s) \in Seq(Token) /\ Len(TrimLeft(s)) = Len(s) - k
              /\ \A i \in 1..Len(s)-k : TrimLeft(s)[i] = s[k+i]
              /\ \A i \in 1..k : s[i] \in Blanks
              /\ k < Len(s) => s[k+1] \notin Blanks
  BY LeftIs
<1>2. Len(s) \in Nat
  BY TextIs
<1>3. ~ (k < n)
  <2>1. ASSUME k < n PROVE k + 1 \in 1..n /\ k < Len(s)
    BY <1>2, <2>1
  <2> QED BY <1>1, <2>1
<1>4. ~ (n < k)
  <2>1. ASSUME n < k PROVE n + 1 \in 1..k /\ n < Len(s)
    BY <1>2, <2>1
  <2> QED BY <1>1, <2>1
<1>5. k = n
  BY <1>2, <1>3, <1>4
<1> QED BY <1>1, <1>5

\* What trimming at the beginning keeps, and what it leaves alone.
LEMMA LeftOf ==
    ASSUME NEW s \in Seq(Token)
    PROVE  /\ TrimLeft(s) \in Seq(Token) /\ Len(TrimLeft(s)) \in 0..Len(s)
           /\ s # <<>> /\ s[1] \notin Blanks => TrimLeft(s) = s
           /\ Tight(s) => Tight(TrimLeft(s))
           /\ SepFree(s) => SepFree(TrimLeft(s))
<1> DEFINE u == TrimLeft(s)
<1>1. PICK k \in 0..Len(s) :
              /\ u \in Seq(Token) /\ Len(u) = Len(s) - k
              /\ \A i \in 1..Len(s)-k : u[i] = s[k+i]
              /\ \A i \in 1..k : s[i] \in Blanks
  BY LeftIs
<1>2. Len(s) \in Nat /\ DOMAIN s = 1..Len(s) /\ (s # <<>> => Len(s) > 0)
  BY TextIs
<1> HIDE DEF u
<1>3. Len(u) \in Nat /\ DOMAIN u = 1..Len(u) /\ (u # <<>> => Len(u) > 0) /\ Len(u) \in 0..Len(s)
  BY <1>1, <1>2, TextIs
<1>4. ASSUME s # <<>>, s[1] \notin Blanks PROVE u = s
  <2>1. k = 0
    BY <1>1, <1>2, <1>4
  <2>2. Len(u) = Len(s) /\ \A i \in 1..Len(u) : u[i] = s[i]
    BY <1>1, <1>2, <2>1
  <2> QED BY <1>1, <2>2, SeqEqual
<1>5. u # <<>> => u[Len(u)] = s[Len(s)] /\ s # <<>>
  <2>1. SUFFICES ASSUME u # <<>> PROVE u[Len(u)] = s[Len(s)] /\ s # <<>>
    OBVIOUS
  <2>2. Len(u) \in 1..Len(s)-k /\ k + Len(u) = Len(s)
    BY <1>1, <1>2, <1>3, <2>1
  <2>3. Len(s) > 0
    BY <1>2, <2>2
  <2> QED BY <1>1, <2>2, <2>3, TextIs
<1>6. \A S : EndsIn(u, S) => EndsIn(s, S)
  BY <1>5 DEF EndsIn
<1>7. HasSep(u) => HasSep(s)
  <2>1. ASSUME NEW i \in DOMAIN u, IsSepAt(u, i) PROVE HasSep(s)
    <3>1. i \in 1..Len(u) /\ i + 1 \in 1..Len(u) /\ u[i] = "%" /\ u[i+1] = "%"
      BY <1>3, <2>1 DEF IsSepAt
    <3>2. i \in 1..Len(s)-k /\ i + 1 \in 1..Len(s)-k /\ k + i \in DOMAIN s /\ (k + i) + 1 \in DOMAIN s
          /\ k + (i + 1) = (k + i) + 1
      <4>1. k \in Nat /\ i \in Nat /\ i >= 1 /\ i + 1 <= Len(s) - k
        BY <1>1, <1>2, <3>1
      <4> QED BY <1>2, <4>1
    <3>3. s[k + i] = "%" /\ s[(k + i) + 1] = "%"
      BY <1>1, <3>1, <3>2
    <3> QED BY <3>2, <3>3 DEF HasSep, IsSepAt
  <2> QED BY <2>1 DEF HasSep
<1> QED BY <1>1, <1>3, <1>4, <1>6, <1>7 DEF u, Tight, SepFree

\* Trimming at the beginning does not reach a separator.
LEMMA LeftJoin ==
    ASSUME NEW A \in Seq(Token), NEW B \in Seq(Token)
    PROVE  TrimLeft(A \o Sep \o B) = TrimLeft(A) \o Sep \o B
<1> DEFINE s == A \o Sep \o B
           C == TrimLeft(A)
           t == C \o Sep \o B
<1>1. PICK k \in 0..Len(A) :
              /\ C \in Seq(Token) /\ Len(C) = Len(A) - k
              /\ \A i \in 1..Len(A)-k : C[i] = A[k+i]
              /\ \A i \in 1..k : A[i] \in Blanks
              /\ k < Len(A) => A[k+1] \notin Blanks
  BY LeftIs
<1>2. Len(A) \in Nat /\ Len(B) \in Nat
  BY TextIs
<1> HIDE DEF C
<1>3. /\ s \in Seq(Token) /\ Len(s) = Len(A) + 2 + Len(B)
      /\ \A i \in 1..Len(A) : s[i] = A[i]
      /\ s[Len(A) + 1] = "%" /\ s[Len(A) + 2] = "%"
      /\ \A i \in 1..Len(B) : s[Len(A) + 2 + i] = B[i]
  BY JoinIs
<1>4. /\ t \in Seq(Token) /\ Len(t) = Len(C) + 2 + Len(B)
      /\ \A i \in 1..Len(C) : t[i] = C[i]
      /\ t[Len(C) + 1] = "%" /\ t[Len(C) + 2] = "%"
      /\ \A i \in 1..Len(B) : t[Len(C) + 2 + i] = B[i]
  <2>1. C \in Seq(Token)
    BY <1>1
  <2> QED BY <2>1, JoinIs
<1> HIDE DEF s, t
<1>5. /\ k \in 0..Len(s) /\ k < Len(s) /\ \A i \in 1..k : s[i] \in Blanks
      /\ s[k+1] \notin Blanks
  <2>1. k \in 0..Len(s) /\ k < Len(s) /\ \A i \in 1..k : s[i] \in Blanks
    BY <1>1, <1>2, <1>3
  <2>2. CASE k < Len(A)
    <3>1. k + 1 \in 1..Len(A)
      BY <1>2, <2>2
    <3> QED BY <1>1, <1>3, <2>1, <2>2, <3>1
  <2>3. CASE ~ (k < Len(A))
    <3>1. k = Len(A)
      BY <1>2, <2>3
    <3>2. s[k+1] = "%"
      BY <1>3, <3>1
    <3> QED BY <2>1, <3>2 DEF Blanks
  <2> QED BY <2>2, <2>3
<1>6. Len(TrimLeft(s)) = Len(s) - k
  BY <1>3, <1>5, LeftOnly
<1>7. PICK m \in 0..Len(s) :
              /\ TrimLeft(s) \in Seq(Token) /\ Len(TrimLeft(s)) = Len(s) - m
              /\ \A i \in 1..Len(s)-m : TrimLeft(s)[i] = s[m+i]
  BY <1>3, LeftIs
<1>8. m = k /\ Len(TrimLeft(s)) = Len(t)
  BY <1>1, <1>2, <1>3, <1>4, <1>5, <1>6, <1>7
<1>9. ASSUME NEW i \in 1..Len(t) PROVE TrimLeft(s)[i] = t[i]
  <2>1. TrimLeft(s)[i] = s[k+i]
    BY <1>6, <1>7, <1>8
  <2>2. CASE i <= Len(C)
    <3>1. i \in 1..Len(C) /\ i \in 1..Len(A)-k /\ k + i \in 1..Len(A)
      BY <1>1, <1>2, <1>4, <2>2
    <3> QED BY <1>1, <1>3, <1>4, <2>1, <3>1
  <2>3. CASE i = Len(C) + 1
    <3>1. k + i = Len(A) + 1
      BY <1>1, <1>2, <2>3
    <3> QED BY <1>3, <1>4, <2>1, <2>3, <3>1
  <2>4. CASE i = Len(C) + 2
    <3>1. k + i = Len(A) + 2
      BY <1>1, <1>2, <2>4
    <3> QED BY <1>3, <1>4, <2>1, <2>4, <3>1
  <2>5. CASE i > Len(C) + 2
    <3> DEFINE j == i - (Len(C) + 2)
    <3>1. j \in 1..Len(B) /\ Len(C) + 2 + j = i /\ Len(A) + 2 + j = k + i
      BY <1>1, <1>2, <1>4, <2>5
    <3> HIDE DEF j
    <3> QED BY <1>3, <1>4, <2>1, <3>1
  <2>6. Len(C) \in Nat /\ i \in Int
    BY <1>1, <1>2
  <2> QED BY <2>2, <2>3, <2>4, <2>5, <2>6
<1>10. TrimLeft(s) = t
  BY <1>4, <1>7, <1>8, <1>9, SeqEqual
<1> QED BY <1>10 DEF s, t, C

\* Trimming at both ends does not reach a separator.
LEMMA BothJoin ==
    ASSUME NEW A \in Seq(Token), NEW B \in Seq(Token)
    PROVE  TrimBoth(A \o Sep \o B) = TrimLeft(A) \o Sep \o TrimRight(B)
<1> DEFINE C == TrimLeft(A)
<1>1. TrimLeft(A \o Sep \o B) = C \o Sep \o B
  BY LeftJoin
<1>2. C \in Seq(Token)
  BY LeftOf
<1> HIDE DEF C
<1>3. TrimRight(C \o Sep \o B) = C \o Sep \o TrimRight(B)
  BY <1>2, TrimJoin
<1> QED BY <1>1, <1>3 DEF TrimBoth, C

\* A word that is no blank is not trimmed.
LEMMA WordKept ==
    ASSUME NEW e \in {"TS", "HH", "mon", "repeat", "x"}
    PROVE  /\ TrimLeft(<<e>>) = <<e>> /\ TrimRight(<<e>>) = <<e>> /\ TrimBoth(<<e>>) = <<e>>
           /\ <<e>> \in Seq(Token) /\ SepFree(<<e>>) /\ ~ HasSep(<<e>>) /\ Len(<<e>>) = 1
           /\ <<e>>[1] = e /\ <<e>> # <<>>
<1> DEFINE w == <<e>>
<1>1. /\ w \in Seq(Token) /\ Len(w) = 1 /\ w[1] = e /\ w # <<>> /\ ~ HasSep(w)
      /\ SepFree(w) /\ TrimRight(w) = w /\ e \notin Blanks
  BY WordsAre, WordIs
<1> HIDE DEF w
<1>2. TrimLeft(w) = w
  BY <1>1, LeftOf
<1>3. TrimBoth(w) = w
  BY <1>1, <1>2 DEF TrimBoth
<1> QED BY <1>1, <1>2, <1>3 DEF w

\* The first form gives a plain row.
LEMMA EnteredFirst ==
    ASSUME NEW r \in FieldRow, Plain(r)
    PROVE  Entered(<<"HH">> \o Sep \o (r.task \o Sep \o LastField(r))) = <<r>>
<1> DEFINE w == <<"HH">>
           Y == r.task \o Sep \o LastField(r)
           D == TrimRight(Y)
           s == w \o Sep \o Y
<1>1. /\ w \in Seq(Token) /\ SepFree(w) /\ TrimLeft(w) = w /\ Len(w) = 1 /\ w[1] = "HH"
  BY WordKept
<1>2. Y \in Seq(Token) /\ D \in Seq(Token)
  <2>1. r.task \in Seq(Token) /\ LastField(r) \in Seq(Token)
    BY FieldsAre, LastIs
  <2>2. Y \in Seq(Token)
    BY <2>1, JoinIs
  <2> HIDE DEF Y
  <2> QED BY <2>2, TrimIs
<1>3. ParseTriplet(s) = <<r>>
  BY PlainGives
<1>4. w # <<"mon">>
  <2>1. <<"mon">>[1] = "mon"
    OBVIOUS
  <2> QED BY <1>1, <2>1
<1> HIDE DEF w, Y
<1>5. TrimBoth(s) = w \o Sep \o D /\ TrimRight(s) = w \o Sep \o D
  BY <1>1, <1>2, BothJoin, TrimJoin
<1> HIDE DEF D
<1>6. /\ Before(w \o Sep \o D) = w /\ w \o Sep \o D \in Seq(Token)
      /\ (w \o Sep \o D)[1] = "HH" /\ Len(w \o Sep \o D) = 3 + Len(D) /\ Len(D) \in Nat
  <2>1. Before(w \o Sep \o D) = w
    BY <1>1, <1>2, SepJoin
  <2>2. /\ w \o Sep \o D \in Seq(Token) /\ Len(w \o Sep \o D) = Len(w) + 2 + Len(D)
        /\ \A i \in 1..Len(w) : (w \o Sep \o D)[i] = w[i]
    BY <1>1, <1>2, JoinIs
  <2>3. Len(D) \in Nat
    BY <1>2, TextIs
  <2> QED BY <1>1, <2>1, <2>2, <2>3
<1> HIDE DEF s
<1>7. ~ IsWeekdayExpr(s)
  BY <1>4, <1>5, <1>6 DEF IsWeekdayExpr
<1>8. ~ IsMultiTriplet(s)
  <2> DEFINE u == w \o Sep \o D
  <2>1. u \in Seq(Token) /\ Len(u) > 0 /\ u[1] = "HH"
    BY <1>6
  <2>2. TrimRight(s) = u
    BY <1>5
  <2> HIDE DEF u
  <2>3. u # <<>>
    BY <2>1, TextIs
  <2> QED BY <2>1, <2>2, <2>3 DEF IsMultiTriplet, StartsWith
<1>9. Entered(s) = ParseTriplet(s)
  BY <1>7, <1>8 DEF Entered
<1> QED BY <1>3, <1>9 DEF s, w, Y

\* The weekday form gives a plain row that is weekly exactly if there are no
\* blanks before its fields.
LEMMA EnteredThird ==
    ASSUME NEW r \in FieldRow, Plain(r), r.does_repeat
    PROVE  Entered(<<"mon">> \o Sep \o (<<"HH">> \o Sep \o (r.task \o Sep \o r.comment))) = <<r>>
              <=> TrimLeft(r.task) = r.task /\ TrimLeft(r.comment) = r.comment
<1> DEFINE d == <<"mon">>
           w == <<"HH">>
           t == r.task
           c == r.comment
           named == t \o Sep \o c
           rest == w \o Sep \o named
           s == d \o Sep \o rest
<1>1. /\ SepFree(t) /\ Tight(t) /\ Tight(c) /\ t \in Seq(Token) /\ c \in Seq(Token)
      /\ Len(t) <= FieldLen /\ Len(c) <= FieldLen
  BY PlainIs, FieldsAre DEF Plain, OneLine
<1>2. /\ d \in Seq(Token) /\ SepFree(d) /\ TrimLeft(d) = d
      /\ w \in Seq(Token) /\ SepFree(w) /\ TrimBoth(w) = w /\ w[1] = "HH" /\ w # <<>>
  BY WordKept
<1>3. ASSUME NEW a, NEW b PROVE <<TextRow(a, b, TRUE)>> = <<r>> <=> a = t /\ b = c
  <2>1. r.does_repeat = TRUE /\ r = TextRow(t, c, r.does_repeat)
    BY FieldsAre DEF TextRow, FieldRow
  <2>2. r = TextRow(t, c, TRUE)
    BY <2>1
  <2>3. TextRow(a, b, TRUE) = TextRow(t, c, TRUE) <=> a = t /\ b = c
    BY DEF TextRow
  <2> QED BY <2>2, <2>3
<1> HIDE DEF t, c, w
<1>4. /\ named \in Seq(Token) /\ TrimRight(named) = named
      /\ HasSep(named) /\ Before(named) = t /\ After(named) = c
  <2>1. TrimRight(c) = c
    BY <1>1, TrimWhole
  <2>2. TrimRight(named) = t \o Sep \o TrimRight(c)
    BY <1>1, TrimJoin
  <2>3. named \in Seq(Token)
    BY <1>1, JoinIs
  <2>4. HasSep(named) /\ Before(named) = t /\ After(named) = c
    BY <1>1, SepJoin
  <2> QED BY <2>1, <2>2, <2>3, <2>4
<1> HIDE DEF named
<1>5. /\ rest \in Seq(Token) /\ TrimRight(rest) = rest
      /\ HasSep(rest) /\ Before(rest) = w /\ After(rest) = named
  <2>1. TrimRight(rest) = w \o Sep \o TrimRight(named)
    BY <1>2, <1>4, TrimJoin
  <2>2. rest \in Seq(Token)
    BY <1>2, <1>4, JoinIs
  <2>3. HasSep(rest) /\ Before(rest) = w /\ After(rest) = named
    BY <1>2, <1>4, SepJoin
  <2> QED BY <1>4, <2>1, <2>2, <2>3
<1> HIDE DEF rest
<1>6. TrimBoth(s) = s /\ HasSep(s) /\ Before(s) = <<"mon">> /\ After(s) = rest
  <2> HIDE DEF d
  <2>1. TrimBoth(s) = TrimLeft(d) \o Sep \o TrimRight(rest)
    BY <1>2, <1>5, BothJoin
  <2>2. HasSep(s) /\ Before(s) = d /\ After(s) = rest
    BY <1>2, <1>5, SepJoin
  <2> QED BY <1>2, <1>5, <2>1, <2>2 DEF d
<1> HIDE DEF s
<1>7. IsWeekdayExpr(s)
  BY <1>4, <1>5, <1>6 DEF IsWeekdayExpr
<1>8. Entered(s) = <<TextRow(Cut(TrimBoth(t)), Cut(TrimBoth(c)), TRUE)>>
  <2>1. StartsWith(TrimBoth(Before(rest)), {"HH"})
    BY <1>2, <1>5 DEF StartsWith
  <2> QED BY <1>4, <1>5, <1>6, <1>7, <2>1 DEF Entered, ExpandedRow
<1>9. Cut(TrimBoth(t)) = TrimLeft(t) /\ Cut(TrimBoth(c)) = TrimLeft(c)
  <2>1. ASSUME NEW f \in Seq(Token), Tight(f), Len(f) <= FieldLen
        PROVE  Cut(TrimBoth(f)) = TrimLeft(f)
    <3> DEFINE u == TrimLeft(f)
    <3>1. u \in Seq(Token) /\ Len(u) \in 0..Len(f) /\ Tight(u) /\ Len(f) \in Nat
      BY <2>1, LeftOf, TextIs
    <3>2. TrimBoth(f) = TrimRight(u)
      BY DEF TrimBoth
    <3>3. Len(u) <= FieldLen
      BY <2>1, <3>1, FieldLenAssumption
    <3> HIDE DEF u
    <3>4. Cut(TrimRight(u)) = u
      BY <3>1, <3>3, KeptOf
    <3> QED BY <3>2, <3>4 DEF u
  <2> QED BY <1>1, <2>1
<1>10. Entered(s) = <<r>> <=> TrimLeft(t) = t /\ TrimLeft(c) = c
  BY <1>3, <1>8, <1>9
<1> QED BY <1>10 DEF s, rest, named, d, w, t, c

\* Two texts of one element.
LEMMA SingleIs ==
    ASSUME NEW a, NEW b
    PROVE  <<a>> # <<>> /\ (<<a>> = <<b>> => a = b)
<1>1. Len(<<a>>) = 1 /\ Len(<<>>) = 0
  OBVIOUS
<1>2. <<a>>[1] = a /\ <<b>>[1] = b
  OBVIOUS
<1> QED BY <1>1, <1>2

\* The first token of a text of two parts.
LEMMA FirstToken ==
    ASSUME NEW A \in Seq(Token), NEW B \in Seq(Token)
    PROVE  /\ A \o Sep \o B # <<>>
           /\ (A \o Sep \o B)[1] = IF A = <<>> THEN "%" ELSE A[1]
<1>1. /\ A \o Sep \o B \in Seq(Token) /\ Len(A \o Sep \o B) = Len(A) + 2 + Len(B)
      /\ \A i \in 1..Len(A) : (A \o Sep \o B)[i] = A[i]
      /\ (A \o Sep \o B)[Len(A) + 1] = "%"
  BY JoinIs
<1>2. Len(A) \in Nat /\ Len(B) \in Nat /\ (A # <<>> => Len(A) > 0) /\ (A = <<>> => Len(A) = 0)
  BY TextIs
<1>3. A \o Sep \o B # <<>>
  <2> DEFINE s == A \o Sep \o B
  <2>1. s \in Seq(Token) /\ Len(s) > 0
    BY <1>1, <1>2
  <2> HIDE DEF s
  <2> QED BY <2>1, TextIs DEF s
<1>4. CASE A = <<>>
  BY <1>1, <1>2, <1>3, <1>4
<1>5. CASE A # <<>>
  <2>1. 1 \in 1..Len(A)
    BY <1>2, <1>5
  <2> QED BY <1>1, <1>3, <1>5, <2>1
<1> QED BY <1>4, <1>5

\* A field that is a stamp begins with one, or with a blank.
LEMMA ShortStamp ==
    ASSUME NEW t \in Seq(Token), IsStamp(t), Len(t) <= 1
    PROVE  StartsWith(t, {"HH", "TS"})
<1>1. CASE StartsWith(t, {"HH"})
  BY <1>1 DEF StartsWith
<1>2. CASE StartsWith(TrimLeft(t), {"TS"})
  <2> DEFINE u == TrimLeft(t)
  <2>1. PICK k \in 0..Len(t) :
              /\ u \in Seq(Token) /\ Len(u) = Len(t) - k
              /\ \A i \in 1..Len(t)-k : u[i] = t[k+i]
    BY LeftIs
  <2>2. u # <<>> /\ u[1] = "TS"
    BY <1>2 DEF StartsWith
  <2> HIDE DEF u
  <2>3. Len(u) > 0 /\ Len(t) \in Nat
    BY <2>1, <2>2, TextIs
  <2>4. Len(t) = 1 /\ k = 0
    BY <2>1, <2>3
  <2>5. t # <<>> /\ t[1] = "TS"
    BY <2>1, <2>2, <2>4, TextIs
  <2> QED BY <2>5 DEF StartsWith
<1> QED BY <1>1, <1>2 DEF IsStamp

\* The third field of the second form begins with a stamp.
LEMMA MultiIs ==
    ASSUME NEW s \in Seq(Token), HasSep(TrimRight(s)), HasSep(After(TrimRight(s))),
           ~ StartsWith(TrimRight(s), {"HH", "TS"}),
           After(After(TrimRight(s))) \in Seq(Token),
           After(After(TrimRight(s))) # <<>>, After(After(TrimRight(s)))[1] = "HH"
    PROVE  IsMultiTriplet(s)
<1> DEFINE third == After(After(TrimRight(s)))
           I == {i \in 1..Len(third) : third[i] # " "}
           word == IF I # {} THEN Min(I) ELSE 0
<1>1. third \in Seq(Token) /\ third # <<>> /\ third[1] = "HH"
  OBVIOUS
<1>2. IsMultiTriplet(s) <=> word # 0 /\ third[word] \in {"HH", "TS"}
  BY DEF IsMultiTriplet, SelectInSeq
<1> HIDE DEF third
<1>3. Len(third) \in Nat /\ Len(third) > 0
  BY <1>1, TextIs
<1>4. 1 \in I /\ \A i \in I : i \in Int /\ 1 <= i
  <2>1. 1 \in 1..Len(third) /\ third[1] # " "
    BY <1>1, <1>3
  <2>2. 1 \in I
    BY <2>1
  <2>3. ASSUME NEW i \in I PROVE i \in Int /\ 1 <= i
    <3>1. i \in 1..Len(third)
      OBVIOUS
    <3> HIDE DEF I
    <3>2. \A j \in 1..Len(third) : j \in Int /\ 1 <= j
      BY ONLY <1>3, SMT
    <3> QED BY ONLY <3>1, <3>2, Zenon
  <2> QED BY <2>2, <2>3
<1> HIDE DEF I
<1>5. Min(I) = 1
  <2>1. \E m \in I : \A i \in I : m <= i
    BY <1>4
  <2>2. Min(I) \in I /\ \A i \in I : Min(I) <= i
    BY <2>1 DEF Min
  <2>3. Min(I) \in Int /\ 1 <= Min(I) /\ Min(I) <= 1
    BY <1>4, <2>2
  <2> QED BY <2>3
<1>6. word = 1
  BY <1>4, <1>5
<1> QED BY <1>1, <1>2, <1>6

\* What is typed after a separator in the second form.
TypedTime(r) == IF r.does_repeat THEN <<"HH">> \o Sep \o <<"repeat">> ELSE <<"HH">>

\* The stamp and the repetition at the end.
LEMMA StampIs ==
    ASSUME NEW r \in FieldRow
    PROVE  /\ TypedTime(r) \in Seq(Token) /\ TrimRight(TypedTime(r)) = TypedTime(r)
           /\ HasSep(TypedTime(r)) = r.does_repeat /\ Repeats(TypedTime(r)) = r.does_repeat
           /\ Body(TypedTime(r)) = <<"HH">> /\ TypedTime(r) # <<>> /\ TypedTime(r)[1] = "HH"
           /\ ~ r.does_repeat => Len(TypedTime(r)) = 1
           /\ r.does_repeat => Before(TypedTime(r)) = <<"HH">>
<1> DEFINE w == <<"HH">>
           x == <<"repeat">>
           X == w \o Sep \o x
<1>1. /\ w \in Seq(Token) /\ SepFree(w) /\ ~ HasSep(w) /\ TrimRight(w) = w /\ Len(w) = 1
      /\ w[1] = "HH" /\ w # <<>> /\ x \in Seq(Token) /\ TrimRight(x) = x
  BY WordKept
<1>2. r.does_repeat \in BOOLEAN
  BY FieldsAre
<1>3. Repeats(X) /\ Body(X) = w
  BY <1>1, RepeatsIs
<1>4. TypedTime(r) = IF r.does_repeat THEN X ELSE w
  BY DEF TypedTime
<1> HIDE DEF w, x
<1>5. X \in Seq(Token) /\ TrimRight(X) = X
  <2>1. w \in Seq(Token) /\ x \in Seq(Token)
    BY <1>1
  <2>2. w \o Sep \o x \in Seq(Token)
    BY <2>1, JoinIs
  <2>3. TrimRight(w \o Sep \o x) = w \o Sep \o TrimRight(x)
    BY <2>1, TrimJoin
  <2> QED BY <1>1, <2>2, <2>3
<1>6. HasSep(X) /\ Before(X) = w
  BY <1>1, SepJoin
<1>7. X # <<>> /\ X[1] = "HH"
  BY <1>1, FirstToken
<1> HIDE DEF X
<1>8. HasSep(X) = TRUE /\ Repeats(X) = TRUE
  <2>1. HasSep(X) \in BOOLEAN /\ Repeats(X) \in BOOLEAN
    BY DEF HasSep, Repeats
  <2> QED BY <1>3, <1>6, <2>1
<1>9. HasSep(w) = FALSE /\ Repeats(w) = FALSE /\ Body(w) = w
  <2>1. HasSep(w) \in BOOLEAN /\ Repeats(w) \in BOOLEAN /\ ~ Repeats(w)
    BY <1>1 DEF HasSep, Repeats
  <2> QED BY <1>1, <2>1 DEF Body
<1>10. CASE r.does_repeat
  <2>1. TypedTime(r) = X /\ r.does_repeat = TRUE
    BY <1>2, <1>4, <1>10
  <2> QED BY <1>3, <1>5, <1>6, <1>7, <1>8, <2>1 DEF w
<1>11. CASE ~ r.does_repeat
  <2>1. TypedTime(r) = w /\ r.does_repeat = FALSE
    BY <1>2, <1>4, <1>11
  <2> QED BY <1>1, <1>9, <2>1 DEF w
<1> QED BY <1>10, <1>11

\* The second form gives a plain row exactly if its comment may stand before a
\* separator and its task is no weekday with a repetition.
LEMMA EnteredSecond ==
    ASSUME NEW r \in FieldRow, Plain(r), ~ StartsWith(r.task, {"HH", "TS"})
    PROVE  Entered(r.task \o Sep \o (r.comment \o Sep \o TypedTime(r))) = <<r>>
              <=> SepFree(r.comment) /\ ~ (r.does_repeat /\ TrimLeft(r.task) = <<"mon">>)
<1> DEFINE t == r.task
           c == r.comment
           H == TypedTime(r)
           Y == c \o Sep \o H
           s == t \o Sep \o Y
           l == TrimLeft(t)
           P == Before(Y)
           Q == After(Y)
<1>1. /\ SepFree(t) /\ Tight(t) /\ Tight(c) /\ t \in Seq(Token) /\ c \in Seq(Token)
      /\ Len(t) <= FieldLen /\ Len(c) <= FieldLen /\ r.does_repeat \in BOOLEAN
      /\ r.does_repeat => SepFree(c)
  BY PlainIs, FieldsAre DEF Plain, OneLine
<1>2. /\ H \in Seq(Token) /\ TrimRight(H) = H
      /\ HasSep(H) = r.does_repeat /\ Repeats(H) = r.does_repeat
      /\ Body(H) = <<"HH">> /\ H # <<>> /\ H[1] = "HH"
      /\ ~ r.does_repeat => Len(H) = 1
      /\ r.does_repeat => Before(H) = <<"HH">>
  BY StampIs
<1>3. ~ StartsWith(t, {"HH", "TS"}) /\ t = r.task /\ c = r.comment
  OBVIOUS
<1> HIDE DEF t, c, H
<1>4. Y \in Seq(Token) /\ TrimRight(Y) = Y /\ HasSep(Y) /\ Len(P) <= Len(c)
      /\ Len(Y) = Len(c) + 2 + Len(H) /\ (SepFree(c) => P = c /\ Q = H)
  <2>1. Y \in Seq(Token) /\ Len(Y) = Len(c) + 2 + Len(H)
    BY <1>1, <1>2, JoinIs
  <2>2. TrimRight(Y) = c \o Sep \o TrimRight(H)
    BY <1>1, <1>2, TrimJoin
  <2>3. HasSep(Y) /\ Len(P) <= Len(c)
    BY <1>1, <1>2, FirstPart
  <2>4. SepFree(c) => P = c /\ Q = H
    BY <1>1, <1>2, SepJoin
  <2> QED BY <1>2, <2>1, <2>2, <2>3, <2>4
<1> HIDE DEF Y
<1>5. P \in Seq(Token) /\ Q \in Seq(Token) /\ SepFree(P) /\ Y = P \o Sep \o Q
  BY <1>4, SepSplit
<1>6. Len(P) + Len(Q) = Len(c) + Len(H) /\ Len(P) \in Nat /\ Len(Q) \in Nat
      /\ Len(c) \in Nat /\ Len(H) \in Nat
  <2> HIDE DEF P, Q
  <2>1. Len(P \o Sep \o Q) = Len(P) + 2 + Len(Q)
    BY <1>5, JoinIs
  <2>2. Len(P) \in Nat /\ Len(Q) \in Nat /\ Len(c) \in Nat /\ Len(H) \in Nat
    BY <1>1, <1>2, <1>5, TextIs
  <2>3. Len(Y) = Len(P) + 2 + Len(Q)
    BY <1>5, <2>1
  <2>4. Len(Y) = Len(c) + 2 + Len(H)
    BY <1>4
  <2> QED BY <2>2, <2>3, <2>4
<1>7. TrimRight(s) = s /\ HasSep(s) /\ Before(s) = t /\ After(s) = Y
  <2>1. TrimRight(s) = t \o Sep \o TrimRight(Y)
    BY <1>1, <1>4, TrimJoin
  <2>2. HasSep(s) /\ Before(s) = t /\ After(s) = Y
    BY <1>1, <1>4, SepJoin
  <2> QED BY <1>4, <2>1, <2>2
<1>8. l \in Seq(Token) /\ SepFree(l)
  BY <1>1, LeftOf
<1>9. HasSep(TrimBoth(s)) /\ Before(TrimBoth(s)) = l /\ After(TrimBoth(s)) = Y
  <2>1. TrimBoth(s) = l \o Sep \o TrimRight(Y)
    BY <1>1, <1>4, BothJoin
  <2> HIDE DEF l, s
  <2>2. TrimBoth(s) = l \o Sep \o Y
    BY <1>4, <2>1
  <2>3. HasSep(l \o Sep \o Y) /\ Before(l \o Sep \o Y) = l /\ After(l \o Sep \o Y) = Y
    BY <1>4, <1>8, SepJoin
  <2> QED BY <2>2, <2>3
<1>10. ~ StartsWith(s, {"HH", "TS"})
  <2>1. s # <<>> /\ s[1] = IF t = <<>> THEN "%" ELSE t[1]
    BY <1>1, <1>4, FirstToken
  <2> QED BY <1>3, <2>1 DEF StartsWith
<1> HIDE DEF s, l, P, Q
<1>11. IsWeekdayExpr(s) <=> HasSep(Q) /\ l = <<"mon">>
  BY <1>4, <1>9 DEF IsWeekdayExpr, Q
<1>12. CASE SepFree(c) /\ r.does_repeat /\ l = <<"mon">>
  <2>1. P = c /\ Q = H /\ IsWeekdayExpr(s) /\ Before(Q) = <<"HH">>
    BY <1>2, <1>4, <1>11, <1>12
  <2>2. Entered(s) = <<>> \/ \E b : Entered(s) = <<TextRow(Cut(TrimBoth(Before(Q))), b, TRUE)>>
    BY <1>9, <2>1 DEF Entered, ExpandedRow, Unreadable, Q
  <2>3. Cut(TrimBoth(<<"HH">>)) = <<"HH">> /\ <<"HH">> # <<>> /\ <<"HH">>[1] = "HH"
    <3> DEFINE w == <<"HH">>
    <3>1. w \in Seq(Token) /\ TrimBoth(w) = w /\ Len(w) = 1 /\ w # <<>> /\ w[1] = "HH"
      BY WordKept
    <3> HIDE DEF w
    <3>2. Len(w) <= FieldLen
      BY <3>1, FieldLenAssumption
    <3> QED BY <3>1, <3>2, CutIs DEF w
  <2>4. t # <<"HH">>
    BY <1>3, <2>3 DEF StartsWith
  <2>5. Entered(s) # <<r>>
    <3>1. SUFFICES ASSUME Entered(s) = <<r>> PROVE FALSE
      OBVIOUS
    <3>2. Entered(s) # <<>>
      BY <3>1, SingleIs
    <3>3. PICK b : Entered(s) = <<TextRow(Cut(TrimBoth(Before(Q))), b, TRUE)>>
      BY ONLY <2>2, <3>2, Zenon
    <3>4. <<r>> = <<TextRow(Cut(TrimBoth(Before(Q))), b, TRUE)>>
      BY ONLY <3>1, <3>3, Zenon
    <3>5. r = TextRow(Cut(TrimBoth(Before(Q))), b, TRUE)
      BY ONLY <3>4, SingleIs, Zenon
    <3>6. t = Cut(TrimBoth(Before(Q)))
      BY <1>3, <3>5 DEF TextRow
    <3> QED BY <2>1, <2>3, <2>4, <3>6
  <2> QED BY <1>12, <2>5 DEF s, Y, H, t, c, l
<1>13. CASE SepFree(c) /\ ~ (r.does_repeat /\ l = <<"mon">>)
  <2>1. P = c /\ Q = H /\ ~ IsWeekdayExpr(s)
    BY <1>2, <1>4, <1>11, <1>13
  <2>3. IsMultiTriplet(s)
    <3>1. s \in Seq(Token)
      BY <1>1, <1>4, JoinIs DEF s
    <3>2. After(After(TrimRight(s))) = H
      BY <1>7, <2>1 DEF Q
    <3> QED BY <1>2, <1>4, <1>7, <1>10, <3>1, <3>2, MultiIs
  <2>4. IsStamp(TrimRight(Body(H)))
    <3>1. TrimRight(<<"HH">>) = <<"HH">> /\ <<"HH">> # <<>> /\ <<"HH">>[1] = "HH"
      BY WordKept
    <3> QED BY <1>2, <3>1 DEF IsStamp, StartsWith
  <2>5. Entered(s) = <<TextRow(TrimRight(Cut(t)), Cut(TrimRight(c)), Repeats(H))>>
    BY <1>2, <1>7, <2>1, <2>3, <2>4 DEF Entered, ParseMultiTriplet, P, Q
  <2>6. TrimRight(Cut(t)) = t /\ Cut(TrimRight(c)) = c
    BY <1>1, CutIs, TrimWhole, KeptOf
  <2>7. r = TextRow(t, c, r.does_repeat)
    BY <1>3 DEF FieldRow, TextRow
  <2>8. Entered(s) = <<r>>
    BY <1>2, <2>5, <2>6, <2>7
  <2> QED BY <1>13, <2>8 DEF s, Y, H, t, c, l
<1>14. CASE ~ SepFree(c)
  <2>1. ~ r.does_repeat /\ Len(H) = 1
    BY <1>1, <1>2, <1>14
  <2>2. ASSUME Entered(s) = <<r>> PROVE FALSE
    <3>0. Entered(s) # <<>>
      BY <2>2, SingleIs
    <3>1. CASE IsWeekdayExpr(s)
      <4>1. Entered(s) = <<>> \/ \E a, b : Entered(s) = <<TextRow(a, b, TRUE)>>
        BY <3>1 DEF Entered, ExpandedRow, Unreadable
      <4>2. PICK a, b : Entered(s) = <<TextRow(a, b, TRUE)>>
        BY ONLY <3>0, <4>1, Zenon
      <4>3. <<r>> = <<TextRow(a, b, TRUE)>>
        BY ONLY <2>2, <4>2, Zenon
      <4>4. r = TextRow(a, b, TRUE)
        BY ONLY <4>3, SingleIs, Zenon
      <4> QED BY <2>1, <4>4 DEF TextRow
    <3>2. CASE ~ IsWeekdayExpr(s) /\ IsMultiTriplet(s)
      <4>1. Entered(s) = <<>> \/ \E a, f : Entered(s) = <<TextRow(a, Cut(TrimRight(P)), f)>>
        BY <1>7, <3>2 DEF Entered, ParseMultiTriplet, Unreadable, P
      <4>2. PICK a, f : Entered(s) = <<TextRow(a, Cut(TrimRight(P)), f)>>
        BY ONLY <3>0, <4>1, Zenon
      <4>5. <<r>> = <<TextRow(a, Cut(TrimRight(P)), f)>>
        BY ONLY <2>2, <4>2, Zenon
      <4>6. r = TextRow(a, Cut(TrimRight(P)), f)
        BY ONLY <4>5, SingleIs, Zenon
      <4>3. c = Cut(TrimRight(P))
        BY <1>3, <4>6 DEF TextRow
      <4>4. P = c
        BY <1>1, <1>4, <1>5, <4>3, KeptWhole
      <4> QED BY <1>5, <1>14, <4>4
    <3>3. CASE ~ IsWeekdayExpr(s) /\ ~ IsMultiTriplet(s)
      <4>1. Entered(s) = ParseTriplet(s)
        BY <3>3 DEF Entered
      <4>2. TrimRight(t) = t
        BY <1>1, TrimWhole
      <4>3. IsStamp(t) /\ r = TextRow(Cut(TrimRight(P)), Cut(TrimRight(Body(Q))), Repeats(Q))
        <5>1. ParseTriplet(s) # <<>>
          BY <3>0, <4>1
        <5>2. IsStamp(TrimRight(Before(s)))
          BY <1>7, <5>1 DEF ParseTriplet, Unreadable
        <5>3. ParseTriplet(s) = <<TextRow(Cut(TrimRight(P)), Cut(TrimRight(Body(Q))), Repeats(Q))>>
          BY <1>4, <1>7, <5>2 DEF ParseTriplet, P, Q
        <5>4. <<r>> = <<TextRow(Cut(TrimRight(P)), Cut(TrimRight(Body(Q))), Repeats(Q))>>
          BY ONLY <2>2, <4>1, <5>3, Zenon
        <5>5. r = TextRow(Cut(TrimRight(P)), Cut(TrimRight(Body(Q))), Repeats(Q))
          BY ONLY <5>4, SingleIs, Zenon
        <5> QED BY <1>7, <4>2, <5>2, <5>5
      <4>4. t = Cut(TrimRight(P)) /\ c = Cut(TrimRight(Body(Q))) /\ r.does_repeat = Repeats(Q)
        BY <1>3, <4>3 DEF TextRow
      <4>5. c = Cut(TrimRight(Q))
        BY <2>1, <4>4 DEF Body
      <4>6. Len(Cut(TrimRight(P))) \in 0..Len(P) /\ Len(Cut(TrimRight(Q))) \in 0..Len(Q)
        BY <1>5, KeptOf
      <4>7. Len(t) <= 1
        BY <1>6, <2>1, <4>4, <4>5, <4>6
      <4> QED BY <1>1, <1>3, <4>3, <4>7, ShortStamp
    <3> QED BY <3>1, <3>2, <3>3
  <2> QED BY <1>14, <2>2 DEF s, Y, H, t, c, l
<1> QED BY <1>12, <1>13, <1>14

-----------------------------------------------------------------------------
(* What is typed                                                           *)

\* What is typed at the end belongs to the text before it.
LEMMA TailIs ==
    ASSUME NEW u \in Seq(Token), NEW t \in Seq(Token), NEW c \in Seq(Token), NEW K \in Seq(Token)
    PROVE  u \o t \o Sep \o c \o K = u \o (t \o Sep \o (c \o K))
<1> DEFINE v == u \o t \o Sep
           Z == c \o K
<1>1. Z \in Seq(Token)
  BY ConcatProperties
<1>2. v \in Seq(Token)
  <2>1. (u \o t) \in Seq(Token)
    BY ConcatProperties
  <2> QED BY <2>1, SepIs, ConcatProperties
<1>3. (v \o c) \o K = v \o (c \o K)
  <2>1. v \in Seq(Token) /\ c \in Seq(Token) /\ K \in Seq(Token)
    BY <1>2
  <2> HIDE DEF v
  <2> QED BY ONLY <2>1, GroupIs, ZenonT(60)
<1>4. v \o Z = u \o (t \o Sep \o Z)
  <2>1. u \in Seq(Token) /\ t \in Seq(Token) /\ Z \in Seq(Token)
    BY <1>1
  <2> HIDE DEF Z
  <2> QED BY ONLY <2>1, Regroup, ZenonT(60)
<1> QED BY <1>3, <1>4

\* The repetition, or none.
LEMMA TokenIs ==
    ASSUME NEW c \in Seq(Token), NEW f \in BOOLEAN, NEW K,
           K = IF f THEN Sep \o <<"repeat">> ELSE <<>>
    PROVE  K \in Seq(Token) /\ c \o K = IF f THEN c \o Sep \o <<"repeat">> ELSE c
<1> DEFINE x == <<"repeat">>
<1>1. x \in Seq(Token) /\ Sep \in Seq(Token)
  BY WordKept, SepIs
<1> HIDE DEF x
<1>2. (Sep \o x) \in Seq(Token)
  BY <1>1, ConcatProperties
<1>3. (c \o Sep) \o x = c \o (Sep \o x)
  <2>1. c \in Seq(Token) /\ Sep \in Seq(Token) /\ x \in Seq(Token)
    BY <1>1
  <2> QED BY ONLY <2>1, GroupIs, ZenonT(60)
<1>4. c \o <<>> = c /\ <<>> \in Seq(Token)
  BY ConcatEmptySeq, EmptySeq
<1> QED BY <1>2, <1>3, <1>4 DEF x

\* The three forms of a plain row.
LEMMA FormsOf ==
    ASSUME NEW r \in FieldRow, Plain(r)
    PROVE  LET token == IF r.does_repeat THEN Sep \o <<"repeat">> ELSE <<>>
               fit   == ~ HasSep(r.comment) /\ ~ EndsIn(r.comment, {"%"})
           IN  /\ Entered(<<"HH">> \o Sep \o r.task \o Sep \o r.comment \o token) = <<r>>
               /\ ~ StartsWith(r.task, {"HH", "TS"}) =>
                     (Entered(r.task \o Sep \o r.comment \o Sep \o <<"HH">> \o token) = <<r>>
                         <=> fit /\ ~ (r.does_repeat /\ TrimLeft(r.task) = <<"mon">>))
               /\ r.does_repeat =>
                     (Entered(<<"mon">> \o Sep \o <<"HH">> \o Sep
                                 \o r.task \o Sep \o r.comment) = <<r>>
                         <=> TrimLeft(r.task) = r.task /\ TrimLeft(r.comment) = r.comment)
<1> DEFINE t == r.task
           c == r.comment
           f == r.does_repeat
           x == <<"repeat">>
           w == <<"HH">>
           d == <<"mon">>
           K == IF f THEN Sep \o x ELSE <<>>
<1>1. /\ t \in Seq(Token) /\ c \in Seq(Token) /\ f \in BOOLEAN /\ x \in Seq(Token)
      /\ w \in Seq(Token) /\ d \in Seq(Token) /\ Sep \in Seq(Token)
  BY FieldsAre, WordKept, SepIs
<1>2. K \in Seq(Token) /\ c \o K = LastField(r) /\ w \o K = TypedTime(r)
  <2> HIDE DEF K, w
  <2>1. K = IF f THEN Sep \o <<"repeat">> ELSE <<>>
    BY DEF K
  <2>2. K \in Seq(Token) /\ c \o K = IF f THEN c \o Sep \o <<"repeat">> ELSE c
    BY <1>1, <2>1, TokenIs
  <2>3. w \o K = IF f THEN w \o Sep \o <<"repeat">> ELSE w
    BY <1>1, <2>1, TokenIs
  <2> QED BY <2>2, <2>3 DEF LastField, TypedTime, w
<1> HIDE DEF K
<1>3. Entered(w \o Sep \o t \o Sep \o c \o K) = <<r>>
  <2> DEFINE u == w \o Sep
  <2>1. u \o t \o Sep \o c \o K = u \o (t \o Sep \o (c \o K))
    <3>1. u \in Seq(Token)
      BY <1>1, ConcatProperties
    <3>2. t \in Seq(Token) /\ c \in Seq(Token) /\ K \in Seq(Token)
      BY <1>1, <1>2
    <3> HIDE DEF u, t, c, f, x, w, d
    <3>3. u \o t \o Sep \o c \o K = u \o (t \o Sep \o (c \o K))
      <4>1. \A a, b, g, h \in Seq(Token) : a \o b \o Sep \o g \o h = a \o (b \o Sep \o (g \o h))
        BY ONLY TailIs, Zenon
      <4>2. \A g, h \in Seq(Token) : u \o t \o Sep \o g \o h = u \o (t \o Sep \o (g \o h))
        BY ONLY <3>1, <3>2, <4>1, ZenonT(60)
      <4> QED BY ONLY <3>2, <4>2, Zenon
    <3> QED BY ONLY <3>3
  <2>2. Entered(w \o Sep \o (t \o Sep \o LastField(r))) = <<r>>
    BY EnteredFirst
  <2> QED BY <1>2, <2>1, <2>2
<1>4. ASSUME ~ StartsWith(t, {"HH", "TS"})
      PROVE  Entered(t \o Sep \o c \o Sep \o w \o K) = <<r>>
                <=> SepFree(c) /\ ~ (f /\ TrimLeft(t) = d)
  <2> DEFINE u == t \o Sep
             y == u \o c \o Sep \o w \o K
  <2>1. y = u \o (c \o Sep \o (w \o K))
    <3>1. u \in Seq(Token)
      BY <1>1, ConcatProperties
    <3>2. w \in Seq(Token) /\ c \in Seq(Token) /\ K \in Seq(Token)
      BY <1>1, <1>2
    <3> HIDE DEF u, t, c, f, x, w, d
    <3>3. u \o c \o Sep \o w \o K = u \o (c \o Sep \o (w \o K))
      <4>1. \A a, b, g, h \in Seq(Token) : a \o b \o Sep \o g \o h = a \o (b \o Sep \o (g \o h))
        BY ONLY TailIs, Zenon
      <4>2. \A g, h \in Seq(Token) : u \o c \o Sep \o g \o h = u \o (c \o Sep \o (g \o h))
        BY ONLY <3>1, <3>2, <4>1, ZenonT(60)
      <4> QED BY ONLY <3>2, <4>2, Zenon
    <3> QED BY ONLY <3>3 DEF y
  <2>2. y = t \o Sep \o (c \o Sep \o TypedTime(r))
    BY <1>2, <2>1
  <2>3. Entered(t \o Sep \o (c \o Sep \o TypedTime(r))) = <<r>>
           <=> SepFree(c) /\ ~ (f /\ TrimLeft(t) = d)
    BY <1>4, EnteredSecond
  <2> HIDE DEF y
  <2>4. Entered(y) = <<r>> <=> SepFree(c) /\ ~ (f /\ TrimLeft(t) = d)
    BY <2>2, <2>3
  <2> QED BY <2>4 DEF y
<1>5. ASSUME f
      PROVE  Entered(d \o Sep \o w \o Sep \o t \o Sep \o c) = <<r>>
                <=> TrimLeft(t) = t /\ TrimLeft(c) = c
  <2> DEFINE u == d \o Sep
             v == u \o w \o Sep
             Z == t \o Sep \o c
             y == v \o t \o Sep \o c
  <2>1. u \in Seq(Token) /\ v \in Seq(Token)
    <3>1. u \in Seq(Token)
      BY <1>1, ConcatProperties
    <3>2. (u \o w) \in Seq(Token)
      <4> HIDE DEF u, w
      <4> QED BY <1>1, <3>1, ConcatProperties
    <3>3. v \in Seq(Token)
      BY <1>1, <3>2, ConcatProperties
    <3> QED BY <3>1, <3>3
  <2>2. Z \in Seq(Token)
    <3> HIDE DEF t, c
    <3> QED BY <1>1, JoinIs
  <2>3. v \o t \o Sep \o c = v \o Z
    <3>1. v \in Seq(Token) /\ t \in Seq(Token) /\ c \in Seq(Token)
      BY <1>1, <2>1
    <3> HIDE DEF v, t, c
    <3> QED BY <3>1, Regroup
  <2>4. v \o Z = u \o (w \o Sep \o Z)
    <3>1. u \in Seq(Token) /\ w \in Seq(Token) /\ Z \in Seq(Token)
      BY <1>1, <2>1, <2>2
    <3> HIDE DEF u, w, Z
    <3> QED BY <3>1, Regroup
  <2>5. Entered(d \o Sep \o (w \o Sep \o Z)) = <<r>>
           <=> TrimLeft(t) = t /\ TrimLeft(c) = c
    BY <1>5, EnteredThird
  <2>6. y = d \o Sep \o (w \o Sep \o Z)
    BY <2>3, <2>4
  <2> HIDE DEF y, Z
  <2>7. Entered(y) = <<r>> <=> TrimLeft(t) = t /\ TrimLeft(c) = c
    BY <2>5, <2>6
  <2> QED BY <2>7 DEF y
<1>6. SepFree(c) <=> ~ HasSep(c) /\ ~ EndsIn(c, {"%"})
  BY DEF SepFree
<1>7. Entered(w \o Sep \o t \o Sep \o c \o K) = <<r>>
      /\ (~ StartsWith(t, {"HH", "TS"}) =>
            (Entered(t \o Sep \o c \o Sep \o w \o K) = <<r>>
                <=> (~ HasSep(c) /\ ~ EndsIn(c, {"%"})) /\ ~ (f /\ TrimLeft(t) = d)))
      /\ (f => (Entered(d \o Sep \o w \o Sep \o t \o Sep \o c) = <<r>>
                <=> TrimLeft(t) = t /\ TrimLeft(c) = c))
  <2> HIDE DEF t, c, f, w, d
  <2> QED BY ONLY <1>3, <1>4, <1>5, <1>6, Zenon
<1> QED BY ONLY <1>7 DEF K, x, f, t, c, w, d

\* All three forms of `add` give the same row, exactly if the task or comment
\* cannot be mistaken for a separator, a stamp, a weekday or padding.
THEOREM ThreeFormsAgree == TextSpec => []FormsAgree
<1>1. TextInv => FormsAgree
  <2>1. ASSUME TextInv, NEW r \in ToSet(born) PROVE r \in FieldRow
    <3>1. PICK i \in DOMAIN born : r = born[i]
      BY DEF ToSet
    <3> QED BY <2>1, <3>1, ElementOfSeq, LenProperties DEF TextInv
  <2> QED BY <2>1, FormsOf DEF FormsAgree
<1> QED BY <1>1, TextInductive, PTL DEF TextSpec
=============================================================================
