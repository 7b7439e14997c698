--------------------------- MODULE ReplaceProofs ---------------------------
(***************************************************************************)
(* Theorems about `todox replace`: when nobody else writes the file, what  *)
(* it says it did it has done, and nothing else; and every command is then *)
(* an atomic step of the book of alarms.                                   *)
(***************************************************************************)
EXTENDS Replace, TodoxProofs

-----------------------------------------------------------------------------
(* The days of the add                                                     *)

\* A moment is a day and a time of day, in one way only.
LEMMA DayAndTime ==
    ASSUME NEW n \in Int, NEW q \in Int, NEW s \in 0..DayLen-1, n = DayLen * q + s
    PROVE  n \div DayLen = q /\ n % DayLen = s
<1> DEFINE d == n \div DayLen
           r == n % DayLen
<1>1. /\ DayLen \in Nat \ {0} /\ d \in Int
      /\ r \in Int /\ 0 <= r /\ r < DayLen /\ n = DayLen * d + r
  BY DayLenAssumption
<1>2. s \in Int /\ 0 <= s /\ s < DayLen
  BY <1>1
<1> HIDE DEF d, r
<1>3. DayLen * (d - q) = s - r
  BY <1>1, <1>2
<1>4. CASE d - q >= 1
  <2>1. DayLen * (d - q) >= DayLen
    BY <1>1, <1>4
  <2> QED BY <1>1, <1>2, <1>3, <2>1
<1>5. CASE d - q <= -1
  <2>1. DayLen * (d - q) <= - DayLen
    BY <1>1, <1>5
  <2> QED BY <1>1, <1>2, <1>3, <2>1
<1>6. CASE d = q
  BY <1>1, <1>2, <1>6 DEF d, r
<1> QED BY <1>1, <1>4, <1>5, <1>6

\* A phase is whole weeks from that time of that day.
LEMMA PhaseInWeek ==
    ASSUME NEW day \in 0..6, NEW tod \in NewTimes
    PROVE  /\ Phase(day, tod) \in Int
           /\ \E j \in Int : Phase(day, tod) + Zone
                                = DayLen * (day - 4) + tod + Week * j
<1> DEFINE x == (day - 4) * DayLen + tod - Zone
           q == x \div Week
           r == x % Week
<1>1. /\ DayLen \in Nat \ {0} /\ Week \in Nat \ {0} /\ Zone \in Int
      /\ tod \in Int /\ day \in Int
  BY DayLenAssumption, WeekAssumption, NewTimesAssumption
<1>2. x \in Int /\ (day - 4) * DayLen = DayLen * (day - 4) /\ DayLen * (day - 4) \in Int
  BY <1>1
<1> HIDE DEF q, r
<1>3. q \in Int /\ r \in Int /\ x = Week * q + r
  <2> HIDE DEF x
  <2> QED BY <1>1, <1>2 DEF q, r
<1>4. Phase(day, tod) = r - Week
  BY DEF Phase, r
<1>5. Week * (-q - 1) = - (Week * q) - Week /\ Week * q \in Int /\ -q - 1 \in Int
  BY <1>1, <1>3
<1>6. Phase(day, tod) + Zone = DayLen * (day - 4) + tod + Week * (-q - 1)
  BY <1>1, <1>2, <1>3, <1>4, <1>5
<1>7. Phase(day, tod) \in Int
  BY <1>1, <1>3, <1>4
<1> HIDE DEF x
<1> QED BY <1>5, <1>6, <1>7, Zenon

\* The add brings, for each day, a moment of that day at that time, in Zone.
LEMMA AddedOnDay ==
    ASSUME NEW day \in 0..6, NEW tod \in NewTimes, NEW t \in Int
    PROVE  LET u == NextWeekdayTimestamp(Phase(day, tod), t)
           IN  /\ u \in Int
               /\ WD!Weekday(u + Zone) = day /\ WD!TimeOfDay(u + Zone) = tod
<1> DEFINE u == NextWeekdayTimestamp(Phase(day, tod), t)
<1>1. PICK j \in Int : Phase(day, tod) + Zone = DayLen * (day - 4) + tod + Week * j
  BY PhaseInWeek
<1>2. PICK k \in Nat : u = Phase(day, tod) + Week * k
  BY PhaseInWeek, AdvanceIsNextOccurrence DEF NextWeekdayTimestamp
<1>3. /\ Week = 7 * DayLen /\ DayLen \in Nat \ {0} /\ Zone \in Int
      /\ tod \in 0..DayLen-1 /\ tod \in Int /\ Phase(day, tod) \in Int
  BY DayLenAssumption, NewTimesAssumption, PhaseInWeek
<1> HIDE DEF u
<1> DEFINE q == day - 4 + 7 * (j + k)
<1>4. q \in Int /\ DayLen * q = DayLen * (day - 4) + Week * j + Week * k
  BY <1>3
<1>5. Week * j \in Int /\ Week * k \in Int /\ DayLen * (day - 4) \in Int
  BY <1>3
<1>6. u \in Int /\ u + Zone = DayLen * q + tod
  BY <1>1, <1>2, <1>3, <1>4, <1>5
<1>7. (q + 4) % 7 = day
  BY <1>3
<1> HIDE DEF q
<1>8. (u + Zone) \div DayLen = q /\ (u + Zone) % DayLen = tod
  BY <1>3, <1>4, <1>6, DayAndTime
<1>9. WD!Weekday(u + Zone) = day /\ WD!TimeOfDay(u + Zone) = tod
  BY <1>7, <1>8 DEF WD!Weekday, WD!TimeOfDay
<1> QED BY <1>6, <1>9 DEF u

\* The sets of days that the script has a word for.
Named(days) == days \in {1..5, {6, 0}, 0..6} \/ Cardinality(days) = 1

\* The days from one to another, over the end of the week.
LEMMA WeekdaysApart == (0 - 6) % 7 = 1 /\ (0 - 1) % 7 = 6
<1> DEFINE x == 0 - 6  y == 0 - 1
<1>1. x \in Int /\ x = 7 * (-1) + 1 /\ y \in Int /\ y = 7 * (-1) + 6
  OBVIOUS
<1> HIDE DEF x, y
<1>2. \A n \in {x, y} : n = 7 * (n \div 7) + (n % 7) /\ n % 7 \in 0..6 /\ n \div 7 \in Int
  BY <1>1
<1>3. x % 7 = 1 /\ y % 7 = 6
  BY <1>1, <1>2
<1> QED BY <1>3 DEF x, y

\* How many days there are in these sets.
LEMMA DaysInSets ==
    /\ Cardinality(1..5) = 5 /\ Cardinality({6, 0}) = 2
    /\ IsFiniteSet(0..6) /\ Cardinality(0..6) = 7
<1> DEFINE one == 1  five == 5  nought == 0  six == 6
<1>1. one \in Int /\ five \in Int /\ nought \in Int /\ six \in Int
  OBVIOUS
<1> HIDE DEF one, five, nought, six
<1>2. /\ Cardinality(one..five) = IF one > five THEN 0 ELSE five - one + 1
      /\ IsFiniteSet(nought..six)
      /\ Cardinality(nought..six) = IF nought > six THEN 0 ELSE six - nought + 1
  BY <1>1, FS_Interval
<1>3. IsFiniteSet({6}) /\ Cardinality({6}) = 1
  BY FS_Singleton
<1>4. Cardinality({6} \cup {0}) = Cardinality({6}) + 1
  BY <1>3, FS_AddElement
<1>5. {6} \cup {0} = {6, 0}
  OBVIOUS
<1> QED BY <1>2, <1>3, <1>4, <1>5 DEF one, five, nought, six

\* The words it finds mean each of the days once, and any others none.
LEMMA WordsMeanDays ==
    ASSUME NEW days \in SUBSET (0..6)
    PROVE  LET w == WD!ParseWeekdayExpr(Pattern(days))
           IN  /\ ~ Named(days) => w = <<>>
               /\ Named(days) =>
                     /\ w \in Seq(0..6) /\ Len(w) = Cardinality(days) /\ w # <<>>
                     /\ {w[i] : i \in DOMAIN w} = days
<1> DEFINE w == WD!ParseWeekdayExpr(Pattern(days))
<1>1. /\ 1..5 # {6, 0} /\ 1..5 # 0..6 /\ 0..6 # {6, 0}
      /\ Cardinality(1..5) = 5 /\ Cardinality(0..6) = 7 /\ Cardinality({6, 0}) = 2
  <2>1. 3 \in 1..5 /\ 3 \notin {6, 0} /\ 3 \in 0..6 /\ 0 \in 0..6 /\ 0 \notin 1..5
    OBVIOUS
  <2> QED BY <2>1, DaysInSets
\* A range goes from its first word to its last.
<1>2. ASSUME NEW a \in 0..6, NEW b \in 0..6, Pattern(days) = Span(a, b)
      PROVE  w = [k \in 1..((b - a) % 7) + 1 |-> (a + k - 1) % 7]
  <2>1. WD!BadDay \notin WD!ToSet(<<a, b>>)
    BY DEF WD!BadDay, WD!ToSet
  <2> QED BY <1>2, <2>1 DEF WD!ParseWeekdayExpr, WD!RangeDays, Span
<1>3. CASE days = 1..5
  <2>1. Pattern(days) = Span(1, 5)
    BY <1>1, <1>3 DEF Pattern
  <2>2. w = [k \in 1..((5 - 1) % 7) + 1 |-> (1 + k - 1) % 7]
    BY <1>2, <2>1
  <2>3. w = [k \in 1..5 |-> k]
    BY <2>2
  <2> HIDE DEF w
  <2>4. w \in Seq(0..6) /\ Len(w) = 5 /\ w # <<>>
    BY <2>3
  <2>5. {w[i] : i \in DOMAIN w} = 1..5
    BY <2>3
  <2> QED BY <1>1, <1>3, <2>4, <2>5 DEF Named, w
<1>4. CASE days = {6, 0}
  <2>1. Pattern(days) = Span(6, 0)
    BY <1>1, <1>4 DEF Pattern
  <2>2. w = [k \in 1..((0 - 6) % 7) + 1 |-> (6 + k - 1) % 7]
    BY <1>2, <2>1
  <2>3. \A k \in 1..2 : (6 + k - 1) % 7 = IF k = 1 THEN 6 ELSE 0
    OBVIOUS
  <2>4. w = [k \in 1..2 |-> IF k = 1 THEN 6 ELSE 0]
    BY <2>2, <2>3, WeekdaysApart
  <2> HIDE DEF w
  <2>5. w \in Seq(0..6) /\ Len(w) = 2 /\ w # <<>>
    BY <2>4
  <2>6. DOMAIN w = {1, 2} /\ w[1] = 6 /\ w[2] = 0
    BY <2>4
  <2>7. {w[i] : i \in DOMAIN w} = {6, 0}
    BY <2>6
  <2> QED BY <1>1, <1>4, <2>5, <2>7 DEF Named, w
<1>5. CASE days = 0..6
  <2>1. Pattern(days) = Span(1, 0)
    BY <1>1, <1>5 DEF Pattern
  <2>2. w = [k \in 1..((0 - 1) % 7) + 1 |-> (1 + k - 1) % 7]
    BY <1>2, <2>1
  <2>3. \A k \in 1..7 : (1 + k - 1) % 7 = IF k = 7 THEN 0 ELSE k
    OBVIOUS
  <2>4. w = [k \in 1..7 |-> IF k = 7 THEN 0 ELSE k]
    BY <2>2, <2>3, WeekdaysApart
  <2> HIDE DEF w
  <2>5. w \in Seq(0..6) /\ Len(w) = 7 /\ w # <<>>
    BY <2>4
  <2>6. /\ \A k \in DOMAIN w : w[k] \in 0..6
        /\ \A d \in 0..6 : \E k \in DOMAIN w : w[k] = d
    <3>1. \A d \in 0..6 : w[IF d = 0 THEN 7 ELSE d] = d /\ (IF d = 0 THEN 7 ELSE d) \in 1..7
      BY <2>4
    <3> QED BY <2>4, <3>1
  <2>7. {w[i] : i \in DOMAIN w} = 0..6
    BY <2>6
  <2> QED BY <1>1, <1>5, <2>5, <2>7 DEF Named, w
\* A single word is itself, if it is a day.
<1>6. ASSUME NEW d, Pattern(days) = Single(d)
      PROVE  w = IF d = WD!BadDay THEN <<>> ELSE <<d>>
  <2>1. WD!ToSet(<<d>>) = {d} /\ Len(<<d>>) = 1
    BY DEF WD!ToSet
  <2>2. Single(d).kind # "range" /\ Single(d).words = <<d>>
    BY DEF Single
  <2>3. CASE d = WD!BadDay
    BY <1>6, <2>1, <2>2, <2>3 DEF WD!ParseWeekdayExpr, WD!NoDays
  <2>4. CASE d # WD!BadDay
    BY <1>6, <2>1, <2>2, <2>4 DEF WD!ParseWeekdayExpr
  <2> QED BY <2>3, <2>4
<1>7. CASE Cardinality(days) = 1
  <2>1. IsFiniteSet(days)
    BY DaysInSets, FS_Subset
  <2>2. PICK d : days = {d}
    BY <1>7, <2>1, FS_Singleton
  <2>3. d \in 0..6 /\ (CHOOSE x \in days : TRUE) = d
    BY <2>2
  <2>4. days # 1..5 /\ days # {6, 0} /\ days # 0..6
    BY <1>1, <1>7
  <2>5. Pattern(days) = Single(d)
    BY <1>7, <2>3, <2>4 DEF Pattern
  <2>6. d # WD!BadDay /\ w = <<d>>
    BY <1>6, <2>3, <2>5 DEF WD!BadDay
  <2> HIDE DEF w
  <2>7. w \in Seq(0..6) /\ Len(w) = 1 /\ w # <<>> /\ {w[i] : i \in DOMAIN w} = {d}
    BY <2>3, <2>6
  <2> QED BY <1>7, <2>2, <2>7 DEF Named, w
<1>8. CASE ~ Named(days)
  <2>1. Pattern(days) = Single(WD!BadDay)
    BY <1>8 DEF Named, Pattern
  <2>2. w = <<>>
    BY <1>6, <2>1
  <2> QED BY <1>8, <2>2
<1> QED BY <1>3, <1>4, <1>5, <1>7, <1>8 DEF Named

-----------------------------------------------------------------------------
(* Tables                                                                  *)

\* The rows of other tasks, and the days of this one, as sets of rows.
LEMMA RowsListed ==
    ASSUME NEW lst, NEW t
    PROVE  /\ OthersOf(lst, t) = {r \in ToSet(lst) : r.task # t}
           /\ DaysListed(lst, t)
                  = {WD!Weekday(r.ts + Zone) : r \in {q \in ToSet(lst) : q.task = t}}
BY DEF OthersOf, DaysListed, RowsOf, ToSet

\* Sorting keeps the number of rows of each kind.
LEMMA ByTimeCount ==
    ASSUME NEW s \in Seq(Alarm), NEW K \in SUBSET DOMAIN s, NEW R
    PROVE  Cardinality({p \in DOMAIN ByTime(s, K) : ByTime(s, K)[p] \in R})
               = Cardinality({i \in K : s[i] \in R})
<1> DEFINE n == Cardinality(K)
           u == ByTime(s, K)
           row(p) == CHOOSE i \in K : Rank(s, K, i) = p
           I == {i \in K : s[i] \in R}
           J == {p \in DOMAIN u : u[p] \in R}
           f == [i \in I |-> Rank(s, K, i)]
<1>1. n \in Nat /\ IsFiniteSet(K) /\ \A i \in K : Rank(s, K, i) \in 1..n
  BY RankOrder
<1>2. u = [p \in 1..n |-> s[row(p)]]
  BY DEF ByTime
<1>3. \A p \in 1..n : row(p) \in K /\ Rank(s, K, row(p)) = p
  BY RankUnique
<1>4. \A i \in K : row(Rank(s, K, i)) = i
  BY <1>1, RankUnique
<1> HIDE DEF n, u, row
<1>5. \A i \in K : u[Rank(s, K, i)] = s[i]
  BY <1>1, <1>2, <1>4
<1>6. DOMAIN u = 1..n /\ \A p \in 1..n : u[p] = s[row(p)]
  BY <1>2
<1>7. f \in [I -> J]
  BY <1>1, <1>5, <1>6
<1>8. \A i, j \in I : f[i] = f[j] => i = j
  BY <1>4
<1>9. \A p \in J : row(p) \in I /\ f[row(p)] = p
  BY <1>3, <1>6
<1>10. f \in Bijection(I, J)
  <2> HIDE DEF f, I, J
  <2> QED BY <1>7, <1>8, <1>9 DEF Bijection, Injection, Surjection, IsInjective
<1>11. IsFiniteSet(I)
  BY <1>1, FS_Subset
<1>12. Cardinality(J) = Cardinality(I)
  BY <1>10, <1>11, FS_Bijection DEF ExistsBijection
<1> QED BY <1>12 DEF u

\* The days on which a title is listed are days, no more than it has rows.
LEMMA DaysAreFew ==
    ASSUME NEW lst \in Seq(Alarm), NEW t
    PROVE  /\ DaysListed(lst, t) \in SUBSET (0..6)
           /\ IsFiniteSet(RowsOf(lst, t)) /\ Cardinality(RowsOf(lst, t)) \in Nat
           /\ Cardinality(DaysListed(lst, t)) <= Cardinality(RowsOf(lst, t))
           /\ Cardinality(DaysListed(lst, t)) \in Nat
<1> DEFINE I == RowsOf(lst, t)
           days == DaysListed(lst, t)
           f == [i \in I |-> WD!Weekday(lst[i].ts + Zone)]
<1>1. DOMAIN lst = 1..Len(lst) /\ Len(lst) \in Nat /\ I \in SUBSET (1..Len(lst))
  BY LenProperties DEF RowsOf
<1>2. IsFiniteSet(1..Len(lst))
  BY <1>1, FS_Interval
<1>3. IsFiniteSet(I) /\ Cardinality(I) \in Nat
  <2> HIDE DEF I
  <2> QED BY <1>1, <1>2, FS_Subset, FS_CardinalityType
<1>4. days = {f[i] : i \in I}
  BY DEF DaysListed
<1>5. f \in Surjection(I, days)
  <2> HIDE DEF I, days
  <2> QED BY <1>4 DEF Surjection
<1>6. ASSUME NEW i \in I PROVE f[i] \in 0..6
  <2>1. lst[i].ts + Zone \in Int
    BY <1>1, RowType, NewTimesAssumption
  <2>2. (lst[i].ts + Zone) \div DayLen + 4 \in Int
    BY <2>1, DayLenAssumption
  <2> QED BY <2>2 DEF WD!Weekday
<1>7. IsFiniteSet(days) /\ Cardinality(days) <= Cardinality(I)
  <2> HIDE DEF I, days, f
  <2> QED BY <1>3, <1>5, FS_Surjection
<1>8. days \in SUBSET (0..6)
  BY <1>4, <1>6
<1>9. Cardinality(days) \in Nat
  BY <1>7, FS_CardinalityType
<1> QED BY <1>3, <1>7, <1>8, <1>9

\* `todox remove` leaves the rows of the other tasks.
LEMMA RemovalLeaves ==
    ASSUME NEW lst \in Seq(Alarm), NEW t \in Tasks
    PROVE  LET u == TaskRemoveAll(lst, t)
           IN  /\ u \in Seq(Alarm) /\ RowsOf(u, t) = {}
               /\ ToSet(u) = OthersOf(lst, t)
               /\ Len(u) = Len(lst) - Cardinality(RowsOf(lst, t))
<1> DEFINE I == RowsOf(lst, t)
           K == DOMAIN lst \ I
<1>1. /\ DOMAIN lst = 1..Len(lst) /\ Len(lst) \in Nat
      /\ I \subseteq 1..Len(lst) /\ K \in SUBSET DOMAIN lst
  BY LenProperties DEF RowsOf
<1>2. ToSet(ByTime(lst, K)) = {lst[i] : i \in K} /\ Len(ByTime(lst, K)) = Cardinality(K)
  <2> HIDE DEF K
  <2> QED BY <1>1, ByTimeRows, ByTimeProperties
<1>3. Cardinality(K) = Len(lst) - Cardinality(I)
  <2> DEFINE S == 1..Len(lst)
  <2>1. IsFiniteSet(S) /\ Cardinality(S) = Len(lst)
    <3>1. IsFiniteSet(S) /\ Cardinality(S) = IF 1 > Len(lst) THEN 0 ELSE Len(lst) - 1 + 1
      BY <1>1, FS_Interval
    <3> QED BY <1>1, <3>1
  <2>2. Cardinality(S \ I) = Cardinality(S) - Cardinality(S \cap I)
    <3> HIDE DEF S, I
    <3> QED BY <2>1, FS_Difference
  <2>3. S \cap I = I /\ K = S \ I
    BY <1>1
  <2> QED BY <2>1, <2>2, <2>3
<1>4. {lst[i] : i \in K} = OthersOf(lst, t)
  BY DEF OthersOf
<1> HIDE DEF K, I
<1> QED BY <1>2, <1>3, <1>4, TaskRemoveAllProperties DEF TaskRemoveAll, K, I

\* Intervals, as far as they are counted here.
LEMMA Counted ==
    ASSUME NEW a \in Int, NEW b \in Int, b >= a - 1
    PROVE  IsFiniteSet(a..b) /\ Cardinality(a..b) = b - a + 1
<1>1. IsFiniteSet(a..b) /\ Cardinality(a..b) = IF a > b THEN 0 ELSE b - a + 1
  BY FS_Interval
<1> QED BY <1>1

\* Rows that fit are all pushed.
LEMMA PushedWhole ==
    ASSUME NEW lst \in Seq(Alarm), NEW items \in Seq(Alarm),
           Len(lst) + Len(items) <= MaxRows, NEW t
    PROVE  LET u == PushAll(lst, items)
           IN  /\ u \in Seq(Alarm) /\ Len(u) = Len(lst) + Len(items)
               /\ ToSet(u) = ToSet(lst) \cup ToSet(items)
               /\ RowsOf(lst, t) = {} /\ (\A r \in ToSet(items) : r.task = t)
                     => Cardinality(RowsOf(u, t)) = Len(items)
<1> DEFINE m == Len(lst)
           n == Len(items)
           l == m + n
           k == m + 1
           one == 1
           s == lst \o items
           K == 1..l
<1>1. /\ m \in Nat /\ n \in Nat /\ DOMAIN lst = 1..m /\ DOMAIN items = 1..n
      /\ MaxRows \in Nat /\ l = m + n /\ k = m + 1 /\ one = 1 /\ l <= MaxRows
  BY LenProperties, MaxRowsAssumption
<1>2. /\ s \in Seq(Alarm) /\ Len(s) = l
      /\ \A i \in 1..l : s[i] = IF i <= m THEN lst[i] ELSE items[i - m]
  BY ConcatProperties
<1>3. DOMAIN s = K
  BY <1>2, LenProperties
<1> HIDE DEF s
<1>4. PushAll(lst, items) = ByTime(s, K)
  <2>1. {i \in DOMAIN s : i <= MaxRows} = K
    BY <1>1, <1>3
  <2> QED BY <2>1 DEF PushAll, s
<1> HIDE DEF m, n, l, k, one
<1>5. l \in Int /\ k \in Int /\ one \in Int /\ l >= one - 1 /\ l >= k - 1
  BY <1>1
<1>6. Cardinality(K) = m + n
  <2>1. Cardinality(one..l) = l - one + 1
    BY <1>5, Counted
  <2> QED BY <1>1, <2>1
<1>7. {s[i] : i \in K} = ToSet(lst) \cup ToSet(items)
  <2>1. ASSUME NEW i \in K PROVE s[i] \in ToSet(lst) \cup ToSet(items)
    <3>1. CASE i <= m
      <4>1. i \in 1..m
        BY <1>1, <3>1
      <4> QED BY <1>1, <1>2, <3>1, <4>1 DEF ToSet
    <3>2. CASE ~ (i <= m)
      <4>1. i - m \in 1..n
        BY <1>1, <3>2
      <4> QED BY <1>1, <1>2, <3>2, <4>1 DEF ToSet
    <3> QED BY <3>1, <3>2
  <2>2. ASSUME NEW i \in 1..m PROVE i \in K /\ s[i] = lst[i]
    <3>1. i \in K
      BY <1>1
    <3> QED BY <1>1, <1>2, <3>1
  <2>3. ASSUME NEW i \in 1..n PROVE m + i \in K /\ s[m + i] = items[i]
    <3>1. m + i \in K /\ ~ (m + i <= m) /\ (m + i) - m = i
      BY <1>1
    <3> QED BY <1>2, <3>1
  <2>4. ASSUME NEW r \in ToSet(lst) PROVE r \in {s[i] : i \in K}
    <3>1. PICK i \in 1..m : r = lst[i]
      BY <1>1 DEF ToSet
    <3> QED BY <2>2, <3>1
  <2>5. ASSUME NEW r \in ToSet(items) PROVE r \in {s[i] : i \in K}
    <3>1. PICK i \in 1..n : r = items[i]
      BY <1>1 DEF ToSet
    <3> QED BY <2>3, <3>1
  <2> QED BY <2>1, <2>4, <2>5, Zenon
<1>8. ASSUME RowsOf(lst, t) = {}, \A r \in ToSet(items) : r.task = t
      PROVE  Cardinality({i \in K : s[i].task = t}) = n
  <2>1. ASSUME NEW i \in K PROVE s[i].task = t <=> i \in k..l
    <3>1. CASE i <= m
      <4>1. i \in 1..m /\ i \notin k..l
        BY <1>1, <3>1
      <4>2. lst[i].task # t
        BY <1>1, <1>8, <4>1 DEF RowsOf
      <4> QED BY <1>2, <3>1, <4>1, <4>2
    <3>2. CASE ~ (i <= m)
      <4>1. i - m \in 1..n /\ i \in k..l
        BY <1>1, <3>2
      <4>2. items[i - m].task = t
        BY <1>1, <1>8, <4>1 DEF ToSet
      <4> QED BY <1>2, <3>2, <4>1, <4>2
    <3> QED BY <3>1, <3>2
  <2>2. k..l \subseteq K
    BY <1>1
  <2>3. {i \in K : s[i].task = t} = k..l
    BY <2>1, <2>2
  <2>4. Cardinality(k..l) = l - k + 1
    BY <1>5, Counted
  <2>5. l - k + 1 = n
    BY <1>1
  <2> QED BY <2>3, <2>4, <2>5, Zenon
<1>9. K \in SUBSET DOMAIN s
  BY <1>3
<1> HIDE DEF K
<1>10. /\ ByTime(s, K) \in Seq(Alarm) /\ Len(ByTime(s, K)) = m + n
       /\ ToSet(ByTime(s, K)) = ToSet(lst) \cup ToSet(items)
  BY <1>2, <1>6, <1>7, <1>9, ByTimeProperties, ByTimeRows
<1>11. Cardinality(RowsOf(ByTime(s, K), t)) = Cardinality({i \in K : s[i].task = t})
  <2> DEFINE R == {r \in Alarm : r.task = t}
             u == ByTime(s, K)
  <2>1. Cardinality({i \in DOMAIN u : u[i] \in R}) = Cardinality({i \in K : s[i] \in R})
    <3>1. s \in Seq(Alarm)
      BY <1>2
    <3> HIDE DEF R
    <3> QED BY <1>9, <3>1, ByTimeCount, ZenonT(30)
  <2>2. \A i \in K : s[i] \in R <=> s[i].task = t
    BY <1>2, <1>9, RowType
  <2>3. \A i \in DOMAIN u : u[i] \in R <=> u[i].task = t
    BY <1>10, RowType
  <2>4. /\ {i \in K : s[i] \in R} = {i \in K : s[i].task = t}
        /\ {i \in DOMAIN u : u[i] \in R} = {i \in DOMAIN u : u[i].task = t}
    BY <2>2, <2>3, Zenon
  <2> QED BY <2>1, <2>4 DEF RowsOf
<1> QED BY <1>4, <1>8, <1>10, <1>11 DEF m, n

\* A file that is no longer than a table is read whole.
LEMMA ParsedWhole ==
    ASSUME NEW rows \in Seq(Alarm), Len(rows) <= MaxRows
    PROVE  LET u == ParseConfig(rows)
           IN  u \in Seq(Alarm) /\ Len(u) = Len(rows) /\ ToSet(u) = ToSet(rows)
<1> DEFINE none == <<>>
<1>1. none \in Seq(Alarm) /\ Len(none) = 0 /\ ToSet(none) = {} /\ Len(rows) \in Nat
  BY EmptySeq, LenProperties DEF ToSet
<1>2. ParseConfig(rows) = PushAll(none, rows)
  BY DEF ParseConfig
<1> HIDE DEF none
<1>3. Len(none) + Len(rows) = Len(rows)
  BY <1>1
<1>4. LET u == PushAll(none, rows)
      IN  /\ u \in Seq(Alarm) /\ Len(u) = Len(none) + Len(rows)
          /\ ToSet(u) = ToSet(none) \cup ToSet(rows)
  BY <1>1, <1>3, PushedWhole
<1> QED BY <1>1, <1>2, <1>3, <1>4

-----------------------------------------------------------------------------
(* What a replace adds                                                     *)

\* The title is listed weekly, on days the script has a word for, and the time
\* is one.
Sayable(s) ==
    /\ s.before[TaskFind(s.before, s.title)].does_repeat
    /\ s.tod # BadTime
    /\ Named(DaysListed(s.before, s.title))

Entry == [at: {"listed", "remove", "removed", "add"}, title: Tasks,
          tod: NewTimes \cup {BadTime}, before: Seq(Alarm), payload: Command]

\* The table that the removal leaves.
Without(s) == TaskRemoveAll(s.before, s.title)

\* The table tab has the title moved, and the rest as it was.
Moved(tab, s) ==
    LET first == s.before[TaskFind(s.before, s.title)]
        days  == DaysListed(s.before, s.title)
    IN  /\ OthersOf(tab, s.title) = OthersOf(s.before, s.title)
        /\ DaysListed(tab, s.title) = days
        /\ Cardinality(RowsOf(tab, s.title)) = Cardinality(days)
        /\ \A i \in RowsOf(tab, s.title) :
              /\ WD!TimeOfDay(tab[i].ts + Zone) = s.tod
              /\ tab[i].comment = first.comment /\ tab[i].does_repeat

\* The title of a listed replace has rows, the first of which is a row.
LEMMA FirstRow ==
    ASSUME NEW lst \in Seq(Alarm), NEW t, RowsOf(lst, t) # {}
    PROVE  /\ TaskFind(lst, t) \in RowsOf(lst, t)
           /\ lst[TaskFind(lst, t)] \in Alarm
           /\ lst[TaskFind(lst, t)].comment \in Comments
           /\ lst[TaskFind(lst, t)].does_repeat \in BOOLEAN
<1>1. TaskFind(lst, t) \in RowsOf(lst, t)
  BY FirstOfTask
<1>2. lst[TaskFind(lst, t)] \in Alarm
  BY <1>1, RowType DEF RowsOf
<1> QED BY <1>1, <1>2 DEF Alarm

\* The words of the add are a command; they parse exactly for a title and a
\* time that can be said.
LEMMA PayloadSays ==
    ASSUME NEW lst \in Seq(Alarm), NEW t \in Tasks, RowsOf(lst, t) # {},
           NEW tod \in NewTimes \cup {BadTime}
    PROVE  LET p     == Payload(lst, t, tod)
               first == lst[TaskFind(lst, t)]
               days  == DaysListed(lst, t)
               w     == WD!ParseWeekdayExpr(Pattern(days))
               say   == first.does_repeat /\ tod # BadTime /\ Named(days)
           IN  /\ p \in Command /\ p.task = t /\ p.op \in {"add", "weekly"}
               /\ ~ say => p.times = <<>>
               /\ say =>
                     /\ p.op = "weekly" /\ p.comment = first.comment
                     /\ p.times = [i \in DOMAIN w |-> Phase(w[i], tod)]
                     /\ p.times # <<>>
<1> DEFINE p     == Payload(lst, t, tod)
           first == lst[TaskFind(lst, t)]
           days  == DaysListed(lst, t)
           w     == WD!ParseWeekdayExpr(Pattern(days))
<1>1. first.comment \in Comments /\ first.does_repeat \in BOOLEAN
  BY FirstRow
<1>2. days \in SUBSET (0..6)
  BY DaysAreFew
<1>3. <<>> \in Seq(Int)
  BY EmptySeq
<1>4. CASE ~ first.does_repeat
  <2>1. p = [op |-> "add", task |-> t, comment |-> first.comment,
             times |-> <<>>, does_repeat |-> FALSE]
    BY <1>4 DEF Payload
  <2> HIDE DEF p, first
  <2>2. p \in Command
    BY <1>1, <1>3, <2>1 DEF Command
  <2> QED BY <1>4, <2>1, <2>2 DEF p, first
<1>5. CASE first.does_repeat
  <2> DEFINE v == IF tod = BadTime THEN WD!NoDays ELSE w
             q == [i \in DOMAIN v |-> Phase(v[i], tod)]
  <2>1. p = [op |-> "weekly", task |-> t, comment |-> first.comment,
             times |-> q, does_repeat |-> TRUE]
    BY <1>5 DEF Payload, WeeklyAdd
  <2>2. /\ ~ Named(days) => w = <<>>
        /\ Named(days) => w \in Seq(0..6) /\ w # <<>>
    <3> HIDE DEF days
    <3> QED BY <1>2, WordsMeanDays
  <2>3. CASE tod = BadTime \/ ~ Named(days)
    <3>1. v = <<>>
      BY <2>2, <2>3 DEF WD!NoDays
    <3>2. q = <<>>
      BY <3>1
    <3> HIDE DEF p, first, q
    <3>3. p \in Command
      BY <1>1, <1>3, <2>1, <3>2 DEF Command
    <3> QED BY <2>1, <2>3, <3>2, <3>3 DEF p, first, q
  <2>4. CASE tod # BadTime /\ Named(days)
    <3>1. v = w /\ w \in Seq(0..6) /\ w # <<>> /\ tod \in NewTimes
      BY <2>2, <2>4
    <3> HIDE DEF w, v
    <3>2. /\ Len(w) \in Nat /\ DOMAIN w = 1..Len(w)
          /\ \A i \in DOMAIN w : w[i] \in 0..6
      BY <3>1, LenProperties, ElementOfSeq
    <3>3. \A i \in DOMAIN w : Phase(w[i], tod) \in Int
      BY <3>1, <3>2, PhaseInWeek
    <3>4. q \in [1..Len(w) -> Int] /\ q = [i \in DOMAIN w |-> Phase(w[i], tod)]
      BY <3>1, <3>2, <3>3
    <3>5. q # <<>>
      BY <3>1, <3>2, <3>4
    <3>6. q \in Seq(Int)
      BY <3>2, <3>4, SeqDef
    <3> HIDE DEF p, first, q
    <3>7. p \in Command
      BY <1>1, <2>1, <3>6 DEF Command
    <3> QED BY <2>1, <2>4, <3>4, <3>5, <3>7, <1>5 DEF p, first, w
  <2> QED BY <2>3, <2>4
<1> QED BY <1>1, <1>4, <1>5

\* The rows of the add: one for each day, at that time, as the first row was.
LEMMA ItemsSay ==
    ASSUME NEW lst \in Seq(Alarm), NEW title \in Tasks, RowsOf(lst, title) # {},
           NEW tod \in NewTimes, lst[TaskFind(lst, title)].does_repeat,
           Named(DaysListed(lst, title)), NEW t \in Int
    PROVE  LET items == Items(Payload(lst, title, tod), t)
               days  == DaysListed(lst, title)
           IN  /\ items \in Seq(Alarm) /\ Len(items) = Cardinality(days)
               /\ \A r \in ToSet(items) :
                     /\ r.task = title /\ r.does_repeat
                     /\ r.comment = lst[TaskFind(lst, title)].comment
                     /\ WD!TimeOfDay(r.ts + Zone) = tod
               /\ {WD!Weekday(r.ts + Zone) : r \in ToSet(items)} = days
<1> DEFINE p     == Payload(lst, title, tod)
           items == Items(p, t)
           first == lst[TaskFind(lst, title)]
           days  == DaysListed(lst, title)
           w     == WD!ParseWeekdayExpr(Pattern(days))
<1>1. tod # BadTime /\ tod \in NewTimes \cup {BadTime}
  BY NewTimesAssumption DEF BadTime
<1>2. /\ p \in Command /\ p.task = title /\ p.op = "weekly"
      /\ p.comment = first.comment
      /\ p.times = [i \in DOMAIN w |-> Phase(w[i], tod)]
  BY <1>1, PayloadSays
<1>3. /\ w \in Seq(0..6) /\ Len(w) = Cardinality(days)
      /\ {w[i] : i \in DOMAIN w} = days
  <2>1. days \in SUBSET (0..6) /\ Named(days)
    BY DaysAreFew
  <2> HIDE DEF days
  <2> QED BY <2>1, WordsMeanDays
<1> HIDE DEF w
<1>4. /\ Len(w) \in Nat /\ DOMAIN w = 1..Len(w)
      /\ \A i \in DOMAIN w : w[i] \in 0..6
  BY <1>3, LenProperties, ElementOfSeq
<1> HIDE DEF p, first
<1> DEFINE when(i) == NextWeekdayTimestamp(Phase(w[i], tod), t)
<1>5. items = [i \in DOMAIN w |->
          [task |-> title, comment |-> first.comment, ts |-> when(i),
           does_repeat |-> TRUE]]
  BY <1>2 DEF Items
<1>6. items \in Seq(Alarm)
  BY <1>2, ItemsType
<1>7. ASSUME NEW i \in DOMAIN w
      PROVE  WD!Weekday(when(i) + Zone) = w[i] /\ WD!TimeOfDay(when(i) + Zone) = tod
  BY <1>4, AddedOnDay
<1> HIDE DEF items, when
<1>8. DOMAIN items = DOMAIN w /\ \A i \in DOMAIN w :
          items[i] = [task |-> title, comment |-> first.comment, ts |-> when(i),
                      does_repeat |-> TRUE]
  BY <1>5
<1>9. Len(items) = Len(w)
  BY <1>4, <1>6, <1>8, LenProperties
<1>10. ASSUME NEW r \in ToSet(items)
       PROVE  /\ r.task = title /\ r.does_repeat /\ r.comment = first.comment
              /\ WD!TimeOfDay(r.ts + Zone) = tod
  <2>1. PICK i \in DOMAIN w : r = items[i]
    BY <1>8 DEF ToSet
  <2>2. r.ts = when(i)
    BY <1>8, <2>1
  <2> QED BY <1>7, <1>8, <2>1, <2>2
<1>11. {WD!Weekday(r.ts + Zone) : r \in ToSet(items)} = days
  <2>1. ToSet(items) = {items[i] : i \in DOMAIN w}
    BY <1>8 DEF ToSet
  <2>2. \A i \in DOMAIN w : WD!Weekday(items[i].ts + Zone) = w[i]
    BY <1>7, <1>8
  <2> HIDE DEF days
  <2> QED BY <1>3, <2>1, <2>2
<1> QED BY <1>3, <1>6, <1>9, <1>10, <1>11 DEF items, p, first

\* The removal and that add move the title.
LEMMA AddMoves ==
    ASSUME NEW s, s.before \in Seq(Alarm), s.title \in Tasks,
           s.tod \in NewTimes \cup {BadTime}, RowsOf(s.before, s.title) # {},
           Len(s.before) <= MaxRows, Sayable(s), NEW t \in Int
    PROVE  Moved(PushAll(ParseConfig(Without(s)),
                         Items(Payload(s.before, s.title, s.tod), t)), s)
<1> DEFINE lst   == s.before
           title == s.title
           rest  == Without(s)
           read  == ParseConfig(rest)
           items == Items(Payload(lst, title, s.tod), t)
           u     == PushAll(read, items)
           first == lst[TaskFind(lst, title)]
           days  == DaysListed(lst, title)
           d     == Cardinality(days)
           e     == Cardinality(RowsOf(lst, title))
<1>1. /\ s.tod \in NewTimes /\ lst[TaskFind(lst, title)].does_repeat
      /\ Named(DaysListed(lst, title))
  BY DEF Sayable
<1>2. /\ rest \in Seq(Alarm) /\ RowsOf(rest, title) = {}
      /\ ToSet(rest) = OthersOf(lst, title) /\ Len(rest) = Len(lst) - e
  BY RemovalLeaves DEF Without
<1>3. d \in Nat /\ e \in Nat /\ d <= e
  BY DaysAreFew
<1>4. /\ items \in Seq(Alarm) /\ Len(items) = d
      /\ \A r \in ToSet(items) :
            /\ r.task = title /\ r.does_repeat /\ r.comment = first.comment
            /\ WD!TimeOfDay(r.ts + Zone) = s.tod
      /\ {WD!Weekday(r.ts + Zone) : r \in ToSet(items)} = days
  <2>1. lst \in Seq(Alarm) /\ title \in Tasks /\ RowsOf(lst, title) # {}
    OBVIOUS
  <2> QED BY <1>1, <2>1, ItemsSay
<1>5. Len(lst) \in Nat /\ MaxRows \in Nat /\ Len(lst) <= MaxRows
  BY LenProperties, MaxRowsAssumption
<1> HIDE DEF rest, items, first, days, d, e
<1>6. Len(rest) <= MaxRows /\ Len(rest) + Len(items) <= MaxRows
  BY <1>2, <1>3, <1>4, <1>5
<1>7. read \in Seq(Alarm) /\ Len(read) = Len(rest) /\ ToSet(read) = ToSet(rest)
  BY <1>2, <1>6, ParsedWhole
<1> HIDE DEF read
<1>8. OthersOf(lst, title) = {r \in ToSet(lst) : r.task # title}
  BY RowsListed
<1>9. RowsOf(read, title) = {}
  <2>1. \A r \in ToSet(read) : r.task # title
    BY <1>2, <1>7, <1>8
  <2> QED BY <2>1 DEF RowsOf, ToSet
<1>10. /\ u \in Seq(Alarm) /\ ToSet(u) = ToSet(read) \cup ToSet(items)
       /\ Cardinality(RowsOf(u, title)) = d
  BY <1>4, <1>6, <1>7, <1>9, PushedWhole
<1> HIDE DEF u
<1>11. OthersOf(u, title) = OthersOf(lst, title)
  <2>1. OthersOf(u, title) = {r \in ToSet(u) : r.task # title}
    BY RowsListed
  <2> QED BY <1>2, <1>4, <1>7, <1>8, <1>10, <2>1
<1>12. {r \in ToSet(u) : r.task = title} = ToSet(items)
  BY <1>2, <1>4, <1>7, <1>8, <1>10
<1>13. DaysListed(u, title) = days
  <2>1. DaysListed(u, title)
            = {WD!Weekday(r.ts + Zone) : r \in {q \in ToSet(u) : q.task = title}}
    BY RowsListed
  <2> QED BY <1>4, <1>12, <2>1
<1>14. ASSUME NEW i \in RowsOf(u, title)
       PROVE  /\ WD!TimeOfDay(u[i].ts + Zone) = s.tod
              /\ u[i].comment = first.comment /\ u[i].does_repeat
  <2>1. u[i] \in ToSet(items)
    BY <1>12 DEF RowsOf, ToSet
  <2> QED BY <1>4, <2>1
<1>15. Moved(u, s)
  BY <1>10, <1>11, <1>13, <1>14 DEF Moved, first, days, d
<1> QED BY <1>15 DEF u, read, rest, items

-----------------------------------------------------------------------------
(* The invariant                                                           *)

\* One user, and a file that can be written.
Undisturbed ==
    /\ \A c, d \in Clients : c = d
    /\ Faults \cap {"open", "readonly", "write"} = {}

\* Where the function is tells what is in the file and in the table of the
\* running command.
ScriptInv(c) ==
    LET s == script[c]
    IN  /\ cpc[c] = "flush" => file = <<>>
        /\ s.at # "none" =>
              /\ Len(s.before) <= MaxRows /\ RowsOf(s.before, s.title) # {}
              /\ s.payload = Payload(s.before, s.title, s.tod)
              /\ outcome = NoOutcome
        /\ s.at \in {"listed", "removed"} => cpc[c] = "idle"
        /\ s.at = "listed" => s.before = ParseConfig(file)
        /\ s.at = "removed" => file = Without(s)
        /\ s.at \in {"remove", "add"} =>
              cpc[c] # "idle" /\ (cpc[c] = "kill" => file = ctab[c])
        /\ s.at = "remove" => ctab[c] = Without(s)
        /\ s.at = "add" => Sayable(s) /\ Moved(ctab[c], s)

VInv ==
    /\ CInv /\ file \in Seq(Alarm) /\ clock \in Nat
    /\ script \in [Clients -> Entry \cup {NoScript}]
    /\ \A c \in Clients : ScriptInv(c)
    /\ outcome.ended => \A c \in Clients : cpc[c] = "idle" /\ At(c, "none")
    /\ ReplaceTellsTruth

\* While the only user is at something, no replace has just ended.
LEMMA OneScript ==
    ASSUME Undisturbed, NEW c \in Clients, CInv', file' \in Seq(Alarm),
           clock' \in Nat, script' \in [Clients -> Entry \cup {NoScript}],
           ScriptInv(c)', ~ outcome'.ended
    PROVE  VInv'
<1>1. \A d \in Clients : ScriptInv(d)'
  BY DEF Undisturbed
<1>2. ReplaceTellsTruth'
  BY DEF ReplaceTellsTruth
<1> QED BY <1>1, <1>2, Zenon DEF VInv

\* A replace of the only user that has ended.
LEMMA Ended ==
    ASSUME Undisturbed, NEW c \in Clients, CInv', file' \in Seq(Alarm),
           clock' \in Nat, cpc'[c] = "idle",
           script \in [Clients -> Entry \cup {NoScript}], script[c] \in Entry,
           NEW status \in BOOLEAN, End(c, status), status <=> Sayable(script[c]),
           OthersOf(file', script[c].title)
               = OthersOf(script[c].before, script[c].title),
           status => Moved(file', script[c])
    PROVE  VInv'
<1> DEFINE s == script[c]
<1>1. \A d \in Clients : d = c
  BY DEF Undisturbed
<1>2. script' = [script EXCEPT ![c] = NoScript] /\ NoScript.at = "none"
  BY DEF End, NoScript
<1>3. /\ script' \in [Clients -> Entry \cup {NoScript}]
      /\ \A d \in Clients : script'[d] = NoScript /\ cpc'[d] = "idle"
  BY <1>1, <1>2
<1>4. \A d \in Clients : ScriptInv(d)'
  BY <1>2, <1>3 DEF ScriptInv
<1>5. Table' = file'
  BY <1>3 DEF Table
<1>6. /\ outcome'.ended /\ (outcome'.ok <=> status) /\ outcome'.title = s.title
      /\ outcome'.tod = s.tod /\ outcome'.before = s.before
  BY DEF End
<1>7. ReplaceTellsTruth'
  <2> DEFINE first == s.before[TaskFind(s.before, s.title)]
             days  == DaysListed(s.before, s.title)
  <2>1. outcome'.ok <=>
            /\ first.does_repeat /\ s.tod # BadTime
            /\ days \in {1..5, {6, 0}, 0..6} \/ Cardinality(days) = 1
    BY <1>6 DEF Sayable, Named
  <2>2. outcome'.ok => Moved(file', s)
    BY <1>6
  <2> HIDE DEF s
  <2> QED BY <1>5, <1>6, <2>1, <2>2 DEF ReplaceTellsTruth, Moved, s
<1>8. \A d \in Clients : cpc'[d] = "idle" /\ At(d, "none")'
  BY <1>2, <1>3 DEF At
<1> QED BY <1>3, <1>4, <1>7, <1>8, Zenon DEF VInv

\* At first nothing runs.
LEMMA InitReplace == ReplaceInit => VInv
<1> SUFFICES ASSUME ReplaceInit PROVE VInv
  OBVIOUS
<1>1. CInv
  BY InitCommands DEF ReplaceInit
<1>2. file \in Seq(Alarm) /\ clock \in Nat
  BY InitFilesAssumption DEF ReplaceInit
<1>3. /\ script \in [Clients -> Entry \cup {NoScript}]
      /\ \A c \in Clients : script[c] = NoScript /\ cpc[c] = "idle"
  BY DEF ReplaceInit, CliInit
<1>4. \A c \in Clients : ScriptInv(c)
  BY <1>3 DEF ScriptInv, NoScript
<1>5. outcome.ended = FALSE
  BY DEF ReplaceInit, NoOutcome
<1>6. ReplaceTellsTruth
  BY <1>5 DEF ReplaceTellsTruth
<1> QED BY <1>1, <1>2, <1>3, <1>4, <1>5, <1>6 DEF VInv

-----------------------------------------------------------------------------
(* Every step keeps it                                                     *)

\* What the invariant says of a replace under way.
LEMMA UnderWay ==
    ASSUME VInv, NEW c \in Clients, ~ At(c, "none")
    PROVE  LET s == script[c]
           IN  /\ s \in Entry /\ s.before \in Seq(Alarm) /\ s.title \in Tasks
               /\ s.tod \in NewTimes \cup {BadTime} /\ s.payload \in Command
               /\ outcome = NoOutcome /\ ~ outcome.ended
<1>1. script[c] \in Entry
  BY DEF VInv, At, NoScript
<1>2. outcome = NoOutcome
  BY DEF VInv, ScriptInv, At
<1>3. ~ outcome.ended
  BY <1>2 DEF NoOutcome
<1> QED BY <1>1, <1>2, <1>3 DEF Entry

\* The list is read; the title may not be in it.
LEMMA ListKeeps ==
    ASSUME VInv, Undisturbed, NEW c \in Clients, List(c)
    PROVE  VInv'
<1>1. /\ CInv /\ file \in Seq(Alarm) /\ clock \in Nat /\ ScriptInv(c)
      /\ script \in [Clients -> Entry \cup {NoScript}]
  BY DEF VInv
<1>2. CInv'
  <2>1. left' \in [Clients -> 0..MaxCommands]
    <3>1. left[c] \in 0..MaxCommands /\ left[c] > 0 /\ MaxCommands \in Nat
      BY <1>1, CommandsAssumption DEF List, CInv, CliTypeOK
    <3>2. left[c] - 1 \in 0..MaxCommands
      BY <3>1
    <3> QED BY <1>1, <3>2 DEF List, CInv, CliTypeOK
  <2>2. UNCHANGED <<cpc, ctab, asked, acked, gone, unsaid>>
    BY DEF List
  <2>3. CliTypeOK'
    BY <1>1, <2>1, <2>2, Zenon DEF CInv, CliTypeOK
  <2> QED BY <1>1, <2>2, <2>3 DEF CInv, WritesSorted
<1>3. /\ UNCHANGED <<clock, file, cpc, ctab>> /\ outcome' = NoOutcome
      /\ cpc[c] = "idle" /\ script[c].at = "none"
  BY DEF List, world, At
<1>4. ~ outcome'.ended
  BY <1>3 DEF NoOutcome
<1>5. PICK title \in Tasks, tod \in NewTimes \cup {BadTime} :
         LET lst == ParseConfig(file)
         IN  IF RowsOf(lst, title) = {} THEN UNCHANGED script
             ELSE script' = [script EXCEPT ![c] =
                      [at |-> "listed", title |-> title, tod |-> tod,
                       before |-> lst, payload |-> Payload(lst, title, tod)]]
  BY DEF List
<1> DEFINE lst == ParseConfig(file)
           s   == [at |-> "listed", title |-> title, tod |-> tod,
                   before |-> lst, payload |-> Payload(lst, title, tod)]
<1>6. lst \in Seq(Alarm) /\ Len(lst) <= MaxRows
  BY <1>1, EmptySeq, PushAllProperties DEF ParseConfig
<1>7. CASE RowsOf(lst, title) = {}
  <2>1. script' = script
    BY <1>5, <1>7
  <2>2. ScriptInv(c)'
    BY <1>3, <2>1 DEF ScriptInv
  <2> QED BY <1>1, <1>2, <1>3, <1>4, <2>1, <2>2, OneScript
<1>8. CASE RowsOf(lst, title) # {}
  <2>1. script' = [script EXCEPT ![c] = s]
    BY <1>5, <1>8
  <2>2. s.payload \in Command
    BY <1>6, <1>8, PayloadSays
  <2>3. /\ s.at = "listed" /\ s.title = title /\ s.tod = tod /\ s.before = lst
        /\ s.payload = Payload(lst, title, tod)
    OBVIOUS
  <2>4. s \in Entry
    BY <1>6, <2>2 DEF Entry
  <2> HIDE DEF s
  <2>5. script' \in [Clients -> Entry \cup {NoScript}] /\ script'[c] = s
    BY <1>1, <2>1, <2>4
  <2>6. lst = ParseConfig(file')
    BY <1>3
  <2> HIDE DEF lst
  <2>7. ScriptInv(c)'
    BY <1>3, <1>6, <1>8, <2>3, <2>5, <2>6 DEF ScriptInv
  <2> QED BY <1>1, <1>2, <1>3, <1>4, <2>5, <2>7, OneScript
<1> QED BY <1>7, <1>8

\* A command that is started by the function keeps the invariant of commands.
LEMMA RunKeepsCommands ==
    ASSUME VInv, NEW c \in Clients, NEW from, NEW cmd \in Command, NEW to,
           RunCommand(c, from, cmd, to)
    PROVE  CInv' /\ file' = file /\ file' \in Seq(Alarm) /\ clock' \in Nat
<1>1. CInv /\ file \in Seq(Alarm) /\ clock \in Nat
  BY DEF VInv
<1>2. Invoke(c, cmd) /\ UNCHANGED <<world, left, acked, gone, unsaid>>
  BY DEF RunCommand
<1>3. CInv'
  BY <1>1, <1>2, InvokeKeeps DEF CInv, CliTypeOK
<1>4. file' = file /\ clock' = clock
  BY <1>2 DEF world
<1> QED BY <1>1, <1>3, <1>4

\* A state of the function that goes on stays one.
LEMMA GoToType ==
    ASSUME script \in [Clients -> Entry \cup {NoScript}], NEW c \in Clients,
           script[c] \in Entry, NEW to \in {"remove", "removed", "add"}, GoTo(c, to)
    PROVE  LET s == script[c]
               z == script'[c]
           IN  /\ script' \in [Clients -> Entry \cup {NoScript}]
               /\ z.at = to /\ z.title = s.title /\ z.tod = s.tod
               /\ z.before = s.before /\ z.payload = s.payload
<1> DEFINE s == script[c]
           z == [s EXCEPT !.at = to]
<1>1. script' = [script EXCEPT ![c] = z]
  BY DEF GoTo
<1>2. /\ z \in Entry /\ z.at = to /\ z.title = s.title /\ z.tod = s.tod
      /\ z.before = s.before /\ z.payload = s.payload
  BY DEF Entry
<1> HIDE DEF z
<1> QED BY <1>1, <1>2

\* The removal is started, and finds the title.
LEMMA RunRemoveKeeps ==
    ASSUME VInv, Undisturbed, NEW c \in Clients, RunRemove(c)
    PROVE  VInv'
<1> DEFINE s   == script[c]
           cmd == Removal(s.title)
<1>1. RunCommand(c, "listed", cmd, "remove") /\ s.at = "listed"
  BY DEF RunRemove, RunCommand, At
<1>2. /\ s \in Entry /\ s.title \in Tasks /\ outcome = NoOutcome /\ ~ outcome.ended
  BY <1>1, UnderWay DEF At
<1>3. /\ cpc[c] = "idle" /\ s.before = ParseConfig(file)
      /\ Len(s.before) <= MaxRows /\ RowsOf(s.before, s.title) # {}
      /\ s.payload = Payload(s.before, s.title, s.tod)
  BY <1>1 DEF VInv, ScriptInv
<1>4. /\ cmd.op = "remove" /\ cmd.task = s.title /\ cmd \in Command
  BY <1>2, EmptySeq, CommandsAssumption DEF Removal, Command
<1> HIDE DEF cmd
<1>5. /\ CInv' /\ file' = file /\ file' \in Seq(Alarm) /\ clock' \in Nat
  BY <1>1, <1>4, RunKeepsCommands
<1>6. ~ Refused(ParseConfig(file), cmd)
  BY <1>3, <1>4 DEF Refused
<1>7. Changed(ParseConfig(file), cmd, clock) = Without(s)
  BY <1>3, <1>4 DEF Changed, Without
<1>8. /\ ctab' = [ctab EXCEPT ![c] = Without(s)]
      /\ cpc' = [cpc EXCEPT ![c] = "open"]
  BY <1>1, <1>6, <1>7 DEF RunCommand, Invoke
<1>9. ctab'[c] = Without(s) /\ cpc'[c] = "open"
  BY <1>8 DEF VInv, CInv, CliTypeOK
<1>10. GoTo(c, "remove") /\ outcome' = outcome
  BY <1>1, <1>9 DEF RunCommand
<1> DEFINE z == script'[c]
<1>11. /\ script' \in [Clients -> Entry \cup {NoScript}]
       /\ z.at = "remove" /\ z.title = s.title /\ z.tod = s.tod
       /\ z.before = s.before /\ z.payload = s.payload
  BY <1>2, <1>10, GoToType DEF VInv
<1>12. Without(z) = Without(s)
  BY <1>11 DEF Without
<1> HIDE DEF s, z
<1>13. ScriptInv(c)'
  BY <1>2, <1>3, <1>9, <1>10, <1>11, <1>12 DEF ScriptInv, z
<1> QED BY <1>2, <1>5, <1>10, <1>11, <1>13, OneScript

\* What the removal has left in the file is read as it is, without the title.
LEMMA Removed ==
    ASSUME NEW s, s.before \in Seq(Alarm), s.title \in Tasks,
           Len(s.before) <= MaxRows
    PROVE  /\ OthersOf(Without(s), s.title) = OthersOf(s.before, s.title)
           /\ RowsOf(ParseConfig(Without(s)), s.title) = {}
<1> DEFINE rest == Without(s)
           e    == Cardinality(RowsOf(s.before, s.title))
           read == ParseConfig(rest)
<1>1. /\ rest \in Seq(Alarm) /\ RowsOf(rest, s.title) = {}
      /\ ToSet(rest) = OthersOf(s.before, s.title)
      /\ Len(rest) = Len(s.before) - e
  BY RemovalLeaves DEF Without
<1>2. e \in Nat /\ Len(s.before) \in Nat /\ MaxRows \in Nat
  BY DaysAreFew, LenProperties, MaxRowsAssumption
<1> HIDE DEF rest, e
<1>3. Len(rest) <= MaxRows
  BY <1>1, <1>2
<1>4. ToSet(read) = ToSet(rest)
  BY <1>1, <1>3, ParsedWhole
<1>5. \A r \in ToSet(rest) : r.task # s.title
  BY <1>1 DEF RowsOf, ToSet
<1>6. OthersOf(rest, s.title) = ToSet(rest)
  BY <1>5, RowsListed
<1>7. RowsOf(read, s.title) = {}
  <2> HIDE DEF read
  <2> QED BY <1>4, <1>5 DEF RowsOf, ToSet
<1> QED BY <1>1, <1>6, <1>7 DEF rest

\* The add is started; it is refused unless it can be said, and then the title
\* is gone.
LEMMA RunAddKeeps ==
    ASSUME VInv, Undisturbed, NEW c \in Clients, RunAdd(c)
    PROVE  VInv'
<1> DEFINE s   == script[c]
           lst == ParseConfig(file)
           cmd == s.payload
<1>1. RunCommand(c, "removed", cmd, "add") /\ s.at = "removed"
  BY DEF RunAdd, RunCommand, At
<1>2. /\ s \in Entry /\ s.before \in Seq(Alarm) /\ s.title \in Tasks
      /\ s.tod \in NewTimes \cup {BadTime} /\ cmd \in Command
      /\ outcome = NoOutcome /\ ~ outcome.ended
  BY <1>1, UnderWay DEF At
<1>3. /\ cpc[c] = "idle" /\ file = Without(s)
      /\ Len(s.before) <= MaxRows /\ RowsOf(s.before, s.title) # {}
      /\ cmd = Payload(s.before, s.title, s.tod)
  BY <1>1 DEF VInv, ScriptInv
<1>4. /\ CInv' /\ file' = file /\ file' \in Seq(Alarm) /\ clock' \in Nat
  BY <1>1, <1>2, RunKeepsCommands
<1>5. script \in [Clients -> Entry \cup {NoScript}] /\ clock \in Int
  BY DEF VInv
<1>6. /\ OthersOf(file, s.title) = OthersOf(s.before, s.title)
      /\ RowsOf(lst, s.title) = {}
  BY <1>2, <1>3, Removed
<1>7. /\ cmd.task = s.title /\ cmd.op \in {"add", "weekly"}
      /\ ~ Sayable(s) => cmd.times = <<>>
      /\ Sayable(s) => cmd.op = "weekly" /\ cmd.times # <<>>
  <2> DEFINE before == s.before  title == s.title  tod == s.tod
             p == Payload(before, title, tod)
             say == /\ before[TaskFind(before, title)].does_repeat
                    /\ tod # BadTime /\ Named(DaysListed(before, title))
  <2>1. /\ before \in Seq(Alarm) /\ title \in Tasks
        /\ tod \in NewTimes \cup {BadTime} /\ RowsOf(before, title) # {}
    BY <1>2, <1>3
  <2>2. cmd = p /\ (Sayable(s) <=> say)
    BY <1>3 DEF Sayable
  <2> HIDE DEF before, title, tod
  <2>3. /\ p.task = title /\ p.op \in {"add", "weekly"}
        /\ ~ say => p.times = <<>>
        /\ say => p.op = "weekly" /\ p.times # <<>>
    BY <2>1, PayloadSays
  <2> HIDE DEF p, say, s
  <2> QED BY <2>2, <2>3 DEF title
<1> HIDE DEF s, cmd
<1>8. CASE ~ Sayable(s)
  <2>1. Refused(lst, cmd)
    BY <1>7, <1>8 DEF Refused
  <2>2. cpc' = cpc
    BY <1>1, <2>1 DEF RunCommand, Invoke
  <2>3. End(c, FALSE)
    BY <1>1, <1>3, <2>2 DEF RunCommand
  <2> QED BY <1>2, <1>3, <1>4, <1>5, <1>6, <1>8, <2>2, <2>3, Ended DEF s
<1>9. CASE Sayable(s)
  <2> DEFINE tab == PushAll(lst, Items(cmd, clock))
  <2>1. ~ Refused(lst, cmd)
    BY <1>6, <1>7, <1>9 DEF Refused, IsDuplicateNonRepeat
  <2>2. Changed(lst, cmd, clock) = tab
    BY <1>7 DEF Changed
  <2>3. Moved(tab, s)
    BY <1>2, <1>3, <1>5, <1>9, AddMoves
  <2> HIDE DEF lst, tab
  <2>4. ctab' = [ctab EXCEPT ![c] = tab] /\ cpc' = [cpc EXCEPT ![c] = "open"]
    BY <1>1, <2>1, <2>2 DEF RunCommand, Invoke, lst
  <2>5. ctab'[c] = tab /\ cpc'[c] = "open"
    BY <2>4 DEF VInv, CInv, CliTypeOK
  <2>6. GoTo(c, "add") /\ outcome' = outcome
    BY <1>1, <2>5 DEF RunCommand
  <2> DEFINE z == script'[c]
  <2>7. /\ script' \in [Clients -> Entry \cup {NoScript}]
        /\ z.at = "add" /\ z.title = s.title /\ z.tod = s.tod
        /\ z.before = s.before /\ z.payload = cmd
    BY <1>2, <1>5, <2>6, GoToType DEF s, cmd
  <2> HIDE DEF z
  <2>8. Sayable(z) /\ Moved(tab, z)
    BY <1>9, <2>3, <2>7 DEF Sayable, Moved
  <2>9. ScriptInv(c)'
    BY <1>2, <1>3, <2>5, <2>6, <2>7, <2>8 DEF ScriptInv, z
  <2> QED BY <1>2, <1>4, <2>6, <2>7, <2>9, OneScript
<1> QED BY <1>8, <1>9

\* A running command opens the file and writes all of its table.
LEMMA RunningWrites ==
    ASSUME VInv, Undisturbed, NEW c \in Clients, Open(c) \/ Flush(c)
    PROVE  /\ CInv' /\ UNCHANGED <<clock, ctab>>
           /\ file' \in Seq(Alarm) /\ clock' \in Nat
           /\ \/ cpc'[c] = "flush" /\ file' = <<>>
              \/ cpc'[c] = "kill" /\ file' = ctab'[c]
<1>1. /\ CInv /\ ctab[c] \in Seq(Alarm) /\ clock \in Nat /\ <<>> \in Seq(Alarm)
      /\ cpc \in [Clients -> {"idle", "open", "flush", "kill"}]
  BY EmptySeq DEF VInv, CInv, CliTypeOK
<1>2. CInv'
  BY <1>1, RunningKeeps
<1>3. CASE Open(c)
  <2>1. ~ OpenMayFail
    BY DEF OpenMayFail, Undisturbed
  <2>2. file' = <<>> /\ cpc' = [cpc EXCEPT ![c] = "flush"]
    BY <1>3, <2>1 DEF Open, TruncateConfig
  <2> QED BY <1>1, <1>2, <1>3, <2>2 DEF Open
<1>4. CASE Flush(c)
  <2>1. file = <<>>
    BY <1>4 DEF Flush, VInv, ScriptInv
  <2>2. file' \in Overlays(ctab[c], <<>>)
    BY <1>4, <2>1 DEF Flush, WriteRows, Undisturbed
  <2>3. file' = ctab[c]
    <3>1. ASSUME NEW k \in 2..Len(<<>>) + 2
          PROVE  ctab[c] \o SubSeq(<<>>, k, Len(<<>>)) = ctab[c]
      <4>1. Len(<<>>) = 0 /\ k \in Int /\ 0 < k
        OBVIOUS
      <4>2. SubSeq(<<>>, k, Len(<<>>)) = <<>>
        BY <4>1, SubSeqEmpty
      <4>3. ctab[c] \o <<>> = ctab[c]
        BY <1>1, ConcatEmptySeq
      <4> QED BY <4>2, <4>3
    <3> QED BY <2>2, <3>1 DEF Overlays
  <2> QED BY <1>1, <1>2, <1>4, <2>3 DEF Flush
<1> QED BY <1>3, <1>4

\* The command that the function runs goes on.
LEMMA CommandRunsKeeps ==
    ASSUME VInv, Undisturbed, NEW c \in Clients, CommandRuns(c)
    PROVE  VInv'
<1> DEFINE s == script[c]
<1>1. /\ CInv' /\ UNCHANGED <<clock, ctab>>
      /\ file' \in Seq(Alarm) /\ clock' \in Nat
      /\ \/ cpc'[c] = "flush" /\ file' = <<>>
         \/ cpc'[c] = "kill" /\ file' = ctab'[c]
  BY RunningWrites DEF CommandRuns
<1>2. script' = script /\ outcome' = outcome /\ s.at \in {"remove", "add"}
  BY <1>1 DEF CommandRuns, replaceVars
<1>3. outcome = NoOutcome /\ ~ outcome.ended
  BY <1>2, UnderWay DEF At
<1>4. /\ Len(s.before) <= MaxRows /\ RowsOf(s.before, s.title) # {}
      /\ s.payload = Payload(s.before, s.title, s.tod)
      /\ s.at = "remove" => ctab[c] = Without(s)
      /\ s.at = "add" => Sayable(s) /\ Moved(ctab[c], s)
  BY <1>2 DEF VInv, ScriptInv
<1>5. script'[c] = s /\ ctab'[c] = ctab[c]
  BY <1>1, <1>2
<1> HIDE DEF s
<1>6. ScriptInv(c)'
  BY <1>1, <1>2, <1>3, <1>4, <1>5 DEF ScriptInv
<1>7. script' \in [Clients -> Entry \cup {NoScript}]
  BY <1>2 DEF VInv
<1> QED BY <1>1, <1>2, <1>3, <1>6, <1>7, OneScript

\* The command that the function runs is through: the removal, or the add.
LEMMA CommandReturnsKeeps ==
    ASSUME VInv, Undisturbed, NEW c \in Clients, CommandReturns(c)
    PROVE  VInv'
<1> DEFINE s == script[c]
<1>1. Kill(c) /\ s.at \in {"remove", "add"}
  BY DEF CommandReturns, At
<1>2. /\ CInv /\ file \in Seq(Alarm) /\ clock \in Nat
      /\ cpc \in [Clients -> {"idle", "open", "flush", "kill"}]
      /\ script \in [Clients -> Entry \cup {NoScript}]
  BY DEF VInv, CInv, CliTypeOK
<1>3. CInv' /\ cpc'[c] = "idle" /\ file' = file /\ clock' = clock
  BY <1>1, <1>2, KillKeeps DEF Kill, world
<1>4. s \in Entry /\ outcome = NoOutcome /\ ~ outcome.ended
  BY <1>1, UnderWay DEF At
<1>5. /\ Len(s.before) <= MaxRows /\ RowsOf(s.before, s.title) # {}
      /\ s.payload = Payload(s.before, s.title, s.tod) /\ file = ctab[c]
      /\ s.at = "remove" => ctab[c] = Without(s)
      /\ s.at = "add" => Sayable(s) /\ Moved(ctab[c], s)
  BY <1>1 DEF VInv, ScriptInv, Kill
<1>6. CASE s.at = "remove"
  <2>1. GoTo(c, "removed") /\ outcome' = outcome
    BY <1>6 DEF CommandReturns, At
  <2> DEFINE z == script'[c]
  <2>2. /\ script' \in [Clients -> Entry \cup {NoScript}]
        /\ z.at = "removed" /\ z.title = s.title /\ z.tod = s.tod
        /\ z.before = s.before /\ z.payload = s.payload
    BY <1>2, <1>4, <2>1, GoToType
  <2>3. Without(z) = Without(s)
    BY <2>2 DEF Without
  <2>4. file' = Without(s)
    BY <1>3, <1>5, <1>6
  <2> HIDE DEF s, z
  <2>5. ScriptInv(c)'
    BY <1>3, <1>4, <1>5, <2>1, <2>2, <2>3, <2>4 DEF ScriptInv, z
  <2> QED BY <1>2, <1>3, <1>4, <2>1, <2>2, <2>5, OneScript
<1>7. CASE s.at = "add"
  <2>1. End(c, TRUE)
    BY <1>7 DEF CommandReturns, At
  <2>2. Sayable(s) /\ Moved(file', s)
    BY <1>3, <1>5, <1>7
  <2>3. OthersOf(file', s.title) = OthersOf(s.before, s.title)
    BY <2>2 DEF Moved
  <2> QED BY <1>2, <1>3, <1>4, <2>1, <2>2, <2>3, Ended
<1> QED BY <1>1, <1>6, <1>7

\* A command on its own.
LEMMA PlainStepKeeps ==
    ASSUME VInv, Undisturbed, NEW c \in Clients, PlainStep(c)
    PROVE  VInv'
<1>1. /\ CInv /\ file \in Seq(Alarm) /\ clock \in Nat /\ ScriptInv(c)
      /\ script \in [Clients -> Entry \cup {NoScript}]
      /\ script' = script /\ script[c].at = "none"
      /\ cpc \in [Clients -> {"idle", "open", "flush", "kill"}]
  BY DEF VInv, PlainStep, At, CInv, CliTypeOK
<1>2. ASSUME CInv', file' \in Seq(Alarm), clock' \in Nat, ~ outcome'.ended,
             cpc'[c] = "flush" => file' = <<>>
      PROVE  VInv'
  <2>1. ScriptInv(c)'
    BY <1>1, <1>2 DEF ScriptInv
  <2> QED BY <1>1, <1>2, <2>1, OneScript
<1>3. CASE Begin(c) /\ outcome' = NoOutcome
  <2>1. CInv'
    BY <1>1, <1>3, BeginKeeps
  <2>2. file' = file /\ clock' = clock
    BY <1>3 DEF Begin, world
  <2>3. cpc'[c] \in {"idle", "open"}
    BY <1>1, <1>3 DEF Begin, Invoke
  <2> QED BY <1>1, <1>2, <1>3, <2>1, <2>2, <2>3 DEF NoOutcome
<1>4. CASE (Open(c) \/ Flush(c) \/ Kill(c)) /\ outcome' = outcome
  <2>1. ~ outcome'.ended
    BY <1>4 DEF VInv, Open, Flush, Kill
  <2>2. CASE Open(c) \/ Flush(c)
    BY <1>2, <2>1, <2>2, RunningWrites
  <2>3. CASE Kill(c)
    <3>1. CInv' /\ cpc'[c] = "idle" /\ file' = file /\ clock' = clock
      BY <1>1, <2>3, KillKeeps DEF Kill, world
    <3> QED BY <1>1, <1>2, <2>1, <3>1
  <2> QED BY <1>4, <2>2, <2>3
<1> QED BY <1>3, <1>4 DEF PlainStep

\* The clock alone, or nothing, moves.
LEMMA ClockKeeps ==
    ASSUME VInv, clock' \in Nat, UNCHANGED <<file, pidFile, cliVars, replaceVars>>
    PROVE  VInv'
<1>1. /\ file' = file /\ cpc' = cpc /\ ctab' = ctab
      /\ script' = script /\ outcome' = outcome
  BY DEF cliVars, replaceVars
<1>2. CInv'
  BY CommandsUnchanged DEF VInv
<1>3. \A c \in Clients : ScriptInv(c)'
  BY <1>1 DEF VInv, ScriptInv
<1>4. ReplaceTellsTruth'
  <2>1. Table' = Table
    BY <1>1 DEF Table
  <2> QED BY <1>1, <2>1 DEF VInv, ReplaceTellsTruth
<1> QED BY <1>1, <1>2, <1>3, <1>4 DEF VInv, At

\* Every step of the system keeps the invariant.
LEMMA StepReplace ==
    ASSUME VInv, Undisturbed, [ReplaceNext]_<<world, cliVars, replaceVars>>
    PROVE  VInv'
<1>1. CASE UNCHANGED <<world, cliVars, replaceVars>>
  BY <1>1, ClockKeeps DEF world, VInv
<1>2. CASE Tick /\ UNCHANGED <<file, pidFile, cliVars, replaceVars>>
  BY <1>2, ClockKeeps DEF Tick, VInv
<1>3. ASSUME NEW c \in Clients, PlainStep(c) \/ ReplaceStep(c) PROVE VInv'
  BY <1>3, PlainStepKeeps, ListKeeps, RunRemoveKeeps, RunAddKeeps,
     CommandRunsKeeps, CommandReturnsKeeps DEF ReplaceStep
<1> QED BY <1>1, <1>2, <1>3 DEF ReplaceNext

\* When one user writes the file, and it can be written, a replace that
\* returns 0 has moved its title to the new time, on the days it was listed
\* on, as one row for each; it does so exactly when the days have a word, the
\* title is weekly and the time is one; and it never touches another title.
THEOREM ReplaceDoesWhatItSays ==
    ASSUME Undisturbed
    PROVE  ReplaceSpec => []ReplaceTellsTruth
<1>1. ReplaceInit => VInv
  BY InitReplace
<1>2. VInv /\ [ReplaceNext]_<<world, cliVars, replaceVars>> => VInv'
  BY StepReplace
<1>3. VInv => ReplaceTellsTruth
  BY DEF VInv
<1> QED BY <1>1, <1>2, <1>3, PTL DEF ReplaceSpec

-----------------------------------------------------------------------------
(* Tables as bags                                                          *)

\* How often a row is in a table.
Times(s, a) == Cardinality({i \in DOMAIN s : s[i] = a})

\* The bag of a table counts each of its rows.
LEMMA BagOfTable ==
    ASSUME NEW s
    PROVE  ToBag(s) = [a \in ToSet(s) |-> Times(s, a)]
BY DEF ToBag, Range, ToSet, Times

\* A row is counted exactly if it is there.
LEMMA TimesCount ==
    ASSUME NEW s \in Seq(Alarm), NEW a
    PROVE  /\ IsFiniteSet({i \in DOMAIN s : s[i] = a}) /\ Times(s, a) \in Nat
           /\ a \notin ToSet(s) => Times(s, a) = 0
<1> DEFINE I == {i \in DOMAIN s : s[i] = a}
<1>1. Len(s) \in Nat /\ I \subseteq 1..Len(s)
  BY LenProperties
<1>2. IsFiniteSet(1..Len(s))
  BY <1>1, FS_Interval
<1>3. IsFiniteSet(I) /\ Cardinality(I) \in Nat
  <2> HIDE DEF I
  <2> QED BY <1>1, <1>2, FS_Subset, FS_CardinalityType
<1>4. a \notin ToSet(s) => I = {}
  BY DEF ToSet
<1> QED BY <1>3, <1>4, FS_EmptySet DEF Times

\* Tables with the same rows, each as often, are the same bag.
LEMMA SameBag ==
    ASSUME NEW s, NEW u, ToSet(u) = ToSet(s), \A a \in ToSet(s) : Times(u, a) = Times(s, a)
    PROVE  ToBag(u) = ToBag(s)
BY BagOfTable

\* The rows of two tables together are the union of their bags.
LEMMA BagSum ==
    ASSUME NEW s \in Seq(Alarm), NEW t \in Seq(Alarm), NEW u,
           ToSet(u) = ToSet(s) \cup ToSet(t),
           \A a \in ToSet(u) : Times(u, a) = Times(s, a) + Times(t, a)
    PROVE  ToBag(u) = ToBag(s) (+) ToBag(t)
<1>1. \A a : /\ Times(s, a) \in Nat /\ (a \notin ToSet(s) => Times(s, a) = 0)
             /\ Times(t, a) \in Nat /\ (a \notin ToSet(t) => Times(t, a) = 0)
  BY TimesCount
<1>2. /\ DOMAIN ToBag(s) = ToSet(s) /\ \A a \in ToSet(s) : ToBag(s)[a] = Times(s, a)
      /\ DOMAIN ToBag(t) = ToSet(t) /\ \A a \in ToSet(t) : ToBag(t)[a] = Times(t, a)
  BY BagOfTable
<1>3. ToBag(s) (+) ToBag(t) = [a \in ToSet(u) |-> Times(u, a)]
  <2>1. ASSUME NEW a \in ToSet(u)
        PROVE  (IF a \in ToSet(s) THEN ToBag(s)[a] ELSE 0)
                  + (IF a \in ToSet(t) THEN ToBag(t)[a] ELSE 0) = Times(u, a)
    BY <1>1, <1>2
  <2> QED BY <1>2, <2>1 DEF (+)
<1> QED BY <1>3, BagOfTable

\* Sorting keeps each row as often as it was chosen.
LEMMA ByTimeBag ==
    ASSUME NEW s \in Seq(Alarm), NEW K \in SUBSET DOMAIN s
    PROVE  /\ ByTime(s, K) \in Seq(Alarm) /\ ToSet(ByTime(s, K)) = {s[i] : i \in K}
           /\ \A a : Times(ByTime(s, K), a) = Cardinality({i \in K : s[i] = a})
<1>1. ASSUME NEW a
      PROVE  Times(ByTime(s, K), a) = Cardinality({i \in K : s[i] = a})
  <2> DEFINE u == ByTime(s, K)
  <2>1. Cardinality({i \in DOMAIN u : u[i] \in {a}}) = Cardinality({i \in K : s[i] \in {a}})
    BY ByTimeCount, ZenonT(60)
  <2>2. /\ {i \in DOMAIN u : u[i] \in {a}} = {i \in DOMAIN u : u[i] = a}
        /\ {i \in K : s[i] \in {a}} = {i \in K : s[i] = a}
    BY Zenon
  <2> QED BY <2>1, <2>2 DEF Times
<1> QED BY <1>1, ByTimeProperties, ByTimeRows

\* A removal leaves every other row as often as it was.
LEMMA RemovalBag ==
    ASSUME NEW lst \in Seq(Alarm), NEW t
    PROVE  LET b == ToBag(lst)
           IN  ToBag(TaskRemoveAll(lst, t))
                  = [a \in {r \in DOMAIN b : r.task # t} |-> b[a]]
<1> DEFINE K == DOMAIN lst \ RowsOf(lst, t)
           u == ByTime(lst, K)
<1>1. /\ ToSet(u) = {lst[i] : i \in K}
      /\ \A a : Times(u, a) = Cardinality({i \in K : lst[i] = a})
  BY ByTimeBag
<1> HIDE DEF u
<1>2. ToSet(u) = {r \in ToSet(lst) : r.task # t}
  BY <1>1 DEF RowsOf, ToSet
<1>3. ASSUME NEW a \in ToSet(u) PROVE Times(u, a) = Times(lst, a)
  <2>1. {i \in K : lst[i] = a} = {i \in DOMAIN lst : lst[i] = a}
    BY <1>2 DEF RowsOf
  <2> QED BY <1>1, <2>1 DEF Times
<1>4. /\ ToBag(u) = [a \in ToSet(u) |-> Times(u, a)]
      /\ ToBag(lst) = [a \in ToSet(lst) |-> Times(lst, a)]
  BY BagOfTable
<1> QED BY <1>2, <1>3, <1>4 DEF TaskRemoveAll, u

\* A push of many is the union with those that fit.
LEMMA PushBag ==
    ASSUME NEW lst \in Seq(Alarm), NEW items \in Seq(Alarm), NEW n \in Nat,
           n <= Len(items), Len(lst) + n <= MaxRows,
           n = Len(items) \/ Len(lst) + n = MaxRows
    PROVE  ToBag(PushAll(lst, items)) = ToBag(lst) (+) ToBag(SubSeq(items, 1, n))
<1> DEFINE m == Len(lst)
           k == Len(items)
           l == m + n
           s == lst \o items
           f == SubSeq(items, 1, n)
           K == 1..l
           u == ByTime(s, K)
<1>1. /\ m \in Nat /\ DOMAIN lst = 1..m /\ DOMAIN items = 1..k
      /\ k \in Nat /\ MaxRows \in Nat /\ l = m + n /\ n \in Nat
      /\ n <= k /\ l <= MaxRows /\ (n = k \/ l = MaxRows)
  BY LenProperties, MaxRowsAssumption
<1>2. /\ s \in Seq(Alarm) /\ Len(s) = m + k
      /\ \A i \in 1..m+k : s[i] = IF i <= m THEN lst[i] ELSE items[i - m]
  BY ConcatProperties
<1>3. DOMAIN s = 1..m+k
  BY <1>2, LenProperties
<1> HIDE DEF m, k, l
<1>4. /\ f \in Seq(Alarm) /\ DOMAIN f = 1..n /\ \A i \in 1..n : f[i] = items[i]
  <2>1. \A i \in 1..n : items[i] \in Alarm
    <3>1. \A i \in 1..n : i \in 1..k
      BY <1>1
    <3> QED BY <1>1, <3>1, ElementOfSeq DEF k
  <2>2. /\ f \in Seq(Alarm) /\ Len(f) = IF 1 <= n THEN n - 1 + 1 ELSE 0
        /\ \A i \in 1..n-1+1 : f[i] = items[1 + i - 1]
    BY <2>1, SubSeqProperties
  <2>3. Len(f) = n /\ \A i \in 1..n : i \in 1..n-1+1 /\ 1 + i - 1 = i
    BY <2>2
  <2>4. DOMAIN f = 1..n
    BY <2>2, <2>3, LenProperties
  <2> HIDE DEF f
  <2> QED BY <2>2, <2>3, <2>4
<1> HIDE DEF s, f
<1>5. PushAll(lst, items) = u
  <2>1. {i \in DOMAIN s : i <= MaxRows} = K
    BY <1>1, <1>3
  <2> QED BY <2>1 DEF PushAll, s
<1>6. K \in SUBSET DOMAIN s
  BY <1>1, <1>3
<1>7. \A i \in K : s[i] = IF i <= m THEN lst[i] ELSE f[i - m]
  <2> SUFFICES ASSUME NEW i \in K PROVE s[i] = IF i <= m THEN lst[i] ELSE f[i - m]
    OBVIOUS
  <2>1. i \in 1..m+k /\ (~ (i <= m) => i - m \in 1..n)
    BY <1>1
  <2> QED BY <1>2, <1>4, <2>1
<1>8. /\ ToSet(u) = {s[i] : i \in K}
      /\ \A a : Times(u, a) = Cardinality({i \in K : s[i] = a})
  BY <1>2, <1>6, ByTimeBag
<1> HIDE DEF u
<1>9. \A j \in 1..n : m + j \in K /\ ~ (m + j <= m) /\ m + j - m = j
  BY <1>1
<1>10. \A i \in K : (i <= m => i \in 1..m) /\ (~ (i <= m) => i - m \in 1..n /\ m + (i - m) = i)
  BY <1>1
<1>11. 1..m \subseteq K /\ \A i \in 1..m : i <= m
  BY <1>1
<1> HIDE DEF K
<1>15. ASSUME NEW j \in 1..n PROVE m + j \in K /\ s[m + j] = f[j]
  <2> DEFINE i == m + j
  <2>1. i \in K /\ ~ (i <= m) /\ i - m = j
    <3>1. i \in K
      BY <1>9, Zenon
    <3> QED BY <1>1, <3>1
  <2> HIDE DEF i
  <2>2. s[i] = f[j]
    BY <1>7, <2>1
  <2> QED BY <2>1, <2>2 DEF i
<1>12. ToSet(u) = ToSet(lst) \cup ToSet(f)
  <2>1. ASSUME NEW i \in K PROVE s[i] \in ToSet(lst) \cup ToSet(f)
    BY <1>1, <1>4, <1>7, <1>10 DEF ToSet
  <2>2. ASSUME NEW i \in 1..m PROVE lst[i] \in {s[q] : q \in K}
    BY <1>7, <1>11
  <2>3. ASSUME NEW j \in 1..n PROVE f[j] \in {s[q] : q \in K}
    BY <1>15
  <2> QED BY <1>1, <1>4, <1>8, <2>1, <2>2, <2>3, ZenonT(30) DEF ToSet
<1>13. ASSUME NEW a PROVE Times(u, a) = Times(lst, a) + Times(f, a)
  <2> DEFINE P == {i \in DOMAIN lst : lst[i] = a}
             Q == {j \in DOMAIN f : f[j] = a}
             T == {i \in K : ~ (i <= m) /\ s[i] = a}
             g == [j \in Q |-> m + j]
  <2>1. IsFiniteSet(P) /\ IsFiniteSet(Q) /\ Cardinality(P) \in Nat /\ Cardinality(Q) \in Nat
    BY <1>4, TimesCount DEF Times
  <2>2. {i \in K : s[i] = a} = P \cup T
    BY <1>1, <1>7, <1>10, <1>11
  <2>3. P \cap T = {}
    BY <1>1, <1>11
  <2>4. g \in Bijection(Q, T)
    <3>1. ASSUME NEW j \in Q PROVE m + j \in T /\ j \in 1..n
      <4>1. s[m + j] = f[j]
        BY <1>4, <1>15
      <4> QED BY <1>4, <1>9, <4>1
    <3>2. \A i, j \in Q : g[i] = g[j] => i = j
      BY <1>1, <3>1
    <3>3. ASSUME NEW i \in T PROVE i - m \in Q /\ g[i - m] = i
      BY <1>4, <1>7, <1>10
    <3>4. g \in [Q -> T]
      BY <3>1
    <3> HIDE DEF g, Q, T
    <3> QED BY <3>2, <3>3, <3>4 DEF Bijection, Injection, Surjection, IsInjective
  <2>5. IsFiniteSet(T) /\ Cardinality(T) = Cardinality(Q)
    <3> HIDE DEF g, Q, T
    <3> QED BY <2>1, <2>4, FS_Bijection DEF ExistsBijection
  <2>6. Cardinality(P \cup T) = Cardinality(P) + Cardinality(T) - Cardinality(P \cap T)
    <3> HIDE DEF P, T
    <3> QED BY <2>1, <2>5, FS_Union
  <2>7. Cardinality(P \cup T) = Cardinality(P) + Cardinality(Q)
    <3> HIDE DEF P, Q, T
    <3>1. Cardinality(P \cap T) = 0
      BY <2>3, FS_EmptySet
    <3> QED BY <2>1, <2>5, <2>6, <3>1
  <2>8. Times(u, a) = Cardinality(P \cup T)
    BY <1>8, <2>2
  <2>9. Times(lst, a) = Cardinality(P) /\ Times(f, a) = Cardinality(Q)
    BY DEF Times
  <2> QED BY <2>7, <2>8, <2>9
<1>14. ToBag(u) = ToBag(lst) (+) ToBag(f)
  BY <1>4, <1>12, <1>13, BagSum
<1> QED BY <1>5, <1>14 DEF u, f

\* A file no longer than a table is read as the same bag.
LEMMA ReadBag ==
    ASSUME NEW rows \in Seq(Alarm), Len(rows) <= MaxRows
    PROVE  ToBag(ParseConfig(rows)) = ToBag(rows)
<1> DEFINE K == {i \in DOMAIN rows : i <= MaxRows}
           u == ByTime(rows, K)
<1>1. <<>> \o rows = rows
  BY ConcatEmptySeq
<1>2. ParseConfig(rows) = u
  BY <1>1 DEF ParseConfig, PushAll
<1>3. K = DOMAIN rows
  <2>1. DOMAIN rows = 1..Len(rows) /\ Len(rows) \in Nat /\ MaxRows \in Nat
    BY LenProperties, MaxRowsAssumption
  <2> QED BY <2>1
<1>4. /\ ToSet(u) = {rows[i] : i \in K}
      /\ \A a : Times(u, a) = Cardinality({i \in K : rows[i] = a})
  BY ByTimeBag
<1> HIDE DEF u, K
<1>5. ToSet(u) = ToSet(rows) /\ \A a : Times(u, a) = Times(rows, a)
  BY <1>3, <1>4 DEF ToSet, Times
<1> QED BY <1>2, <1>5, SameBag

-----------------------------------------------------------------------------
(* The book                                                                *)

\* The book counts and collects as the tables do.
LEMMA BookOperators ==
    /\ \A S : B!Cardinality(S) = Cardinality(S)
    /\ \A s : B!ToBag(s) = ToBag(s)
    /\ \A s, t : B!(+)(s, t) = s (+) t
<1>1. \A S : B!Cardinality(S) = Cardinality(S)
  BY DEF B!Cardinality, Cardinality
<1>2. \A s : B!Range(s) = Range(s)
  BY DEF B!Range, Range
<1>3. \A s : B!ToBag(s) = ToBag(s)
  BY <1>1, <1>2 DEF B!ToBag, ToBag
<1>4. \A s, t : B!(+)(s, t) = s (+) t
  BY DEF B!(+), (+)
<1> QED BY <1>1, <1>3, <1>4

\* The book holds as many rows as the table.
LEMMA SizeOfTable ==
    ASSUME NEW s \in Seq(Alarm)
    PROVE  B!Size(ToBag(s)) = Len(s)
<1> DEFINE same(a) == {i \in DOMAIN s : s[i] = a}
           copies == UNION {{a} \X (1..Times(s, a)) : a \in ToSet(s)}
           f == [i \in DOMAIN s |-> <<s[i], Rank(s, same(s[i]), i)>>]
<1>1. DOMAIN s = 1..Len(s) /\ Len(s) \in Nat
  BY LenProperties
<1>2. IsFiniteSet(DOMAIN s) /\ Cardinality(DOMAIN s) = Len(s)
  <2> DEFINE l == Len(s)  one == 1
  <2>1. l \in Int /\ one \in Int /\ l >= one - 1 /\ l - one + 1 = l
    BY <1>1
  <2> HIDE DEF l, one
  <2>2. IsFiniteSet(one..l) /\ Cardinality(one..l) = l - one + 1
    BY <2>1, Counted
  <2> QED BY <1>1, <2>1, <2>2 DEF l, one
<1>3. B!Size(ToBag(s)) = Cardinality(copies)
  <2>1. /\ DOMAIN ToBag(s) = ToSet(s)
        /\ \A a \in ToSet(s) : ToBag(s)[a] = Times(s, a)
    BY BagOfTable
  <2>2. UNION {{a} \X (1..ToBag(s)[a]) : a \in DOMAIN ToBag(s)} = copies
    BY <2>1
  <2> QED BY <2>2, BookOperators DEF B!Size
<1>4. \A a : Times(s, a) = Cardinality(same(a)) /\ same(a) \in SUBSET DOMAIN s
  BY DEF Times
<1>5. \A i \in DOMAIN s : i \in same(s[i])
  OBVIOUS
<1>6. \A a : \A i \in same(a) : s[i] = a /\ i \in DOMAIN s
  OBVIOUS
<1> HIDE DEF same
<1>7. ASSUME NEW a PROVE \A i \in same(a) : Rank(s, same(a), i) \in 1..Times(s, a)
  BY <1>4, RankOrder
<1>8. ASSUME NEW a, NEW i \in same(a), NEW j \in same(a),
             Rank(s, same(a), i) = Rank(s, same(a), j)
      PROVE  i = j
  BY <1>4, <1>7, <1>8, RankUnique
<1>9. ASSUME NEW a, NEW q \in 1..Times(s, a)
      PROVE  \E i \in same(a) : Rank(s, same(a), i) = q
  BY <1>4, RankUnique
<1>10. f \in Bijection(DOMAIN s, copies)
  <2>1. ASSUME NEW i \in DOMAIN s PROVE f[i] \in copies
    <3>1. s[i] \in ToSet(s) /\ Rank(s, same(s[i]), i) \in 1..Times(s, s[i])
      BY <1>5, <1>7 DEF ToSet
    <3> QED BY <3>1
  <2>2. ASSUME NEW i \in DOMAIN s, NEW j \in DOMAIN s, f[i] = f[j] PROVE i = j
    <3>1. s[i] = s[j] /\ Rank(s, same(s[i]), i) = Rank(s, same(s[j]), j)
      BY <2>2
    <3> QED BY <1>5, <1>8, <3>1
  <2>3. ASSUME NEW c \in copies PROVE \E i \in DOMAIN s : f[i] = c
    <3>1. PICK a \in ToSet(s) : c \in {a} \X (1..Times(s, a))
      OBVIOUS
    <3>2. PICK q \in 1..Times(s, a) : c = <<a, q>>
      BY <3>1
    <3>3. PICK i \in same(a) : Rank(s, same(a), i) = q
      BY <1>9
    <3> QED BY <1>6, <3>2, <3>3
  <2>4. f \in [DOMAIN s -> copies]
    BY <2>1
  <2> HIDE DEF f, copies
  <2> QED BY <2>2, <2>3, <2>4 DEF Bijection, Injection, Surjection, IsInjective
<1>11. Cardinality(copies) = Cardinality(DOMAIN s)
  <2> HIDE DEF f, copies
  <2> QED BY <1>2, <1>10, FS_Bijection DEF ExistsBijection
<1> QED BY <1>2, <1>3, <1>11

\* The lesser of two numbers.
LEMMA LesserOfTwo ==
    ASSUME NEW a \in Int, NEW b \in Int
    PROVE  /\ B!Min({a, b}) \in {a, b}
           /\ B!Min({a, b}) <= a /\ B!Min({a, b}) <= b
<1>1. \E x \in {a, b} : \A y \in {a, b} : x <= y
  OBVIOUS
<1> QED BY <1>1 DEF B!Min

\* A command that runs will make of the file what it says.
Ready(c) ==
    LET lst == ParseConfig(file)
    IN  \/ \E t \in Tasks : RowsOf(lst, t) # {} /\ ctab[c] = TaskRemoveAll(lst, t)
        \/ \E cmd \in Adds \cap Command, t \in 0..Horizon :
              ctab[c] = PushAll(lst, Items(cmd, t))

\* When a command empties the file, the book takes its step.
LEMMA OpeningIsStep ==
    ASSUME NEW c \in Clients, file \in Seq(Alarm), Len(file) <= MaxRows,
           Ready(c), Table = file, Table' = ctab[c]
    PROVE  B!Next
<1> DEFINE lst  == ParseConfig(file)
           book == ToBag(file)
<1>1. lst \in Seq(Alarm) /\ Len(lst) = Len(file) /\ ToSet(lst) = ToSet(file)
  BY ParsedWhole
<1>2. ToBag(lst) = book
  BY ReadBag
<1>3. DOMAIN book = ToSet(file)
  BY BagOfTable
<1>4. ToBag(Table) = book /\ ToBag(Table)' = ToBag(ctab[c])
  OBVIOUS
<1> HIDE DEF lst, book
<1>5. ASSUME NEW t \in Tasks, RowsOf(lst, t) # {}, ctab[c] = TaskRemoveAll(lst, t)
      PROVE  B!Drop
  <2>1. \E a \in DOMAIN book : a.task = t
    BY <1>1, <1>3, <1>5 DEF RowsOf, ToSet
  <2>2. ToBag(ctab[c]) = [a \in {r \in DOMAIN book : r.task # t} |-> book[a]]
    <3>1. LET b == ToBag(lst)
          IN  ToBag(TaskRemoveAll(lst, t)) = [a \in {r \in DOMAIN b : r.task # t} |-> b[a]]
      BY <1>1, RemovalBag, Zenon
    <3>2. ToBag(TaskRemoveAll(lst, t)) = [a \in {r \in DOMAIN book : r.task # t} |-> book[a]]
      BY <1>2, <3>1, Zenon
    <3> QED BY <1>5, <3>2, Zenon
  <2> QED BY <1>4, <2>1, <2>2 DEF B!Drop
<1>6. ASSUME NEW cmd \in Adds \cap Command, NEW t \in 0..Horizon,
             ctab[c] = PushAll(lst, Items(cmd, t))
      PROVE  B!Put
  <2> DEFINE rows == Items(cmd, t)
             k == Len(rows)
             m == Len(lst)
             room == MaxRows - m
             n == B!Min({k, room})
  <2>1. rows \in Seq(Alarm)
    BY ItemsType
  <2>2. rows \in {Items(e, u) : e \in Adds, u \in 0..Horizon}
    OBVIOUS
  <2>3. k \in Nat /\ m \in Nat /\ MaxRows \in Nat /\ m <= MaxRows
    BY <1>1, <2>1, LenProperties, MaxRowsAssumption
  <2>4. B!Size(book) = m
    BY <1>1, SizeOfTable DEF book
  <2>5. B!Fitting(rows) = SubSeq(rows, 1, n)
    BY <1>4, <2>4 DEF B!Fitting
  <2> HIDE DEF rows, k, m
  <2>10. k \in Int /\ room \in Int
    BY <2>3
  <2> HIDE DEF room
  <2>6. n \in {k, room} /\ n <= k /\ n <= room
    BY <2>10, LesserOfTwo
  <2> HIDE DEF n
  <2>7. n \in Nat /\ n <= k /\ m + n <= MaxRows /\ (n = k \/ m + n = MaxRows)
    BY <2>3, <2>6 DEF room
  <2>8. ToBag(PushAll(lst, rows)) = ToBag(lst) (+) ToBag(SubSeq(rows, 1, n))
    BY <1>1, <2>1, <2>7, PushBag DEF k, m
  <2>9. ToBag(Table)' = B!(+)(ToBag(Table), B!ToBag(B!Fitting(rows)))
    BY <1>2, <1>4, <1>6, <2>5, <2>8, BookOperators DEF rows
  <2> QED BY <2>2, <2>9 DEF B!Put
<1> QED BY <1>5, <1>6 DEF Ready, B!Next, lst

\* No table grows beyond its capacity, the clock not beyond its bound, and a
\* command that is about to open the file is ready.
KInv ==
    /\ VInv /\ Len(file) <= MaxRows /\ clock \in 0..Horizon
    /\ \A c \in Clients : cpc[c] = "open" => Ready(c)

\* A command that is started is ready.
LEMMA StartsReady ==
    ASSUME KInv, NEW c \in Clients, NEW cmd \in Command, cpc[c] = "idle",
           \/ cmd.op = "remove"
           \/ cmd \in Adds
           \/ Refused(ParseConfig(file), cmd),
           Invoke(c, cmd), file' = file
    PROVE  cpc'[c] \in {"idle", "open"} /\ (cpc'[c] = "open" => Ready(c)')
<1> DEFINE lst == ParseConfig(file)
<1>1. CASE Refused(lst, cmd)
  BY <1>1 DEF Invoke
<1>2. CASE ~ Refused(lst, cmd)
  <2>1. /\ ctab' = [ctab EXCEPT ![c] = Changed(lst, cmd, clock)]
        /\ cpc' = [cpc EXCEPT ![c] = "open"]
    BY <1>2 DEF Invoke
  <2>2. ctab'[c] = Changed(lst, cmd, clock) /\ cpc'[c] = "open"
    BY <2>1 DEF KInv, VInv, CInv, CliTypeOK
  <2>3. ParseConfig(file') = lst /\ clock \in 0..Horizon
    BY DEF KInv
  <2> HIDE DEF lst
  <2>4. CASE cmd.op = "remove"
    <3>1. cmd.task \in Tasks
      BY DEF Command
    <3>2. RowsOf(lst, cmd.task) # {}
      BY <1>2, <2>4 DEF Refused
    <3>3. ctab'[c] = TaskRemoveAll(lst, cmd.task)
      BY <2>2, <2>4 DEF Changed
    <3> QED BY <2>2, <2>3, <3>1, <3>2, <3>3 DEF Ready
  <2>5. CASE cmd.op # "remove"
    <3>1. cmd \in Adds \cap Command
      BY <1>2, <2>5 DEF lst
    <3>2. ctab'[c] = PushAll(lst, Items(cmd, clock))
      BY <2>2, <2>5 DEF Changed
    <3> QED BY <2>2, <2>3, <3>1, <3>2 DEF Ready
  <2> QED BY <2>4, <2>5
<1> QED BY <1>1, <1>2

\* What a replace adds can be added, or is refused.
LEMMA PayloadIsAdd ==
    ASSUME NEW s, s.before \in Seq(Alarm), s.title \in Tasks,
           s.tod \in NewTimes \cup {BadTime}, RowsOf(s.before, s.title) # {}
    PROVE  LET p == Payload(s.before, s.title, s.tod)
           IN  p.op # "remove" /\ (p \in Adds \/ p.times = <<>>)
<1> DEFINE lst   == s.before
           first == lst[TaskFind(lst, s.title)]
           days  == DaysListed(lst, s.title)
           p     == Payload(lst, s.title, s.tod)
<1>1. /\ p.op \in {"add", "weekly"}
      /\ ~ (first.does_repeat /\ s.tod # BadTime /\ Named(days)) => p.times = <<>>
  BY PayloadSays
<1>2. CASE first.does_repeat /\ s.tod # BadTime /\ Named(days)
  <2>1. p = WeeklyAdd(s.title, first.comment, days, s.tod)
    BY <1>2 DEF Payload
  <2>2. first.comment \in Comments
    BY FirstRow
  <2>3. s.tod \in NewTimes
    BY <1>2
  <2>4. days \in {1..5, {6, 0}, 0..6} \cup {{d} : d \in 0..6}
    <3>1. days \in SUBSET (0..6)
      BY DaysAreFew
    <3> HIDE DEF days
    <3>2. CASE Cardinality(days) = 1
      <4>1. IsFiniteSet(days)
        BY <3>1, DaysInSets, FS_Subset
      <4>2. PICK d : days = {d}
        BY <3>2, <4>1, FS_Singleton
      <4> QED BY <3>1, <4>2
    <3> QED BY <1>2, <3>2 DEF Named
  <2> HIDE DEF p, days, first
  <2> DEFINE some   == {1..5, {6, 0}, 0..6} \cup {{d} : d \in 0..6}
             weekly == {WeeklyAdd(u, com, ds, tod) : u \in Tasks, com \in Comments,
                           ds \in some, tod \in NewTimes}
  <2>5. weekly \subseteq Adds
    BY DEF Adds
  <2>6. days \in some
    BY <2>4
  <2> HIDE DEF some
  <2>7. p \in weekly
    BY <2>1, <2>2, <2>3, <2>6
  <2> QED BY <1>1, <2>5, <2>7 DEF p
<1> QED BY <1>1, <1>2

\* The steps of the only user, as the book sees them.
LEMMA StepsOfUser ==
    ASSUME KInv, Undisturbed, NEW c \in Clients, PlainStep(c) \/ ReplaceStep(c)
    PROVE  /\ clock' = clock
           /\ \/ /\ cpc[c] = "idle" /\ cpc'[c] \in {"idle", "open"}
                 /\ file' = file /\ (cpc'[c] = "open" => Ready(c)')
              \/ cpc[c] = "open" /\ cpc'[c] = "flush" /\ file' = <<>> /\ ctab' = ctab
              \/ /\ cpc[c] = "flush" /\ cpc'[c] = "kill"
                 /\ file' = ctab[c] /\ ctab' = ctab
              \/ cpc[c] = "kill" /\ cpc'[c] = "idle" /\ file' = file
<1>1. /\ VInv /\ cpc \in [Clients -> {"idle", "open", "flush", "kill"}]
      /\ ctab \in [Clients -> Seq(Alarm)]
  BY DEF KInv, VInv, CInv, CliTypeOK
<1>2. CASE List(c)
  BY <1>1, <1>2 DEF List, world
<1>3. CASE RunRemove(c)
  <2> DEFINE cmd == Removal(script[c].title)
  <2>1. /\ RunCommand(c, "listed", cmd, "remove") /\ At(c, "listed")
        /\ cmd.op = "remove"
    BY <1>3 DEF RunRemove, RunCommand, Removal
  <2>2. script[c].title \in Tasks /\ cpc[c] = "idle"
    BY <1>1, <2>1, UnderWay DEF At, VInv, ScriptInv
  <2>3. cmd \in Command
    BY <2>2, EmptySeq, CommandsAssumption DEF Removal, Command
  <2> HIDE DEF cmd
  <2>4. Invoke(c, cmd) /\ file' = file /\ clock' = clock
    BY <2>1 DEF RunCommand, world
  <2> QED BY <2>1, <2>2, <2>3, <2>4, StartsReady
<1>4. CASE RunAdd(c)
  <2> DEFINE s == script[c]
             cmd == s.payload
  <2>1. RunCommand(c, "removed", cmd, "add") /\ At(c, "removed")
    BY <1>4 DEF RunAdd, RunCommand
  <2>2. /\ s.before \in Seq(Alarm) /\ s.title \in Tasks /\ cmd \in Command
        /\ s.tod \in NewTimes \cup {BadTime}
    BY <1>1, <2>1, UnderWay DEF At
  <2>3. /\ cpc[c] = "idle" /\ RowsOf(s.before, s.title) # {}
        /\ cmd = Payload(s.before, s.title, s.tod)
    BY <1>1, <2>1 DEF At, VInv, ScriptInv
  <2>4. cmd.op # "remove" /\ (cmd \in Adds \/ cmd.times = <<>>)
    BY <2>2, <2>3, PayloadIsAdd
  <2> HIDE DEF s, cmd
  <2>5. cmd.op \in {"add", "weekly"}
    BY <2>2, <2>4 DEF Command, cmd
  <2>6. cmd \in Adds \/ Refused(ParseConfig(file), cmd)
    BY <2>4, <2>5 DEF Refused
  <2>7. Invoke(c, cmd) /\ file' = file /\ clock' = clock
    BY <2>1 DEF RunCommand, world
  <2> QED BY <2>2, <2>3, <2>6, <2>7, StartsReady DEF cmd
<1>5. CASE Begin(c)
  <2>1. PICK cmd \in Commands : Invoke(c, cmd)
    BY <1>5 DEF Begin
  <2>2. cmd \in Command /\ (cmd.op = "remove" \/ cmd \in Adds)
    BY CommandsAssumption DEF Adds
  <2>3. cpc[c] = "idle" /\ file' = file /\ clock' = clock
    BY <1>5 DEF Begin, world
  <2> QED BY <2>1, <2>2, <2>3, StartsReady
<1>6. CASE Open(c)
  BY <1>1, <1>6, RunningWrites DEF Open
<1>7. CASE Flush(c)
  BY <1>1, <1>7, RunningWrites DEF Flush
<1>8. CASE Kill(c)
  BY <1>1, <1>8 DEF Kill, world
<1> QED BY <1>2, <1>3, <1>4, <1>5, <1>6, <1>7, <1>8
        DEF PlainStep, ReplaceStep, CommandRuns, CommandReturns

\* Every step is one of the book, or none; and the invariant is kept.
LEMMA StepBook ==
    ASSUME KInv, Undisturbed, [ReplaceNext]_<<world, cliVars, replaceVars>>
    PROVE  KInv' /\ [B!Next]_(ToBag(Table))
<1>1. VInv' /\ VInv
  BY StepReplace DEF KInv
<1>2. ASSUME cpc' = cpc, ctab' = ctab, file' = file, clock' \in 0..Horizon
      PROVE  KInv' /\ [B!Next]_(ToBag(Table))
  <2>1. Table' = Table
    BY <1>2 DEF Table
  <2>2. \A c \in Clients : cpc'[c] = "open" => Ready(c)'
    BY <1>2 DEF KInv, Ready
  <2> QED BY <1>1, <1>2, <2>1, <2>2 DEF KInv
<1>3. CASE UNCHANGED <<world, cliVars, replaceVars>>
  BY <1>2, <1>3 DEF world, cliVars, KInv
<1>4. CASE Tick /\ UNCHANGED <<file, pidFile, cliVars, replaceVars>>
  <2>1. clock' \in 0..Horizon
    BY <1>4, HorizonAssumption DEF Tick, KInv
  <2> QED BY <1>2, <1>4, <2>1 DEF cliVars
<1>5. ASSUME NEW c \in Clients, PlainStep(c) \/ ReplaceStep(c)
      PROVE  KInv' /\ [B!Next]_(ToBag(Table))
  <2>1. \A d \in Clients : d = c
    BY DEF Undisturbed
  <2>2. /\ Table = IF cpc[c] = "flush" THEN ctab[c] ELSE file
        /\ Table' = IF cpc'[c] = "flush" THEN ctab'[c] ELSE file'
    <3>1. \A h : /\ (\E d \in Clients : h[d] = "flush") <=> h[c] = "flush"
                 /\ h[c] = "flush" => (CHOOSE d \in Clients : h[d] = "flush") = c
      BY <2>1
    <3> QED BY <3>1 DEF Table
  <2>3. /\ file \in Seq(Alarm) /\ Len(file) <= MaxRows /\ clock \in 0..Horizon
        /\ cpc[c] = "open" => Ready(c)
        /\ cpc[c] # "idle" => Len(ctab[c]) <= MaxRows
    BY <1>1 DEF KInv, VInv, CInv, WritesSorted
  <2>4. Len(<<>>) <= MaxRows
    BY MaxRowsAssumption
  <2>5. ASSUME Len(file') <= MaxRows, clock' = clock, cpc'[c] = "open" => Ready(c)'
        PROVE  KInv'
    BY <1>1, <2>1, <2>3, <2>5 DEF KInv
  <2>6. CASE /\ cpc[c] = "idle" /\ cpc'[c] \in {"idle", "open"} /\ clock' = clock
             /\ file' = file /\ (cpc'[c] = "open" => Ready(c)')
    BY <2>2, <2>3, <2>5, <2>6
  <2>7. CASE /\ cpc[c] = "open" /\ cpc'[c] = "flush" /\ file' = <<>>
             /\ ctab' = ctab /\ clock' = clock
    <3>1. B!Next
      BY <2>2, <2>3, <2>7, OpeningIsStep
    <3> QED BY <2>4, <2>5, <2>7, <3>1
  <2>8. CASE /\ cpc[c] = "flush" /\ cpc'[c] = "kill" /\ file' = ctab[c]
             /\ ctab' = ctab /\ clock' = clock
    BY <2>2, <2>3, <2>5, <2>8
  <2>9. CASE /\ cpc[c] = "kill" /\ cpc'[c] = "idle" /\ file' = file
             /\ clock' = clock
    BY <2>2, <2>3, <2>5, <2>9
  <2> QED BY <1>5, <2>6, <2>7, <2>8, <2>9, StepsOfUser
<1> QED BY <1>3, <1>4, <1>5 DEF ReplaceNext

\* Commands of one user, replaces included, are atomic: with a first file that
\* fits a table, the alarms go from one bag of rows to the next by an add, as
\* far as it fits, or by the removal of a task, and in no other way.
THEOREM CommandsKeepBook ==
    ASSUME Undisturbed, \A f \in InitFiles : Len(f) <= MaxRows
    PROVE  ReplaceSpec => ImplementsTaskBook
<1>1. ReplaceInit => KInv /\ B!Init
  <2> SUFFICES ASSUME ReplaceInit PROVE KInv /\ B!Init
    OBVIOUS
  <2>1. VInv
    BY InitReplace
  <2>2. /\ file \in InitFiles /\ clock = 0
        /\ \A c \in Clients : cpc[c] = "idle"
    BY DEF ReplaceInit, CliInit
  <2>3. Table = file
    BY <2>2 DEF Table
  <2>4. B!Init
    BY <2>2, <2>3, Zenon DEF B!Init
  <2>5. clock \in 0..Horizon
    BY <2>2, HorizonAssumption
  <2> QED BY <2>1, <2>2, <2>4, <2>5 DEF KInv
<1>2. KInv /\ [ReplaceNext]_<<world, cliVars, replaceVars>>
         => KInv' /\ [B!Next]_(ToBag(Table))
  BY StepBook
<1> QED BY <1>1, <1>2, PTL DEF ReplaceSpec, ImplementsTaskBook, B!Spec
=============================================================================
