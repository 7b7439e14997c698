----------------------------- MODULE LoopProofs -----------------------------
(***************************************************************************)
(* The C loops of AlarmLoops compute in place what AlarmList says, for     *)
(* every capacity, every length of a week and all rows.                    *)
(*                                                                         *)
(* The invariant says, for each loop, what the call is still to do: the    *)
(* operator of AlarmList, applied to the rows as they are now, gives what  *)
(* it gives on the table the call has found.                               *)
(***************************************************************************)
EXTENDS AlarmLoops, AlarmListProofs

Result == IF at = "ready" THEN Table ELSE call.lst

\* Nothing is left over from the call before.
ReadyInv == row = 1 /\ cnt = 0 /\ changed = FALSE

Given == IsSortedByTime(call.lst) /\ Len(call.lst) <= MaxRows

\* The rows from k on, of those that are pushed.
Items(k) == SubSeq(call.items, k, Len(call.items))

FeedInv ==
    /\ call.op = "push" /\ call.items \in Batches /\ row <= Len(call.items) + 1
    /\ IsSortedByTime(Table)
    /\ PushAll(Table, Items(row)) = PushAll(call.lst, call.items)

\* The rows with key in its slot: so many, the first InOrderTo of which are in
\* order but for key.
Here      == IF call.op = "push" THEN len + 1 ELSE len
InOrderTo == IF call.op = "push" THEN len + 1 ELSE row
Held      == [q \in 1..Here |-> IF q = pos THEN key ELSE tasks[q]]

SiftInv ==
    /\ call.op \in {"push", "purge"}
    /\ Here <= MaxRows /\ InOrderTo <= Here /\ pos <= InOrderTo
    /\ \A i, j \in 1..InOrderTo :
           i < j /\ i # pos /\ j # pos => tasks[i].ts <= tasks[j].ts
    /\ \A j \in pos+1..InOrderTo : tasks[j].ts > key.ts
    /\ call.op = "push" =>
           /\ call.items \in Batches /\ row <= Len(call.items)
           /\ PushAll(Held, Items(row + 1)) = PushAll(call.lst, call.items)
    /\ call.op = "purge" =>
           /\ call.n \in Moments /\ Due(call.lst, call.n) # {} /\ row >= 2
           /\ ByTime(Held, DOMAIN Held) = Purged(call.lst, call.n)

SortInv ==
    /\ call.op = "purge" /\ call.n \in Moments /\ Due(call.lst, call.n) # {}
    /\ row >= 2 /\ row <= len + 2
    /\ \A i, j \in 1..len : i < j /\ j < row => tasks[i].ts <= tasks[j].ts
    /\ ByTime(Table, DOMAIN Table) = Purged(call.lst, call.n)

\* The rows that are kept so far, and those still to be looked at.
RestOf(f, n, c, r) ==
    [q \in 1..c + (n + 1 - r) |-> IF q <= c THEN f[q] ELSE f[q + (r - 1 - c)]]
Rest == RestOf(tasks, len, cnt, row)

RoundInv ==
    /\ call.op = "purge" /\ call.n \in Moments /\ len = Len(call.lst)
    /\ row <= len + 1 /\ cnt <= row - 1
    /\ \A q \in row..len : tasks[q] = call.lst[q]
    /\ \A q \in 1..cnt : tasks[q].ts > call.n
    /\ Purged(Rest, call.n) = Purged(call.lst, call.n)
    /\ changed => Due(call.lst, call.n) # {}
    /\ ~ changed => cnt = row - 1 /\ \A q \in 1..cnt : tasks[q] = call.lst[q]

WeeksInv ==
    /\ RoundInv
    /\ row <= len /\ call.lst[row].does_repeat /\ call.lst[row].ts <= call.n
    /\ key = [call.lst[row] EXCEPT !.ts = key.ts]
    /\ AdvanceRepeatToFuture(key.ts, call.n)
          = AdvanceRepeatToFuture(call.lst[row].ts, call.n)

FindInv ==
    /\ call.op \in {"find", "remove"} /\ Table = call.lst /\ row <= len + 1
    /\ \A q \in 1..row-1 : tasks[q].task # call.task

ScanInv ==
    /\ call.op = "remove_all" /\ IsSortedByTime(Table)
    /\ row <= len + 1 /\ cnt + len = Len(call.lst)
    /\ \A q \in 1..row-1 : tasks[q].task # call.task
    /\ TaskRemoveAll(Table, call.task) = TaskRemoveAll(call.lst, call.task)
    /\ Cardinality(RowsOf(Table, call.task)) + cnt
          = Cardinality(RowsOf(call.lst, call.task))

\* What is there without the row that is written over.
Closing == RemoveAt(Table, pos)

CloseInv ==
    /\ call.op \in {"remove", "remove_all"} /\ row <= pos /\ pos <= len
    /\ \A q \in 1..row-1 : tasks[q].task # call.task
    /\ call.op = "remove" =>
           /\ len = Len(call.lst)
           /\ TaskFind(call.lst, call.task) = row
           /\ Closing = RemoveAt(call.lst, row)
    /\ call.op = "remove_all" =>
           /\ cnt + len = Len(call.lst) /\ IsSortedByTime(Closing)
           /\ TaskRemoveAll(Closing, call.task) = TaskRemoveAll(call.lst, call.task)
           /\ Cardinality(RowsOf(Closing, call.task)) + cnt + 1
                 = Cardinality(RowsOf(call.lst, call.task))

RiseInv ==
    /\ call.op = "advance" /\ len = Len(call.lst)
    /\ call.n \in 1..len /\ call.n <= pos /\ pos <= len
    /\ call.lst[call.n].does_repeat
    /\ \E now \in Moments : call.lst[call.n].ts <= now
    /\ key = [call.lst[call.n] EXCEPT !.ts = NextWeeklyOccurrence(@)]
    /\ \A q \in 1..len : q # pos =>
           tasks[q] = IF call.n <= q /\ q < pos THEN call.lst[q+1] ELSE call.lst[q]
    /\ \A q \in call.n+1..pos : call.lst[q].ts < key.ts

NextInv ==
    /\ call.op = "next" /\ call.n \in Moments /\ Table = call.lst /\ row <= len + 1
    /\ \A q \in 1..row-1 : tasks[q].ts <= call.n

LInv ==
    /\ LoopsTypeOK /\ TableSorted
    /\ at = "ready" => ReadyInv
    /\ at # "ready" => Given
    /\ at = "feed"  => FeedInv
    /\ at = "sift"  => SiftInv
    /\ at = "find"  => FindInv
    /\ at = "scan"  => ScanInv
    /\ at = "close" => CloseInv
    /\ at = "round" => RoundInv
    /\ at = "weeks" => WeeksInv
    /\ at = "sort"  => SortInv
    /\ at = "rise"  => RiseInv
    /\ at = "next"  => NextInv
-----------------------------------------------------------------------------
(* Calls                                                                   *)

\* What the prover has to know of the array and its first rows.
LEMMA ArrayRows ==
    ASSUME NEW f \in [Slots -> Alarm], NEW n \in 0..MaxRows
    PROVE  /\ SubSeq(f, 1, n) \in Seq(Alarm) /\ Len(SubSeq(f, 1, n)) = n
           /\ DOMAIN SubSeq(f, 1, n) = 1..n /\ n \in Nat /\ MaxRows \in Nat
           /\ \A q \in 1..n : /\ SubSeq(f, 1, n)[q] = f[q] /\ q \in Slots
                            /\ f[q] \in Alarm /\ f[q].ts \in Int
<1>1. MaxRows \in Nat /\ n \in Nat /\ Slots = 1..MaxRows
  BY MaxRowsAssumption DEF Slots
<1>2. \A q \in 1..n : q \in Slots /\ f[q] \in Alarm /\ f[q].ts \in Int
  BY <1>1 DEF Alarm
<1>3. /\ SubSeq(f, 1, n) \in Seq(Alarm)
      /\ Len(SubSeq(f, 1, n)) = IF 1 <= n THEN n - 1 + 1 ELSE 0
      /\ \A q \in 1..n-1+1 : SubSeq(f, 1, n)[q] = f[1+q-1]
  BY <1>1, <1>2, SubSeqProperties
<1>4. Len(SubSeq(f, 1, n)) = n /\ \A q \in 1..n : SubSeq(f, 1, n)[q] = f[q]
  BY <1>1, <1>3
<1>5. DOMAIN SubSeq(f, 1, n) = 1..n
  BY <1>3, <1>4, LenProperties
<1> QED BY <1>1, <1>2, <1>3, <1>4, <1>5

\* The table, between two steps.
LEMMA TableIs ==
    ASSUME LoopsTypeOK
    PROVE  /\ Table \in Seq(Alarm) /\ Len(Table) = len /\ DOMAIN Table = 1..len
           /\ len \in Nat /\ MaxRows \in Nat /\ len <= MaxRows
           /\ \A q \in 1..len : /\ Table[q] = tasks[q] /\ q \in Slots
                              /\ tasks[q] \in Alarm /\ tasks[q].ts \in Int
<1>1. tasks \in [Slots -> Alarm] /\ len \in 0..MaxRows
  BY DEF LoopsTypeOK
<1>2. len <= MaxRows
  BY <1>1, MaxRowsAssumption
<1> HIDE DEF LoopsTypeOK
<1> QED BY <1>1, <1>2, ArrayRows DEF Table

\* A call, and the table it has found.
LEMMA CallIs ==
    ASSUME LoopsTypeOK, NEW op \in Ops, NEW items \in Seq(Alarm), NEW t \in Tasks, NEW n \in Int
    PROVE  /\ Call(op, items, t, n)
                 \in [op: Ops, items: Seq(Alarm), task: Tasks, n: Int, lst: Seq(Alarm)]
           /\ Call(op, items, t, n).op = op /\ Call(op, items, t, n).items = items
           /\ Call(op, items, t, n).task = t /\ Call(op, items, t, n).n = n
           /\ Call(op, items, t, n).lst = Table
<1>1. Table \in Seq(Alarm)
  BY TableIs
<1> QED BY <1>1 DEF Call

\* What stands for no rows, and for no task.
LEMMA Nothing == <<>> \in Seq(Alarm) /\ Blank.task \in Tasks /\ 0 \in Int
BY LoopsAssumption, EmptySeq DEF Alarm

\* A call that brings no rows.
LEMMA PlainCallIs ==
    ASSUME LoopsTypeOK, NEW op \in Ops, NEW t \in Tasks, NEW n \in Int
    PROVE  /\ Call(op, <<>>, t, n)
                 \in [op: Ops, items: Seq(Alarm), task: Tasks, n: Int, lst: Seq(Alarm)]
           /\ Call(op, <<>>, t, n).op = op
           /\ Call(op, <<>>, t, n).task = t /\ Call(op, <<>>, t, n).n = n
           /\ Call(op, <<>>, t, n).lst = Table
<1> DEFINE items == <<>>
<1>1. items \in Seq(Alarm)
  BY Nothing
<1> HIDE DEF items
<1>2. /\ Call(op, items, t, n)
            \in [op: Ops, items: Seq(Alarm), task: Tasks, n: Int, lst: Seq(Alarm)]
      /\ Call(op, items, t, n).op = op
      /\ Call(op, items, t, n).task = t /\ Call(op, items, t, n).n = n
      /\ Call(op, items, t, n).lst = Table
  BY <1>1, CallIs
<1> QED BY <1>2 DEF items

\* A call begins: what it has to know is that the table is in order.
LEMMA Begins ==
    ASSUME LInv, NEW loop, NEW c, Begin(loop, c), c.lst = Table,
           c \in [op: Ops, items: Seq(Alarm), task: Tasks, n: Int, lst: Seq(Alarm)],
           loop \in {"feed", "find", "scan", "round", "next"}
    PROVE  /\ LoopsTypeOK' /\ TableSorted' /\ Given'
           /\ Table' = Table /\ UNCHANGED <<Result, ret>>
           /\ row = 1 /\ cnt = 0 /\ changed = FALSE /\ IsSortedByTime(Table)
           /\ UNCHANGED <<tasks, len, row, pos, cnt, key, changed>>
           /\ at' = loop /\ call' = c
<1>1. /\ at = "ready" /\ at' = loop /\ call' = c
      /\ UNCHANGED <<tasks, len, ret, row, pos, cnt, key, changed>>
  BY DEF Begin, regs
<1>2. LoopsTypeOK /\ IsSortedByTime(Table) /\ row = 1 /\ cnt = 0 /\ changed = FALSE
  BY <1>1 DEF LInv, TableSorted, ReadyInv
<1>3. Table' = Table
  BY <1>1 DEF Table
<1>4. LoopsTypeOK'
  BY <1>1, <1>2 DEF LoopsTypeOK
<1>5. Len(Table) <= MaxRows
  BY <1>2, TableIs
<1>6. Given'
  BY <1>1, <1>2, <1>5 DEF Given
<1>7. at' # "ready"
  BY <1>1
<1>8. Result' = Result
  BY <1>1, <1>7 DEF Result
<1> QED BY <1>1, <1>2, <1>3, <1>4, <1>6, <1>7, <1>8 DEF TableSorted

\* A batch is going to be pushed.
LEMMA PushBegins ==
    ASSUME LInv, NEW items \in Batches, Push(items)
    PROVE  LInv' /\ UNCHANGED <<Result, ret>>
<1> DEFINE c == Call("push", items, Blank.task, 0)
<1>1. LoopsTypeOK /\ items \in Seq(Alarm)
  BY LoopsAssumption DEF LInv
<1>2. Begin("feed", c)
  BY DEF Push
<1>3. /\ c.op = "push" /\ c.items = items /\ c.lst = Table
      /\ c \in [op: Ops, items: Seq(Alarm), task: Tasks, n: Int, lst: Seq(Alarm)]
  <2>1. "push" \in Ops
    BY DEF Ops
  <2> QED BY <1>1, <2>1, CallIs, Nothing
<1> HIDE DEF c
<1>4. /\ LoopsTypeOK' /\ TableSorted' /\ Given'
      /\ Table' = Table /\ UNCHANGED <<Result, ret>>
      /\ row = 1 /\ IsSortedByTime(Table) /\ row' = row
      /\ at' = "feed" /\ call' = c
  BY <1>2, <1>3, Begins
<1>5. Items(row)' = items
  BY <1>1, <1>3, <1>4, SubSeqFull DEF Items
<1>6. FeedInv'
  BY <1>1, <1>3, <1>4, <1>5, LenProperties DEF FeedInv
<1> QED BY <1>4, <1>6 DEF LInv

\* A task is going to be looked for, or its first row removed.
LEMMA FindBegins ==
    ASSUME LInv, NEW t \in Tasks, Find(t) \/ RemoveOne(t)
    PROVE  LInv' /\ UNCHANGED <<Result, ret>>
<1>1. PICK op \in {"find", "remove"} : Begin("find", Call(op, <<>>, t, 0))
  BY DEF Find, RemoveOne
<1> DEFINE c == Call(op, <<>>, t, 0)
<1>2. LoopsTypeOK
  BY DEF LInv
<1>3. /\ c.op = op /\ c.lst = Table
      /\ c \in [op: Ops, items: Seq(Alarm), task: Tasks, n: Int, lst: Seq(Alarm)]
  <2>1. op \in Ops
    BY DEF Ops
  <2> QED BY <1>2, <2>1, PlainCallIs, Nothing
<1>4. Begin("find", c)
  BY <1>1
<1> HIDE DEF c
<1>5. /\ LoopsTypeOK' /\ TableSorted' /\ Given'
      /\ Table' = Table /\ UNCHANGED <<Result, ret>>
      /\ row = 1 /\ row' = row /\ len' = len
      /\ at' = "find" /\ call' = c
  BY <1>3, <1>4, Begins
<1>6. row' <= len' + 1 /\ 1..row'-1 = {}
  BY <1>2, <1>5, TableIs
<1>7. FindInv'
  BY <1>3, <1>5, <1>6 DEF FindInv
<1> QED BY <1>5, <1>7 DEF LInv

\* The rows of a task are going to be removed.
LEMMA RemoveAllBegins ==
    ASSUME LInv, NEW t \in Tasks, RemoveAll(t)
    PROVE  LInv' /\ UNCHANGED <<Result, ret>>
<1> DEFINE c == Call("remove_all", <<>>, t, 0)
<1>1. LoopsTypeOK
  BY DEF LInv
<1>2. Begin("scan", c)
  BY DEF RemoveAll
<1>3. /\ c.op = "remove_all" /\ c.task = t /\ c.lst = Table
      /\ c \in [op: Ops, items: Seq(Alarm), task: Tasks, n: Int, lst: Seq(Alarm)]
  <2>1. "remove_all" \in Ops
    BY DEF Ops
  <2> QED BY <1>1, <2>1, PlainCallIs, Nothing
<1> HIDE DEF c
<1>4. /\ LoopsTypeOK' /\ TableSorted' /\ Given'
      /\ Table' = Table /\ UNCHANGED <<Result, ret>>
      /\ row = 1 /\ cnt = 0 /\ IsSortedByTime(Table)
      /\ row' = row /\ cnt' = cnt /\ len' = len
      /\ at' = "scan" /\ call' = c
  BY <1>2, <1>3, Begins
<1>5. row' <= len' + 1 /\ 1..row'-1 = {} /\ cnt' + len' = Len(Table)
  BY <1>1, <1>4, TableIs
<1>6. Cardinality(RowsOf(Table, t)) + 0 = Cardinality(RowsOf(Table, t))
  <2>1. RowsOf(Table, t) \in SUBSET DOMAIN Table /\ Table \in Seq(Alarm)
    BY <1>1, TableIs DEF RowsOf
  <2>2. Cardinality(RowsOf(Table, t)) \in Nat
    BY <2>1, RankOrder
  <2> QED BY <2>2
<1>7. ScanInv'
  BY <1>3, <1>4, <1>5, <1>6 DEF ScanInv
<1> QED BY <1>4, <1>7 DEF LInv

\* Past alarms are going to be purged.
LEMMA PurgeBegins ==
    ASSUME LInv, NEW now \in Moments, Purge(now)
    PROVE  LInv' /\ UNCHANGED <<Result, ret>>
<1> DEFINE c == Call("purge", <<>>, Blank.task, now)
<1>1. LoopsTypeOK /\ now \in Int
  BY LoopsAssumption DEF LInv
<1>2. Begin("round", c)
  BY DEF Purge
<1>3. /\ c.op = "purge" /\ c.n = now /\ c.lst = Table
      /\ c \in [op: Ops, items: Seq(Alarm), task: Tasks, n: Int, lst: Seq(Alarm)]
  <2>1. "purge" \in Ops
    BY DEF Ops
  <2> QED BY <1>1, <2>1, PlainCallIs, Nothing
<1> HIDE DEF c
<1>4. /\ LoopsTypeOK' /\ TableSorted' /\ Given'
      /\ Table' = Table /\ UNCHANGED <<Result, ret>>
      /\ row = 1 /\ cnt = 0 /\ changed = FALSE
      /\ UNCHANGED <<tasks, len, row, cnt, changed>>
      /\ at' = "round" /\ call' = c
  BY <1>2, <1>3, Begins
<1>5. /\ Table \in Seq(Alarm) /\ Len(Table) = len /\ DOMAIN Table = 1..len /\ len \in Nat
      /\ \A q \in 1..len : Table[q] = tasks[q]
  BY <1>1, TableIs
<1>6. Rest' = Table
  <2>1. Rest' = [q \in 1..len |-> tasks[q]]
    BY <1>4, <1>5 DEF Rest, RestOf
  <2> QED BY <1>5, <2>1
<1>7. /\ len' = Len(Table) /\ row' <= len' + 1 /\ cnt' <= row' - 1 /\ cnt' = row' - 1
      /\ 1..cnt' = {} /\ \A q \in row'..len' : tasks'[q] = Table[q]
  BY <1>4, <1>5
<1>8. RoundInv'
  BY <1>3, <1>4, <1>6, <1>7 DEF RoundInv
<1> QED BY <1>4, <1>8 DEF LInv

\* The next alarm is going to be looked for.
LEMMA FindNextBegins ==
    ASSUME LInv, NEW now \in Moments, FindNext(now)
    PROVE  LInv' /\ UNCHANGED <<Result, ret>>
<1> DEFINE c == Call("next", <<>>, Blank.task, now)
<1>1. LoopsTypeOK /\ now \in Int
  BY LoopsAssumption DEF LInv
<1>2. Begin("next", c)
  BY DEF FindNext
<1>3. /\ c.op = "next" /\ c.n = now /\ c.lst = Table
      /\ c \in [op: Ops, items: Seq(Alarm), task: Tasks, n: Int, lst: Seq(Alarm)]
  <2>1. "next" \in Ops
    BY DEF Ops
  <2> QED BY <1>1, <2>1, PlainCallIs, Nothing
<1> HIDE DEF c
<1>4. /\ LoopsTypeOK' /\ TableSorted' /\ Given'
      /\ Table' = Table /\ UNCHANGED <<Result, ret>>
      /\ row = 1 /\ row' = row /\ len' = len
      /\ at' = "next" /\ call' = c
  BY <1>2, <1>3, Begins
<1>5. row' <= len' + 1 /\ 1..row'-1 = {}
  BY <1>1, <1>4, TableIs
<1>6. NextInv'
  BY <1>3, <1>4, <1>5 DEF NextInv
<1> QED BY <1>4, <1>6 DEF LInv

-----------------------------------------------------------------------------
(* What the calls promise                                                  *)

\* The operators of AlarmTable are those of AlarmLoops.
LEMMA SameOperators ==
    ASSUME NEW s, NEW b, NEW t, NEW n, NEW i
    PROVE  /\ A!PushAll(s, b) = PushAll(s, b)
           /\ A!TaskFind(s, t) = TaskFind(s, t)
           /\ A!TaskRemove(s, t) = TaskRemove(s, t)
           /\ A!TaskRemoveAll(s, t) = TaskRemoveAll(s, t)
           /\ A!RowsOf(s, t) = RowsOf(s, t) /\ A!Cardinality(b) = Cardinality(b)
           /\ A!PurgePastAlarms(s, n) = PurgePastAlarms(s, n)
           /\ A!Due(s, n) = Due(s, n) /\ A!Future(s, n) = Future(s, n)
           /\ A!IsNextAlarm(s, n, i) <=> IsNextAlarm(s, n, i)
           /\ A!AdvanceRepeatAlarm(s, i) = AdvanceRepeatAlarm(s, i)
<1>1. A!PushAll(s, b) = PushAll(s, b)
  BY Zenon DEF A!PushAll, PushAll, A!ByTime, ByTime, A!Rank, Rank, A!Precedes,
     Precedes, A!Cardinality, Cardinality
<1>2. A!TaskFind(s, t) = TaskFind(s, t)
  BY Zenon DEF A!TaskFind, TaskFind, A!SelectInSeq, SelectInSeq, A!Min, Min
<1>3. A!RemoveAt(s, i) = RemoveAt(s, i) /\ A!RemoveAt(s, TaskFind(s, t)) = RemoveAt(s, TaskFind(s, t))
  BY Zenon DEF A!RemoveAt, RemoveAt
<1>4. A!TaskRemove(s, t) = TaskRemove(s, t)
  BY <1>2, <1>3, Zenon DEF A!TaskRemove, TaskRemove
<1>5. A!TaskRemoveAll(s, t) = TaskRemoveAll(s, t)
  BY Zenon DEF A!TaskRemoveAll, TaskRemoveAll, A!RowsOf, RowsOf, A!ByTime, ByTime,
     A!Rank, Rank, A!Precedes, Precedes, A!Cardinality, Cardinality
<1>6. A!RowsOf(s, t) = RowsOf(s, t) /\ A!Cardinality(b) = Cardinality(b)
  BY Zenon DEF A!RowsOf, RowsOf, A!Cardinality, Cardinality
<1>7. A!PurgePastAlarms(s, n) = PurgePastAlarms(s, n)
  BY Zenon DEF A!PurgePastAlarms, PurgePastAlarms, A!Advanced, Advanced, A!Due, Due,
     A!AdvanceRepeatToFuture, AdvanceRepeatToFuture, A!Future, Future, A!ByTime, ByTime,
     A!Rank, Rank, A!Precedes, Precedes, A!Cardinality, Cardinality
<1>8. A!Due(s, n) = Due(s, n) /\ A!Future(s, n) = Future(s, n)
  BY Zenon DEF A!Due, Due, A!Future, Future
<1>9. A!IsNextAlarm(s, n, i) <=> IsNextAlarm(s, n, i)
  BY <1>8, Zenon DEF A!IsNextAlarm, IsNextAlarm
<1>10. A!AdvanceRepeatAlarm(s, i) = AdvanceRepeatAlarm(s, i)
  BY Zenon DEF A!AdvanceRepeatAlarm, AdvanceRepeatAlarm, A!NextWeeklyOccurrence,
     NextWeeklyOccurrence, A!InsertAt, InsertAt, A!RemoveAt, RemoveAt
<1> QED BY <1>1, <1>2, <1>4, <1>5, <1>6, <1>7, <1>8, <1>9, <1>10

\* The steps of AlarmTable, on the table that a call has found.
LEMMA Promise ==
    ASSUME \/ Result' = <<>> /\ ret' = 0
           \/ \E items \in Batches : Result' = PushAll(Result, items) /\ ret' = 0
           \/ \E t \in Tasks : Result' = Result /\ ret' = TaskFind(Result, t)
           \/ \E t \in Tasks : Result' = TaskRemove(Result, t) /\ ret' = TaskFind(Result, t)
           \/ \E t \in Tasks : /\ Result' = TaskRemoveAll(Result, t)
                              /\ ret' = Cardinality(RowsOf(Result, t))
           \/ \E now \in Moments : /\ Result' = PurgePastAlarms(Result, now)
                                  /\ ret' = IF Due(Result, now) = {} THEN 0 ELSE 1
           \/ \E now \in Moments :
                  /\ Result' = Result
                  /\ \/ Future(Result, now) = {} /\ ret' = Len(Result) + 1
                     \/ ret' \in DOMAIN Result /\ IsNextAlarm(Result, now, ret')
           \/ \E idx \in DOMAIN Result, now \in Moments :
                  /\ Result[idx].does_repeat /\ Result[idx].ts <= now
                  /\ Result' = AdvanceRepeatAlarm(Result, idx) /\ ret' = 0
    PROVE  A!Next
<1>1. CASE Result' = <<>> /\ ret' = 0
  BY <1>1, Zenon DEF A!Next, A!TaskInit, Result
<1>2. ASSUME NEW items \in Batches, Result' = PushAll(Result, items) /\ ret' = 0
      PROVE  A!Next
  BY <1>2, SameOperators, Zenon DEF A!Next, A!Push, Result
<1>3. ASSUME NEW t \in Tasks, Result' = Result /\ ret' = TaskFind(Result, t)
      PROVE  A!Next
  BY <1>3, SameOperators, Zenon DEF A!Next, A!Find, Result
<1>4. ASSUME NEW t \in Tasks, Result' = TaskRemove(Result, t) /\ ret' = TaskFind(Result, t)
      PROVE  A!Next
  BY <1>4, SameOperators, Zenon DEF A!Next, A!RemoveOne, Result
<1>5. ASSUME NEW t \in Tasks,
             Result' = TaskRemoveAll(Result, t) /\ ret' = Cardinality(RowsOf(Result, t))
      PROVE  A!Next
  BY <1>5, SameOperators, Zenon DEF A!Next, A!RemoveAll, Result
<1>6. ASSUME NEW now \in Moments,
             /\ Result' = PurgePastAlarms(Result, now)
             /\ ret' = IF Due(Result, now) = {} THEN 0 ELSE 1
      PROVE  A!Next
  BY <1>6, SameOperators, Zenon DEF A!Next, A!Purge, Result
<1>7. ASSUME NEW now \in Moments,
             /\ Result' = Result
             /\ \/ Future(Result, now) = {} /\ ret' = Len(Result) + 1
                \/ ret' \in DOMAIN Result /\ IsNextAlarm(Result, now, ret')
      PROVE  A!Next
  BY <1>7, SameOperators, Zenon DEF A!Next, A!FindNext, Result
<1>8. ASSUME NEW idx \in DOMAIN Result, NEW now \in Moments,
             /\ Result[idx].does_repeat /\ Result[idx].ts <= now
             /\ Result' = AdvanceRepeatAlarm(Result, idx) /\ ret' = 0
      PROVE  A!Next
  BY <1>8, SameOperators, Zenon DEF A!Next, A!Advance, Result
<1> QED BY <1>1, <1>2, <1>3, <1>4, <1>5, <1>6, <1>7, <1>8

\* A call returns: what it leaves is in order.
LEMMA Returns ==
    ASSUME LInv, at # "ready", NEW r \in 0..MaxRows+1, Return(r),
           tasks' \in [Slots -> Alarm], len' \in 0..MaxRows, IsSortedByTime(Table')
    PROVE  LInv' /\ Result = call.lst /\ Result' = Table' /\ ret' = r
<1>1. /\ at' = "ready" /\ ret' = r /\ call' = NoCall
      /\ row' = 1 /\ pos' = 1 /\ cnt' = 0 /\ key' = Blank /\ changed' = FALSE
  BY DEF Return
<1>2. NoCall \in [op: Ops, items: Seq(Alarm), task: Tasks, n: Int, lst: Seq(Alarm)]
  BY Nothing DEF NoCall, Ops
<1>3. 1 \in Slots /\ 0 \in 0..MaxRows /\ Blank \in Alarm
  BY MaxRowsAssumption, LoopsAssumption DEF Slots
<1>4. LoopsTypeOK'
  <2>1. /\ at' \in {"ready", "feed", "sift", "find", "scan", "close", "round",
                     "weeks", "sort", "rise", "next"}
    BY <1>1
  <2>3. row' \in Nat \ {0}
    BY <1>1
  <2>4. changed' \in BOOLEAN
    BY <1>1, Zenon
  <2>2. /\ ret' \in 0..MaxRows+1 /\ pos' \in Slots /\ cnt' \in 0..MaxRows /\ key' \in Alarm
        /\ call' \in [op: Ops, items: Seq(Alarm), task: Tasks, n: Int, lst: Seq(Alarm)]
    BY <1>1, <1>2, <1>3
  <2> QED BY <2>1, <2>2, <2>3, <2>4, Zenon DEF LoopsTypeOK
<1>5. TableSorted' /\ ReadyInv'
  BY <1>1 DEF TableSorted, ReadyInv
<1>6. LInv'
  BY <1>1, <1>4, <1>5 DEF LInv
<1>7. Result = call.lst /\ Result' = Table'
  BY <1>1 DEF Result
<1> QED BY <1>1, <1>6, <1>7

\* A call goes on: what it has found and what it has returned stay.
LEMMA GoesOn ==
    ASSUME at # "ready", at' # "ready", UNCHANGED <<call, ret>>, LInv
    PROVE  UNCHANGED <<Result, ret>> /\ Given' /\ TableSorted'
BY DEF LInv, Result, Given, TableSorted

\* An empty table is in order.
LEMMA TaskInitDone ==
    ASSUME LInv, TaskInit
    PROVE  LInv' /\ A!Next
<1>1. /\ at = "ready" /\ at' = "ready" /\ ret' = 0 /\ len' = 0
      /\ tasks' = [s \in Slots |-> Blank]
      /\ UNCHANGED <<call, row, pos, cnt, key, changed>>
  BY DEF TaskInit, regs
<1>2. LoopsTypeOK /\ ReadyInv
  BY <1>1 DEF LInv
<1>3. tasks' \in [Slots -> Alarm] /\ 0 \in 0..MaxRows /\ 0 \in 0..MaxRows+1
  BY <1>1, MaxRowsAssumption, LoopsAssumption
<1>4. LoopsTypeOK'
  BY <1>1, <1>2, <1>3 DEF LoopsTypeOK
<1>5. Table' = <<>>
  BY <1>1, SubSeqEmpty DEF Table
<1>6. TableSorted'
  BY <1>5 DEF TableSorted, IsSortedByTime
<1>7. LInv'
  BY <1>1, <1>2, <1>4, <1>6 DEF LInv, ReadyInv
<1>8. Result' = <<>>
  BY <1>1, <1>5 DEF Result
<1> QED BY <1>1, <1>7, <1>8, Promise

-----------------------------------------------------------------------------
(* Pushing                                                                 *)

\* The rows that are still to be pushed.
LEMMA ItemsAre ==
    ASSUME LoopsTypeOK
    PROVE  /\ call.items \in Seq(Alarm) /\ Len(call.items) \in Nat /\ row \in Nat /\ row >= 1
           /\ Items(row) \in Seq(Alarm) /\ Items(row + 1) \in Seq(Alarm)
           /\ row = Len(call.items) + 1 => Items(row) = <<>>
           /\ row <= Len(call.items) => call.items[row] \in Alarm
<1>1. call.items \in Seq(Alarm) /\ row \in Nat /\ row >= 1
  BY DEF LoopsTypeOK
<1>2. Len(call.items) \in Nat /\ \A q \in 1..Len(call.items) : call.items[q] \in Alarm
  BY <1>1, LenProperties, ElementOfSeq
<1>3. ASSUME NEW k \in Nat, k >= 1 PROVE Items(k) \in Seq(Alarm)
  <2>1. \A q \in k..Len(call.items) : call.items[q] \in Alarm
    BY <1>2, <1>3
  <2> QED BY <1>2, <2>1, SubSeqProperties DEF Items
<1>4. row + 1 \in Nat /\ row + 1 >= 1
  BY <1>1
<1>5. row = Len(call.items) + 1 => Items(row) = <<>>
  BY <1>1, <1>2, SubSeqEmpty DEF Items
<1> QED BY <1>1, <1>2, <1>3, <1>4, <1>5

\* The loop over a batch comes to its end, passes a row that has no room, or
\* begins to put one into its place.
LEMMA FeedDone ==
    ASSUME LInv, Feed
    PROVE  LInv' /\ (A!Next \/ UNCHANGED <<Result, ret>>)
<1>1. at = "feed" /\ LoopsTypeOK /\ FeedInv /\ Given
  BY DEF Feed, LInv
<1>2. /\ Table \in Seq(Alarm) /\ Len(Table) = len /\ DOMAIN Table = 1..len
      /\ len \in Nat /\ MaxRows \in Nat /\ len <= MaxRows
      /\ \A q \in 1..len : Table[q] = tasks[q]
  BY <1>1, TableIs
<1>3. /\ call.items \in Seq(Alarm) /\ Len(call.items) \in Nat /\ row \in Nat /\ row >= 1
      /\ Items(row) \in Seq(Alarm) /\ Items(row + 1) \in Seq(Alarm)
      /\ row = Len(call.items) + 1 => Items(row) = <<>>
      /\ row <= Len(call.items) => call.items[row] \in Alarm
  BY <1>1, ItemsAre
<1>4. /\ call.op = "push" /\ call.items \in Batches /\ row <= Len(call.items) + 1
      /\ IsSortedByTime(Table)
      /\ PushAll(Table, Items(row)) = PushAll(call.lst, call.items)
  BY <1>1 DEF FeedInv
<1>5. CASE row > Len(call.items) /\ Return(0) /\ UNCHANGED <<tasks, len>>
  <2>1. Items(row) = <<>>
    BY <1>3, <1>4, <1>5
  <2>2. Table = PushAll(call.lst, call.items)
    BY <1>2, <1>4, <2>1, PushNone
  <2>3. Table' = Table /\ 0 \in 0..MaxRows+1
    BY <1>2, <1>5 DEF Table
  <2>4. LInv' /\ Result = call.lst /\ Result' = Table' /\ ret' = 0
    <3>1. tasks' \in [Slots -> Alarm] /\ len' \in 0..MaxRows
      BY <1>1, <1>5 DEF LoopsTypeOK
    <3> QED BY <1>1, <1>4, <1>5, <2>3, <3>1, Returns
  <2>5. A!Next
    BY <1>4, <2>2, <2>3, <2>4, Promise
  <2> QED BY <2>4, <2>5
<1>6. CASE /\ row <= Len(call.items) /\ len >= MaxRows /\ row' = row + 1
           /\ UNCHANGED <<tasks, len, ret, at, call, pos, cnt, key, changed>>
  <2>1. /\ UNCHANGED <<Result, ret>> /\ Given' /\ TableSorted'
    BY <1>1, <1>6, GoesOn
  <2>2. LoopsTypeOK'
    BY <1>1, <1>3, <1>6 DEF LoopsTypeOK
  <2>3. Items(row)' = Items(row + 1) /\ Table' = Table
    BY <1>6 DEF Items, Table
  <2>4. PushAll(Table, Items(row + 1)) = PushAll(Table, Items(row))
    BY <1>2, <1>3, <1>6, PushFull
  <2>5. FeedInv'
    BY <1>3, <1>4, <1>6, <2>3, <2>4 DEF FeedInv
  <2> QED BY <1>1, <1>6, <2>1, <2>2, <2>5 DEF LInv
<1>7. CASE /\ row <= Len(call.items) /\ len < MaxRows
           /\ key' = call.items[row] /\ pos' = len + 1 /\ at' = "sift"
           /\ UNCHANGED <<tasks, len, ret, call, row, cnt, changed>>
  <2>1. /\ UNCHANGED <<Result, ret>> /\ Given' /\ TableSorted'
    BY <1>1, <1>7, GoesOn
  <2>2. len + 1 \in Slots /\ call.items[row] \in Alarm
    BY <1>2, <1>3, <1>7 DEF Slots
  <2>3. LoopsTypeOK'
    BY <1>1, <1>7, <2>2 DEF LoopsTypeOK
  <2>4. Here' = len + 1 /\ InOrderTo' = len + 1 /\ Items(row + 1)' = Items(row + 1)
    BY <1>4, <1>7 DEF Here, InOrderTo, Items
  <2> DEFINE t == Append(Table, call.items[row])
  <2>5. /\ t \in Seq(Alarm) /\ Len(t) = len + 1 /\ t[len + 1] = call.items[row]
        /\ \A q \in 1..len : t[q] = tasks[q]
    BY <1>2, <2>2, AppendProperties
  <2>6. DOMAIN t = 1..len+1
    BY <2>5, LenProperties
  <2> HIDE DEF t
  <2>7. Held' = [q \in 1..len+1 |-> IF q = len + 1 THEN call.items[row] ELSE tasks[q]]
    BY <1>7, <2>4 DEF Held
  <2>8. Held' = t
    <3>1. t = [q \in 1..len+1 |-> t[q]]
      BY <2>5, <2>6
    <3>2. \A q \in 1..len+1 : t[q] = IF q = len + 1 THEN call.items[row] ELSE tasks[q]
      BY <1>2, <2>5
    <3> QED BY <2>7, <3>1, <3>2
  <2>9. PushAll(t, Items(row + 1)) = PushAll(call.lst, call.items)
    <3>1. row \in 1..Len(call.items)
      BY <1>3, <1>7
    <3>2. PushAll(t, Items(row + 1)) = PushAll(Table, Items(row))
      BY <1>2, <1>3, <3>1, PushOn DEF t, Items
    <3> QED BY <1>4, <3>2
  <2>10. \A i, j \in 1..len : i < j => tasks[i].ts <= tasks[j].ts
    BY <1>2, <1>4 DEF IsSortedByTime
  <2>11. \A i, j \in 1..len+1 :
            i < j /\ i # len+1 /\ j # len+1 => tasks[i].ts <= tasks[j].ts
    BY <1>2, <2>10
  <2>12. (len+1)+1..len+1 = {} /\ len + 1 <= MaxRows
    BY <1>2, <1>7
  <2>13. SiftInv'
    BY <1>4, <1>7, <2>4, <2>8, <2>9, <2>11, <2>12 DEF SiftInv
  <2> QED BY <1>7, <2>1, <2>3, <2>13 DEF LInv
<1> QED BY <1>5, <1>6, <1>7 DEF Feed

\* Rows of the array, one of which is not written yet.
LEMMA HeldRows ==
    ASSUME NEW f \in [Slots -> Alarm], NEW h \in 0..MaxRows, NEW p, NEW k \in Alarm,
           NEW u, u = [q \in 1..h |-> IF q = p THEN k ELSE f[q]]
    PROVE  /\ u \in Seq(Alarm) /\ Len(u) = h /\ DOMAIN u = 1..h
           /\ \A q \in 1..h : u[q] = IF q = p THEN k ELSE f[q]
<1>1. h \in Nat /\ \A q \in 1..h : f[q] \in Alarm
  BY ArrayRows
<1>2. u \in [1..h -> Alarm]
  BY <1>1
<1>3. u \in Seq(Alarm) /\ Len(u) = h
  BY <1>1, <1>2, SeqDef, LenProperties
<1> QED BY <1>2, <1>3

\* The rows with key in its slot.
LEMMA HeldIs ==
    ASSUME LoopsTypeOK, Here <= MaxRows
    PROVE  /\ Held \in Seq(Alarm) /\ Len(Held) = Here /\ DOMAIN Held = 1..Here
           /\ Here \in Nat /\ pos \in Nat /\ pos >= 1 /\ key \in Alarm /\ key.ts \in Int
           /\ \A q \in 1..Here : /\ Held[q] = (IF q = pos THEN key ELSE tasks[q])
                                 /\ q \in Slots /\ tasks[q] \in Alarm /\ tasks[q].ts \in Int
<1>1. /\ tasks \in [Slots -> Alarm] /\ len \in Nat /\ MaxRows \in Nat /\ Slots = 1..MaxRows
      /\ pos \in Slots /\ key \in Alarm
  BY MaxRowsAssumption DEF LoopsTypeOK, Slots
<1>2. Here \in 0..MaxRows /\ Here \in Nat
  BY <1>1 DEF Here
<1>3. key.ts \in Int /\ \A q \in 1..Here : q \in Slots /\ tasks[q] \in Alarm /\ tasks[q].ts \in Int
  BY <1>1, <1>2 DEF Alarm
<1>4. /\ Held \in Seq(Alarm) /\ Len(Held) = Here /\ DOMAIN Held = 1..Here
      /\ \A q \in 1..Here : Held[q] = IF q = pos THEN key ELSE tasks[q]
  <2> HIDE DEF Here
  <2> QED BY <1>1, <1>2, HeldRows DEF Held
<1> QED BY <1>1, <1>2, <1>3, <1>4

\* The table after a step.
LEMMA NextTable ==
    ASSUME LoopsTypeOK'
    PROVE  /\ Table' \in Seq(Alarm) /\ Len(Table') = len' /\ DOMAIN Table' = 1..len'
           /\ \A q \in 1..len' : Table'[q] = tasks'[q]
<1>1. tasks' \in [Slots -> Alarm] /\ len' \in 0..MaxRows
  BY DEF LoopsTypeOK
<1> QED BY <1>1, ArrayRows DEF Table

\* A later row moves back by one, and key comes to stand in front of it.
LEMMA SiftDownDone ==
    ASSUME LInv, SiftDown
    PROVE  LInv' /\ UNCHANGED <<Result, ret>>
<1>1. /\ at = "sift" /\ LoopsTypeOK /\ SiftInv /\ Given
      /\ pos > 1 /\ tasks[pos-1].ts > key.ts
      /\ tasks' = [tasks EXCEPT ![pos] = tasks[pos-1]] /\ pos' = pos - 1
      /\ UNCHANGED <<len, ret, at, call, row, cnt, key, changed>>
  BY DEF SiftDown, Later, LInv
<1>2. /\ call.op \in {"push", "purge"}
      /\ Here <= MaxRows /\ InOrderTo <= Here /\ pos <= InOrderTo
      /\ \A i, j \in 1..InOrderTo :
             i < j /\ i # pos /\ j # pos => tasks[i].ts <= tasks[j].ts
      /\ \A j \in pos+1..InOrderTo : tasks[j].ts > key.ts
      /\ call.op = "push" =>
             /\ call.items \in Batches /\ row <= Len(call.items)
             /\ PushAll(Held, Items(row + 1)) = PushAll(call.lst, call.items)
      /\ call.op = "purge" =>
             /\ call.n \in Moments /\ Due(call.lst, call.n) # {} /\ row >= 2
             /\ ByTime(Held, DOMAIN Held) = Purged(call.lst, call.n)
  BY <1>1 DEF SiftInv
<1>3. /\ Held \in Seq(Alarm) /\ Len(Held) = Here /\ DOMAIN Held = 1..Here
      /\ Here \in Nat /\ pos \in Nat /\ pos >= 1 /\ key \in Alarm /\ key.ts \in Int
      /\ \A q \in 1..Here : /\ Held[q] = (IF q = pos THEN key ELSE tasks[q])
                            /\ q \in Slots /\ tasks[q] \in Alarm /\ tasks[q].ts \in Int
  BY <1>1, <1>2, HeldIs
<1>4. InOrderTo \in Nat
  BY <1>1 DEF InOrderTo, LoopsTypeOK
<1>5. tasks \in [Slots -> Alarm] /\ pos \in Slots /\ pos-1 \in Slots /\ MaxRows \in Nat /\ pos - 1 \in 1..Here
  BY <1>1, <1>2, <1>3, <1>4, MaxRowsAssumption DEF LoopsTypeOK, Slots
<1>6. LoopsTypeOK'
  BY <1>1, <1>5 DEF LoopsTypeOK
<1>7. Here' = Here /\ InOrderTo' = InOrderTo /\ Items(row + 1)' = Items(row + 1)
  BY <1>1 DEF Here, InOrderTo, Items
<1>8. /\ tasks'[pos] = tasks[pos-1]
      /\ \A q \in Slots : q # pos => tasks'[q] = tasks[q]
  BY <1>1, <1>5
<1>9. /\ Held' \in Seq(Alarm) /\ Len(Held') = Here /\ DOMAIN Held' = 1..Here
      /\ \A q \in 1..Here : Held'[q] = (IF q = pos-1 THEN key ELSE tasks'[q])
  <2>1. /\ Held' \in Seq(Alarm) /\ Len(Held') = Here' /\ DOMAIN Held' = 1..Here'
        /\ \A q \in 1..Here' : Held'[q] = (IF q = pos' THEN key' ELSE tasks'[q])
    <3>1. tasks' \in [Slots -> Alarm] /\ key' \in Alarm /\ Here' \in 0..MaxRows
      BY <1>2, <1>3, <1>5, <1>6, <1>7 DEF LoopsTypeOK
    <3> DEFINE f == tasks'
               k == key'
               h == Here'
               p == pos'
    <3>2. Held' = [q \in 1..h |-> IF q = p THEN k ELSE f[q]]
      BY DEF Held
    <3> HIDE DEF f, k, h, p, Held
    <3>3. /\ Held' \in Seq(Alarm) /\ Len(Held') = h /\ DOMAIN Held' = 1..h
          /\ \A q \in 1..h : Held'[q] = IF q = p THEN k ELSE f[q]
      <4>1. f \in [Slots -> Alarm] /\ k \in Alarm /\ h \in 0..MaxRows
        BY <3>1 DEF f, k, h
      <4>2. h \in Nat /\ \A q \in 1..h : f[q] \in Alarm
        BY <4>1, ArrayRows
      <4>3. Held' \in [1..h -> Alarm]
        BY <3>2, <4>1, <4>2
      <4>4. Held' \in Seq(Alarm) /\ Len(Held') = h
        BY <4>2, <4>3, SeqDef, LenProperties
      <4> QED BY <3>2, <4>3, <4>4
    <3> QED BY <3>3 DEF f, k, h, p
  <2> QED BY <1>1, <1>7, <2>1
<1> HIDE DEF Held, Here, InOrderTo, Items
<1> DEFINE i == pos - 1
<1>10. /\ i \in Nat \ {0} /\ i + 1 <= Here /\ i + 1 = pos
       /\ i \in 1..Here /\ i + 1 \in 1..Here
  BY <1>1, <1>2, <1>3, <1>4
<1>11. Held[i].ts > Held[i+1].ts /\ Held'[i] = Held[i+1] /\ Held'[i+1] = Held[i]
  BY <1>1, <1>3, <1>8, <1>9, <1>10
<1>12. \A q \in 1..Here : q # i /\ q # i+1 => Held'[q] = Held[q]
  BY <1>3, <1>8, <1>9, <1>10
<1> HIDE DEF i
<1>13. call.op = "push" => PushAll(Held', Items(row + 1)) = PushAll(Held, Items(row + 1))
  <2>1. Items(row + 1) \in Seq(Alarm)
    BY <1>1, ItemsAre
  <2> DEFINE s == Held
             u == Held'
  <2>2. /\ s \in Seq(Alarm) /\ u \in Seq(Alarm) /\ Len(u) = Len(s) /\ Len(s) <= MaxRows
        /\ i + 1 <= Len(s) /\ s[i].ts > s[i+1].ts /\ u[i] = s[i+1] /\ u[i+1] = s[i]
        /\ \A q \in 1..Len(s) : q # i /\ q # i+1 => u[q] = s[q]
    BY <1>2, <1>3, <1>9, <1>10, <1>11, <1>12
  <2> HIDE DEF s, u
  <2>3. PushAll(u, Items(row + 1)) = PushAll(s, Items(row + 1))
    BY <1>10, <2>1, <2>2, PushSwap
  <2> QED BY <2>3 DEF s, u
<1>14. ByTime(Held', DOMAIN Held') = ByTime(Held, DOMAIN Held)
  <2> DEFINE s == Held
             u == Held'
             K == 1..Here
  <2>1. /\ s \in Seq(Alarm) /\ u \in Seq(Alarm) /\ DOMAIN u = DOMAIN s
        /\ K \in SUBSET DOMAIN s /\ i \in K /\ i + 1 \in K
        /\ s[i].ts > s[i+1].ts /\ u[i] = s[i+1] /\ u[i+1] = s[i]
        /\ \A q \in K \ {i, i+1} : u[q] = s[q]
    BY <1>3, <1>9, <1>10, <1>11, <1>12
  <2>2. K = DOMAIN s /\ K = DOMAIN u
    BY <1>3, <1>9
  <2> HIDE DEF s, u, K
  <2>3. ByTime(u, K) = ByTime(s, K)
    BY <2>1, SortSwap
  <2> QED BY <2>2, <2>3 DEF s, u
<1>15. ASSUME NEW p \in 1..InOrderTo, NEW q \in 1..InOrderTo, p < q, p # pos-1, q # pos-1
       PROVE  tasks'[p].ts <= tasks'[q].ts
  <2>1. /\ p \in Slots /\ q \in Slots /\ pos-1 \in 1..InOrderTo
        /\ p \in Nat /\ q \in Nat
    BY <1>2, <1>3, <1>4, <1>5
  <2>2. CASE p = pos
    <3>1. pos-1 < q /\ q # pos
      BY <1>15, <2>1, <2>2
    <3> QED BY <1>2, <1>8, <2>1, <2>2, <3>1
  <2>3. CASE q = pos
    <3>1. p < pos-1 /\ p # pos
      BY <1>15, <2>1, <2>3
    <3> QED BY <1>2, <1>8, <2>1, <2>3, <3>1
  <2>4. CASE p # pos /\ q # pos
    BY <1>2, <1>8, <1>15, <2>1, <2>4
  <2> QED BY <2>2, <2>3, <2>4
<1>16. ASSUME NEW q \in (pos-1)+1..InOrderTo PROVE tasks'[q].ts > key.ts
  <2>1. q \in Slots /\ q \in Nat
    BY <1>2, <1>3, <1>4
  <2>2. CASE q = pos
    BY <1>1, <1>8, <2>2
  <2>3. CASE q # pos
    <3>1. q \in pos+1..InOrderTo
      BY <1>3, <1>4, <2>3
    <3> QED BY <1>2, <1>8, <2>1, <2>3, <3>1
  <2> QED BY <2>2, <2>3
<1>17. pos - 1 <= InOrderTo
  BY <1>2, <1>3, <1>4
<1>18. SiftInv'
  BY <1>1, <1>2, <1>7, <1>13, <1>14, <1>15, <1>16, <1>17 DEF SiftInv
<1>19. UNCHANGED <<Result, ret>> /\ Given' /\ TableSorted'
  BY <1>1, GoesOn
<1> QED BY <1>1, <1>6, <1>18, <1>19 DEF LInv

\* key has found its slot: the rows in play are in order.
LEMMA SettleDone ==
    ASSUME LInv, Settle
    PROVE  LInv' /\ UNCHANGED <<Result, ret>>
<1>1. /\ at = "sift" /\ LoopsTypeOK /\ SiftInv /\ Given
      /\ ~ (pos > 1 /\ tasks[pos-1].ts > key.ts)
      /\ tasks' = [tasks EXCEPT ![pos] = key] /\ row' = row + 1
      /\ UNCHANGED <<ret, call, pos, cnt, key, changed>>
  BY DEF Settle, Later, LInv
<1>2. /\ call.op \in {"push", "purge"}
      /\ Here <= MaxRows /\ InOrderTo <= Here /\ pos <= InOrderTo
      /\ \A i, j \in 1..InOrderTo :
             i < j /\ i # pos /\ j # pos => tasks[i].ts <= tasks[j].ts
      /\ \A j \in pos+1..InOrderTo : tasks[j].ts > key.ts
      /\ call.op = "push" =>
             /\ call.items \in Batches /\ row <= Len(call.items)
             /\ PushAll(Held, Items(row + 1)) = PushAll(call.lst, call.items)
      /\ call.op = "purge" =>
             /\ call.n \in Moments /\ Due(call.lst, call.n) # {} /\ row >= 2
             /\ ByTime(Held, DOMAIN Held) = Purged(call.lst, call.n)
  BY <1>1 DEF SiftInv
<1>3. /\ Held \in Seq(Alarm) /\ Len(Held) = Here /\ DOMAIN Held = 1..Here
      /\ Here \in Nat /\ pos \in Nat /\ pos >= 1 /\ key \in Alarm /\ key.ts \in Int
      /\ \A q \in 1..Here : /\ Held[q] = (IF q = pos THEN key ELSE tasks[q])
                            /\ q \in Slots /\ tasks[q] \in Alarm /\ tasks[q].ts \in Int
  BY <1>1, <1>2, HeldIs
<1>4. /\ InOrderTo \in Nat /\ len \in Nat /\ row \in Nat /\ row >= 1
      /\ len \in 0..MaxRows /\ MaxRows \in Nat
  BY <1>1, MaxRowsAssumption DEF InOrderTo, LoopsTypeOK
<1>5. tasks \in [Slots -> Alarm] /\ pos \in Slots
  BY <1>1 DEF LoopsTypeOK
<1>6. \A q \in 1..Here : tasks'[q] = Held[q]
  BY <1>1, <1>3, <1>5
<1>7. tasks' \in [Slots -> Alarm]
  BY <1>1, <1>3, <1>5
<1> HIDE DEF Held
<1>8. ASSUME NEW i \in 1..InOrderTo, NEW j \in 1..InOrderTo, i < j
      PROVE  Held[i].ts <= Held[j].ts
  <2>1. /\ i \in 1..Here /\ j \in 1..Here /\ i \in Nat /\ j \in Nat
        /\ tasks[i].ts \in Int /\ tasks[j].ts \in Int /\ tasks[pos-1] = tasks[pos-1]
    BY <1>2, <1>3, <1>4
  <2>2. CASE i = pos
    <3>1. j \in pos+1..InOrderTo /\ j # pos
      BY <1>3, <1>4, <1>8, <2>1, <2>2
    <3> QED BY <1>2, <1>3, <2>1, <2>2, <3>1
  <2>3. CASE j = pos
    <3>1. /\ pos-1 \in 1..InOrderTo /\ pos-1 \in 1..Here /\ pos > 1 /\ i # pos
          /\ i < pos-1 \/ i = pos-1
      BY <1>2, <1>3, <1>4, <1>8, <2>1, <2>3
    <3>2. tasks[i].ts <= tasks[pos-1].ts
      BY <1>2, <1>3, <2>1, <3>1
    <3>3. tasks[pos-1].ts <= key.ts
      BY <1>1, <1>3, <3>1
    <3> QED BY <1>3, <2>1, <2>3, <3>1, <3>2, <3>3
  <2>4. CASE i # pos /\ j # pos
    BY <1>2, <1>3, <1>8, <2>1, <2>4
  <2> QED BY <2>2, <2>3, <2>4
<1>9. CASE call.op = "push"
  <2>1. /\ at' = "feed" /\ len' = len + 1 /\ Here = len + 1 /\ InOrderTo = len + 1
    BY <1>1, <1>9 DEF Settle, Here, InOrderTo
  <2>2. LoopsTypeOK'
    BY <1>1, <1>2, <1>4, <1>7, <2>1 DEF LoopsTypeOK
  <2>3. Table' = Held
    <3>1. /\ Table' \in Seq(Alarm) /\ Len(Table') = len + 1
          /\ \A q \in 1..len+1 : Table'[q] = tasks'[q]
      BY <1>3, <1>4, <1>7, <2>1, <2>2, NextTable
    <3> QED BY <1>3, <1>6, <2>1, <3>1, SeqEqual
  <2>4. IsSortedByTime(Held)
    BY <1>3, <1>8, <2>1 DEF IsSortedByTime
  <2>5. Items(row)' = Items(row + 1)
    BY <1>1 DEF Items
  <2>6. row + 1 <= Len(call.items) + 1
    BY <1>1, <1>2, <1>4, <1>9, ItemsAre
  <2>7. FeedInv'
    BY <1>1, <1>2, <1>9, <2>3, <2>4, <2>5, <2>6 DEF FeedInv
  <2>8. UNCHANGED <<Result, ret>> /\ Given' /\ TableSorted'
    BY <1>1, <2>1, GoesOn
  <2> QED BY <2>1, <2>2, <2>7, <2>8 DEF LInv
<1>10. CASE call.op = "purge"
  <2>1. /\ at' = "sort" /\ len' = len /\ Here = len /\ InOrderTo = row
    BY <1>1, <1>10 DEF Settle, Here, InOrderTo
  <2>2. LoopsTypeOK'
    BY <1>1, <1>2, <1>4, <1>7, <2>1 DEF LoopsTypeOK
  <2>3. Table' = Held
    <3>1. /\ Table' \in Seq(Alarm) /\ Len(Table') = len
          /\ \A q \in 1..len : Table'[q] = tasks'[q]
      BY <1>3, <1>4, <1>7, <2>1, <2>2, NextTable
    <3> QED BY <1>3, <1>6, <2>1, <3>1, SeqEqual
  <2>4. ASSUME NEW i \in 1..len, NEW j \in 1..len, i < j, j < row + 1
        PROVE  tasks'[i].ts <= tasks'[j].ts
    <3>1. i \in 1..InOrderTo /\ j \in 1..InOrderTo
      BY <1>4, <2>1, <2>4
    <3> QED BY <1>6, <1>8, <2>1, <2>4, <3>1
  <2>5. row + 1 >= 2 /\ row + 1 <= len + 2
    BY <1>2, <1>4, <2>1
  <2>6. SortInv'
    BY <1>1, <1>2, <1>10, <2>1, <2>3, <2>4, <2>5 DEF SortInv
  <2>7. UNCHANGED <<Result, ret>> /\ Given' /\ TableSorted'
    BY <1>1, <2>1, GoesOn
  <2> QED BY <2>1, <2>2, <2>6, <2>7 DEF LInv
<1> QED BY <1>2, <1>9, <1>10

-----------------------------------------------------------------------------
(* Finding and removing                                                    *)

\* Row row of the table is looked at.
LEMMA LookDone ==
    ASSUME LInv, Look
    PROVE  LInv' /\ (A!Next \/ UNCHANGED <<Result, ret>>)
<1>1. /\ at = "find" /\ LoopsTypeOK /\ FindInv /\ Given /\ UNCHANGED <<tasks, len>>
  BY DEF Look, LInv
<1>2. /\ Table \in Seq(Alarm) /\ Len(Table) = len /\ DOMAIN Table = 1..len
      /\ len \in Nat /\ MaxRows \in Nat /\ len <= MaxRows
      /\ \A q \in 1..len : Table[q] = tasks[q] /\ q \in Slots
  BY <1>1, TableIs
<1>3. /\ call.op \in {"find", "remove"} /\ Table = call.lst /\ row <= len + 1
      /\ \A q \in 1..row-1 : tasks[q].task # call.task
      /\ row \in Nat /\ row >= 1 /\ call.task \in Tasks /\ tasks \in [Slots -> Alarm]
      /\ len \in 0..MaxRows
  BY <1>1 DEF FindInv, LoopsTypeOK
<1>4. Table' = Table
  BY <1>1 DEF Table
<1>5. IsSortedByTime(Table)
  BY <1>1, <1>3 DEF Given
<1>6. \A r \in 0..MaxRows+1 : Return(r) =>
          LInv' /\ Result = call.lst /\ Result' = Table /\ ret' = r
  <2> SUFFICES ASSUME NEW r \in 0..MaxRows+1, Return(r)
               PROVE  LInv' /\ Result = call.lst /\ Result' = Table /\ ret' = r
    OBVIOUS
  <2>1. tasks' \in [Slots -> Alarm] /\ len' \in 0..MaxRows /\ IsSortedByTime(Table')
    BY <1>1, <1>3, <1>4, <1>5
  <2> QED BY <1>1, <1>4, <2>1, Returns
<1>7. \A q \in 1..row-1 : q \in 1..len /\ Table[q].task # call.task
  BY <1>2, <1>3
<1>8. CASE row > len /\ Return(0)
  <2>1. LInv' /\ Result = call.lst /\ Result' = Table /\ ret' = 0
    BY <1>2, <1>6, <1>8
  <2>2. RowsOf(call.lst, call.task) = {}
    BY <1>2, <1>3, <1>7, <1>8 DEF RowsOf
  <2>3. TaskFind(call.lst, call.task) = 0
    BY <1>2, <1>3, <2>2, FirstOfTask
  <2>4. TaskRemove(call.lst, call.task) = call.lst
    BY <2>3 DEF TaskRemove
  <2>5. A!Next
    BY <1>3, <2>1, <2>3, <2>4, Promise
  <2> QED BY <2>1, <2>5
<1>9. CASE row <= len /\ tasks[row].task = call.task /\ call.op = "find" /\ Return(row)
  <2>1. row \in 0..MaxRows+1
    BY <1>2, <1>3, <1>9
  <2>2. LInv' /\ Result = call.lst /\ Result' = Table /\ ret' = row
    BY <1>6, <1>9, <2>1
  <2>3. row \in RowsOf(call.lst, call.task)
    BY <1>2, <1>3, <1>9 DEF RowsOf
  <2>4. TaskFind(call.lst, call.task) = row
    BY <1>2, <1>3, <1>7, <2>3, FindIs
  <2>5. A!Next
    BY <1>3, <2>2, <2>4, Promise
  <2> QED BY <2>2, <2>5
<1>10. CASE /\ row <= len /\ tasks[row].task = call.task /\ call.op = "remove"
            /\ at' = "close" /\ pos' = row
            /\ UNCHANGED <<ret, call, row, cnt, key, changed>>
  <2>1. row \in Slots
    BY <1>2, <1>3, <1>10
  <2>2. LoopsTypeOK'
    BY <1>1, <1>10, <2>1 DEF LoopsTypeOK
  <2>3. row \in RowsOf(call.lst, call.task)
    BY <1>2, <1>3, <1>10 DEF RowsOf
  <2>4. TaskFind(call.lst, call.task) = row
    BY <1>2, <1>3, <1>7, <2>3, FindIs
  <2>5. Closing' = RemoveAt(call.lst, row)
    BY <1>3, <1>4, <1>10 DEF Closing
  <2>6. CloseInv'
    BY <1>1, <1>2, <1>3, <1>10, <2>4, <2>5 DEF CloseInv
  <2>7. UNCHANGED <<Result, ret>> /\ Given' /\ TableSorted'
    BY <1>1, <1>10, GoesOn
  <2> QED BY <1>10, <2>2, <2>6, <2>7 DEF LInv
<1>11. CASE /\ row <= len /\ tasks[row].task # call.task /\ row' = row + 1
            /\ UNCHANGED <<ret, at, call, pos, cnt, key, changed>>
  <2>1. LoopsTypeOK'
    BY <1>1, <1>3, <1>11 DEF LoopsTypeOK
  <2>2. row' <= len' + 1 /\ \A q \in 1..row'-1 : tasks'[q].task # call'.task
    BY <1>1, <1>2, <1>3, <1>11
  <2>3. FindInv'
    BY <1>1, <1>3, <1>4, <1>11, <2>2 DEF FindInv
  <2>4. UNCHANGED <<Result, ret>> /\ Given' /\ TableSorted'
    BY <1>1, <1>11, GoesOn
  <2> QED BY <1>1, <1>11, <2>1, <2>3, <2>4 DEF LInv
<1> QED BY <1>8, <1>9, <1>10, <1>11 DEF Look

\* The rows of a task are finitely many.
LEMMA RowsCounted ==
    ASSUME NEW s \in Seq(Alarm), NEW t
    PROVE  Cardinality(RowsOf(s, t)) \in Nat
<1>1. RowsOf(s, t) \in SUBSET DOMAIN s
  BY DEF RowsOf
<1> QED BY <1>1, RankOrder

\* Row row is looked at, whether it is to be removed.
LEMMA ScanDone ==
    ASSUME LInv, Scan
    PROVE  LInv' /\ (A!Next \/ UNCHANGED <<Result, ret>>)
<1>1. /\ at = "scan" /\ LoopsTypeOK /\ ScanInv /\ Given /\ UNCHANGED <<tasks, len>>
  BY DEF Scan, LInv
<1>2. /\ Table \in Seq(Alarm) /\ Len(Table) = len /\ DOMAIN Table = 1..len
      /\ len \in Nat /\ MaxRows \in Nat /\ len <= MaxRows
      /\ \A q \in 1..len : Table[q] = tasks[q] /\ q \in Slots
  BY <1>1, TableIs
<1>3. /\ call.op = "remove_all" /\ IsSortedByTime(Table)
      /\ row <= len + 1 /\ cnt + len = Len(call.lst)
      /\ \A q \in 1..row-1 : tasks[q].task # call.task
      /\ TaskRemoveAll(Table, call.task) = TaskRemoveAll(call.lst, call.task)
      /\ Cardinality(RowsOf(Table, call.task)) + cnt = Cardinality(RowsOf(call.lst, call.task))
      /\ row \in Nat /\ row >= 1 /\ call.task \in Tasks /\ tasks \in [Slots -> Alarm]
      /\ len \in 0..MaxRows /\ cnt \in 0..MaxRows /\ cnt \in Nat
      /\ call.lst \in Seq(Alarm)
  BY <1>1 DEF ScanInv, LoopsTypeOK
<1>4. Table' = Table
  BY <1>1 DEF Table
<1>5. CASE row > len /\ Return(cnt)
  <2>1. \A q \in 1..len : Table[q].task # call.task
    BY <1>2, <1>3, <1>5
  <2>2. RowsOf(Table, call.task) = {}
    BY <1>2, <2>1 DEF RowsOf
  <2>3. TaskRemoveAll(Table, call.task) = Table /\ Cardinality(RowsOf(Table, call.task)) = 0
    BY <1>2, <1>3, <2>2, RemoveAllDone
  <2>4. Table = TaskRemoveAll(call.lst, call.task) /\ cnt = Cardinality(RowsOf(call.lst, call.task))
    BY <1>3, <2>3
  <2>5. cnt \in 0..MaxRows+1
    BY <1>2, <1>3
  <2>6. LInv' /\ Result = call.lst /\ Result' = Table' /\ ret' = cnt
    BY <1>1, <1>3, <1>4, <1>5, <2>5, Returns
  <2>7. Result' = TaskRemoveAll(Result, call.task) /\ ret' = Cardinality(RowsOf(Result, call.task))
    BY <1>4, <2>4, <2>6
  <2>8. A!Next
    BY <1>3, <2>7, Promise
  <2> QED BY <2>6, <2>8
<1>6. CASE /\ row <= len /\ tasks[row].task = call.task
           /\ at' = "close" /\ pos' = row
           /\ UNCHANGED <<ret, call, row, cnt, key, changed>>
  <2>1. row \in 1..len /\ row \in Slots /\ row \in RowsOf(Table, call.task)
    BY <1>2, <1>3, <1>6 DEF RowsOf
  <2>2. LoopsTypeOK'
    BY <1>1, <1>6, <2>1 DEF LoopsTypeOK
  <2>3. Closing' = RemoveAt(Table, row)
    BY <1>4, <1>6 DEF Closing
  <2>4. /\ TaskRemoveAll(Closing', call.task) = TaskRemoveAll(Table, call.task)
        /\ Cardinality(RowsOf(Closing', call.task)) = Cardinality(RowsOf(Table, call.task)) - 1
        /\ IsSortedByTime(Closing')
    BY <1>2, <1>3, <2>1, <2>3, RemoveAllStep, WithoutSorted
  <2>5. Cardinality(RowsOf(Table, call.task)) \in Nat
    BY <1>2, RowsCounted
  <2>6. Cardinality(RowsOf(Closing', call.task)) + cnt + 1 = Cardinality(RowsOf(call.lst, call.task))
    BY <1>3, <2>4, <2>5
  <2>7. CloseInv'
    BY <1>1, <1>2, <1>3, <1>6, <2>4, <2>6 DEF CloseInv
  <2>8. UNCHANGED <<Result, ret>> /\ Given' /\ TableSorted'
    BY <1>1, <1>6, GoesOn
  <2> QED BY <1>6, <2>2, <2>7, <2>8 DEF LInv
<1>7. CASE /\ row <= len /\ tasks[row].task # call.task /\ row' = row + 1
           /\ UNCHANGED <<ret, at, call, pos, cnt, key, changed>>
  <2>1. LoopsTypeOK'
    BY <1>1, <1>3, <1>7 DEF LoopsTypeOK
  <2>2. row' <= len' + 1 /\ \A q \in 1..row'-1 : tasks'[q].task # call'.task
    BY <1>1, <1>2, <1>3, <1>7
  <2>3. ScanInv'
    BY <1>1, <1>3, <1>4, <1>7, <2>2 DEF ScanInv
  <2>4. UNCHANGED <<Result, ret>> /\ Given' /\ TableSorted'
    BY <1>1, <1>7, GoesOn
  <2> QED BY <1>1, <1>7, <2>1, <2>3, <2>4 DEF LInv
<1> QED BY <1>5, <1>6, <1>7 DEF Scan

\* What is known while rows close up.
LEMMA ClosingIs ==
    ASSUME LoopsTypeOK, CloseInv
    PROVE  /\ Closing \in Seq(Alarm) /\ Len(Closing) = len - 1
           /\ \A q \in 1..len-1 : Closing[q] = IF q < pos THEN tasks[q] ELSE tasks[q+1]
           /\ pos \in 1..len /\ row \in 1..len /\ row <= pos /\ len \in Nat /\ len >= 1
           /\ MaxRows \in Nat /\ len <= MaxRows /\ tasks \in [Slots -> Alarm] /\ len \in 0..MaxRows
           /\ cnt \in 0..MaxRows /\ cnt \in Nat /\ call.lst \in Seq(Alarm) /\ call.task \in Tasks
           /\ \A q \in 1..len : q \in Slots
<1>1. /\ Table \in Seq(Alarm) /\ Len(Table) = len /\ DOMAIN Table = 1..len
      /\ len \in Nat /\ MaxRows \in Nat /\ len <= MaxRows
      /\ \A q \in 1..len : Table[q] = tasks[q] /\ q \in Slots
  BY TableIs
<1>2. /\ pos \in Slots /\ row \in Nat /\ row >= 1 /\ row <= pos /\ pos <= len
      /\ tasks \in [Slots -> Alarm] /\ len \in 0..MaxRows
      /\ cnt \in 0..MaxRows /\ call.lst \in Seq(Alarm) /\ call.task \in Tasks
  BY DEF LoopsTypeOK, CloseInv
<1>3. pos \in 1..len /\ row \in 1..len /\ len >= 1 /\ cnt \in Nat
  BY <1>1, <1>2 DEF Slots
<1>4. /\ Closing \in Seq(Alarm) /\ Len(Closing) = len - 1
      /\ \A q \in 1..len-1 : Closing[q] = IF q < pos THEN Table[q] ELSE Table[q+1]
  BY <1>1, <1>3, RemoveAtRows DEF Closing
<1>5. \A q \in 1..len-1 : Closing[q] = IF q < pos THEN tasks[q] ELSE tasks[q+1]
  BY <1>1, <1>4
<1> QED BY <1>1, <1>2, <1>3, <1>4, <1>5

\* A row closes up: what will be left is the same.
LEMMA CloseUpDone ==
    ASSUME LInv, CloseUp
    PROVE  LInv' /\ UNCHANGED <<Result, ret>>
<1>1. /\ at = "close" /\ LoopsTypeOK /\ CloseInv /\ Given
      /\ pos < len /\ tasks' = [tasks EXCEPT ![pos] = tasks[pos+1]] /\ pos' = pos + 1
      /\ UNCHANGED <<len, ret, at, call, row, cnt, key, changed>>
  BY DEF CloseUp, LInv
<1>2. /\ Closing \in Seq(Alarm) /\ Len(Closing) = len - 1
      /\ \A q \in 1..len-1 : Closing[q] = IF q < pos THEN tasks[q] ELSE tasks[q+1]
      /\ pos \in 1..len /\ row \in 1..len /\ row <= pos /\ len \in Nat /\ len >= 1
      /\ MaxRows \in Nat /\ len <= MaxRows /\ tasks \in [Slots -> Alarm] /\ len \in 0..MaxRows
      /\ call.lst \in Seq(Alarm) /\ call.task \in Tasks
      /\ \A q \in 1..len : q \in Slots
  BY <1>1, ClosingIs
<1>3. pos + 1 \in 1..len /\ pos + 1 \in Slots /\ pos \in Slots
  BY <1>1, <1>2
<1>4. LoopsTypeOK'
  BY <1>1, <1>2, <1>3 DEF LoopsTypeOK
<1>5. tasks'[pos] = tasks[pos+1] /\ \A q \in 1..len : q # pos => tasks'[q] = tasks[q]
  BY <1>1, <1>2, <1>3
<1>6. Closing' = Closing
  <2>1. /\ Table' \in Seq(Alarm) /\ Len(Table') = len
        /\ \A q \in 1..len : Table'[q] = tasks'[q]
    BY <1>1, <1>4, NextTable
  <2>2. Closing' = RemoveAt(Table', pos + 1)
    BY <1>1 DEF Closing
  <2> HIDE DEF Table, Closing
  <2>3. /\ Closing' \in Seq(Alarm) /\ Len(Closing') = len - 1
        /\ \A q \in 1..len-1 : Closing'[q] = IF q < pos + 1 THEN Table'[q] ELSE Table'[q+1]
    BY <1>3, <2>1, <2>2, RemoveAtRows
  <2>4. ASSUME NEW q \in 1..len-1 PROVE Closing'[q] = Closing[q]
    <3>1. q \in 1..len /\ q + 1 \in 1..len
      BY <1>2
    <3>2. CASE q < pos
      <4>1. q \in Int /\ pos \in Int
        BY <1>2
      <4>2. q < pos + 1 /\ q # pos
        BY <3>2, <4>1
      <4>3. Closing'[q] = tasks'[q] /\ Closing[q] = tasks[q]
        BY <1>2, <2>1, <2>3, <3>1, <3>2, <4>2
      <4> QED BY <1>5, <3>1, <4>2, <4>3
    <3>3. CASE q = pos
      <4>1. q \in Int /\ pos \in Int
        BY <1>2
      <4>2. ~ (q < pos) /\ q < pos + 1
        BY <3>3, <4>1
      <4>3. Closing'[q] = tasks'[q] /\ Closing[q] = tasks[q+1]
        BY <1>2, <2>1, <2>3, <3>1, <4>2
      <4> QED BY <1>5, <3>3, <4>3
    <3>4. CASE q > pos
      <4>1. q \in Int /\ pos \in Int
        BY <1>2
      <4>2. ~ (q < pos) /\ ~ (q < pos + 1) /\ q + 1 # pos
        BY <3>4, <4>1
      <4>3. Closing'[q] = tasks'[q+1] /\ Closing[q] = tasks[q+1]
        BY <1>2, <2>1, <2>3, <3>1, <4>2
      <4> QED BY <1>5, <3>1, <4>2, <4>3
    <3> QED BY <1>2, <3>2, <3>3, <3>4
  <2> QED BY <1>2, <2>3, <2>4, SeqEqual
<1>7. \A q \in 1..row-1 : tasks'[q].task # call.task
  <2>1. \A q \in 1..row-1 : tasks[q].task # call.task /\ q \in 1..len /\ q # pos
    BY <1>1, <1>2 DEF CloseInv
  <2> QED BY <1>5, <2>1
<1>8. row <= pos + 1 /\ pos + 1 <= len
  BY <1>1, <1>2
<1> HIDE DEF Closing
<1>9. CloseInv'
  BY <1>1, <1>6, <1>7, <1>8 DEF CloseInv
<1>10. UNCHANGED <<Result, ret>> /\ Given' /\ TableSorted'
  BY <1>1, GoesOn
<1> QED BY <1>1, <1>4, <1>9, <1>10 DEF LInv

\* The rows have closed up.
LEMMA ClosedDone ==
    ASSUME LInv, Closed
    PROVE  LInv' /\ (A!Next \/ UNCHANGED <<Result, ret>>)
<1>1. /\ at = "close" /\ LoopsTypeOK /\ CloseInv /\ Given
      /\ pos >= len /\ len' = len - 1 /\ UNCHANGED tasks
  BY DEF Closed, LInv
<1>2. /\ Closing \in Seq(Alarm) /\ Len(Closing) = len - 1
      /\ \A q \in 1..len-1 : Closing[q] = IF q < pos THEN tasks[q] ELSE tasks[q+1]
      /\ pos \in 1..len /\ row \in 1..len /\ row <= pos /\ len \in Nat /\ len >= 1
      /\ MaxRows \in Nat /\ len <= MaxRows /\ tasks \in [Slots -> Alarm] /\ len \in 0..MaxRows
      /\ cnt \in 0..MaxRows /\ cnt \in Nat /\ call.lst \in Seq(Alarm) /\ call.task \in Tasks
  BY <1>1, ClosingIs
<1>3. len' \in 0..MaxRows /\ tasks' \in [Slots -> Alarm]
  BY <1>1, <1>2
<1>4. Table' = Closing
  <2>1. /\ Table' \in Seq(Alarm) /\ Len(Table') = len'
        /\ \A q \in 1..len' : Table'[q] = tasks'[q]
    BY <1>3, ArrayRows DEF Table
  <2>2. \A q \in 1..len-1 : Table'[q] = Closing[q]
    BY <1>1, <1>2, <2>1
  <2> HIDE DEF Table, Closing
  <2> QED BY <1>1, <1>2, <2>1, <2>2, SeqEqual
<1>5. CASE call.op = "remove"
  <2>1. /\ Return(row) /\ len = Len(call.lst) /\ TaskFind(call.lst, call.task) = row
        /\ Closing = RemoveAt(call.lst, row)
    BY <1>1, <1>5 DEF Closed, CloseInv
  <2>2. Closing = TaskRemove(call.lst, call.task)
    <3>1. row # 0
      BY <1>2
    <3> QED BY <2>1, <3>1 DEF TaskRemove
  <2>3. IsSortedByTime(Closing)
    BY <1>1, <1>2, <2>1, WithoutSorted DEF Given
  <2>4. row \in 0..MaxRows+1
    BY <1>2
  <2>5. LInv' /\ Result = call.lst /\ Result' = Table' /\ ret' = row
    BY <1>1, <1>3, <1>4, <2>1, <2>3, <2>4, Returns
  <2>6. Result' = TaskRemove(Result, call.task) /\ ret' = TaskFind(Result, call.task)
    BY <1>4, <2>1, <2>2, <2>5
  <2>7. A!Next
    BY <1>2, <2>6, Promise
  <2> QED BY <2>5, <2>7
<1>6. CASE call.op = "remove_all"
  <2>1. /\ at' = "scan" /\ cnt' = cnt + 1 /\ UNCHANGED <<ret, call, row, pos, key, changed>>
    BY <1>1, <1>6 DEF Closed
  <2>2. /\ cnt + len = Len(call.lst) /\ IsSortedByTime(Closing)
        /\ TaskRemoveAll(Closing, call.task) = TaskRemoveAll(call.lst, call.task)
        /\ Cardinality(RowsOf(Closing, call.task)) + cnt + 1
              = Cardinality(RowsOf(call.lst, call.task))
        /\ \A q \in 1..row-1 : tasks[q].task # call.task
    BY <1>1, <1>6 DEF CloseInv
  <2>3. Len(call.lst) <= MaxRows
    BY <1>1 DEF Given
  <2>4. cnt + 1 \in 0..MaxRows
    BY <1>2, <2>2, <2>3
  <2>5. LoopsTypeOK'
    BY <1>1, <1>3, <2>1, <2>4 DEF LoopsTypeOK
  <2>6. Cardinality(RowsOf(Closing, call.task)) \in Nat
    BY <1>2, RowsCounted
  <2> DEFINE a == Cardinality(RowsOf(Closing, call.task))
             b == Cardinality(RowsOf(call.lst, call.task))
  <2>10. a + cnt' = b
    <3>1. a \in Nat /\ a + cnt + 1 = b
      BY <2>2, <2>6
    <3> HIDE DEF a, b
    <3> QED BY <1>2, <2>1, <3>1
  <2>7. row' <= len' + 1 /\ cnt' + len' = Len(call.lst)
    BY <1>1, <1>2, <2>1, <2>2, SMTT(30)
  <2>8. ScanInv'
    BY <1>1, <1>4, <1>6, <2>1, <2>2, <2>7, <2>10 DEF ScanInv
  <2>9. UNCHANGED <<Result, ret>> /\ Given' /\ TableSorted'
    BY <1>1, <2>1, GoesOn
  <2> QED BY <2>1, <2>5, <2>8, <2>9 DEF LInv
<1> QED BY <1>1, <1>5, <1>6 DEF CloseInv

-----------------------------------------------------------------------------
(* The next alarm, and the one that moves a week on                        *)

\* Row row is looked at, whether it is in the future.
LEMMA SearchNextDone ==
    ASSUME LInv, SearchNext
    PROVE  LInv' /\ (A!Next \/ UNCHANGED <<Result, ret>>)
<1>1. /\ at = "next" /\ LoopsTypeOK /\ NextInv /\ Given /\ UNCHANGED <<tasks, len>>
  BY DEF SearchNext, LInv
<1>2. /\ Table \in Seq(Alarm) /\ Len(Table) = len /\ DOMAIN Table = 1..len
      /\ len \in Nat /\ MaxRows \in Nat /\ len <= MaxRows
      /\ \A q \in 1..len : Table[q] = tasks[q] /\ q \in Slots /\ tasks[q].ts \in Int
  BY <1>1, TableIs
<1>3. /\ call.op = "next" /\ call.n \in Moments /\ Table = call.lst /\ row <= len + 1
      /\ \A q \in 1..row-1 : tasks[q].ts <= call.n
      /\ row \in Nat /\ row >= 1 /\ call.n \in Int /\ tasks \in [Slots -> Alarm]
      /\ len \in 0..MaxRows
  BY <1>1 DEF NextInv, LoopsTypeOK
<1>4. Table' = Table
  BY <1>1 DEF Table
<1>5. CASE (row <= len => tasks[row].ts > call.n) /\ Return(row)
  <2>1. row \in 0..MaxRows+1
    BY <1>2, <1>3
  <2>2. IsSortedByTime(Table')
    BY <1>1, <1>3, <1>4 DEF Given
  <2>3. LInv' /\ Result = call.lst /\ Result' = Table' /\ ret' = row
    BY <1>1, <1>3, <1>5, <2>1, <2>2, Returns
  <2>4. \A q \in 1..row-1 : q \in 1..len /\ Table[q].ts <= call.n
    BY <1>2, <1>3
  <2>5. \/ Future(Table, call.n) = {} /\ row = len + 1
        \/ row \in DOMAIN Table /\ IsNextAlarm(Table, call.n, row)
    <3>1. CASE row = len + 1
      <4>1. \A q \in 1..len : ~ (Table[q].ts > call.n)
        BY <1>2, <1>3, <2>4, <3>1
      <4> QED BY <1>2, <3>1, <4>1 DEF Future
    <3>2. CASE row <= len
      <4>1. row \in 1..len /\ Table[row].ts > call.n
        BY <1>2, <1>3, <1>5, <3>2
      <4> QED BY <1>2, <2>4, <4>1 DEF IsNextAlarm, Future
    <3> QED BY <1>2, <1>3, <3>1, <3>2
  <2>6. /\ Result' = Result
        /\ \/ Future(Result, call.n) = {} /\ ret' = Len(Result) + 1
           \/ ret' \in DOMAIN Result /\ IsNextAlarm(Result, call.n, ret')
    BY <1>2, <1>3, <1>4, <2>3, <2>5
  <2>7. A!Next
    BY <1>3, <2>6, Promise
  <2> QED BY <2>3, <2>7
<1>6. CASE /\ row <= len /\ tasks[row].ts <= call.n /\ row' = row + 1
           /\ UNCHANGED <<ret, at, call, pos, cnt, key, changed>>
  <2>1. LoopsTypeOK'
    BY <1>1, <1>3, <1>6 DEF LoopsTypeOK
  <2>2. row' <= len' + 1 /\ \A q \in 1..row'-1 : tasks'[q].ts <= call'.n
    BY <1>1, <1>2, <1>3, <1>6
  <2>3. NextInv'
    BY <1>1, <1>3, <1>4, <1>6, <2>2 DEF NextInv
  <2>4. UNCHANGED <<Result, ret>> /\ Given' /\ TableSorted'
    BY <1>1, <1>6, GoesOn
  <2> QED BY <1>1, <1>6, <2>1, <2>3, <2>4 DEF LInv
<1> QED BY <1>5, <1>6 DEF SearchNext

-----------------------------------------------------------------------------
(* Purging                                                                 *)

\* The rows in front of the c-th, and those from the r-th on.
LEMMA RestAt ==
    ASSUME NEW f \in [Slots -> Alarm], NEW n \in 0..MaxRows, NEW c \in Nat, NEW r \in Nat,
           r >= 1, c <= r - 1, r <= n + 1
    PROVE  /\ \A q \in 1..c + (n + 1 - r) : q <= c => RestOf(f, n, c, r)[q] = f[q]
           /\ \A q \in 1..c + (n + 1 - r) : q > c => RestOf(f, n, c, r)[q] = f[q + (r - 1 - c)]
BY DEF RestOf

\* They are a table.
LEMMA RestRows ==
    ASSUME NEW f \in [Slots -> Alarm], NEW n \in 0..MaxRows, NEW c \in Nat, NEW r \in Nat,
           r >= 1, c <= r - 1, r <= n + 1
    PROVE  /\ RestOf(f, n, c, r) \in Seq(Alarm)
           /\ Len(RestOf(f, n, c, r)) = c + (n + 1 - r)
<1> DEFINE h == c + (n + 1 - r)
           u == RestOf(f, n, c, r)
<1>1. n \in Nat /\ MaxRows \in Nat /\ \A q \in 1..n : f[q] \in Alarm
  BY ArrayRows
<1>2. h \in 0..MaxRows
  BY <1>1
<1>3. \A q \in 1..h : /\ q <= c => q \in 1..n
                      /\ ~ (q <= c) => q + (r - 1 - c) \in 1..n
  BY <1>1
<1>4. u = [q \in 1..h |-> IF q <= c THEN f[q] ELSE f[q + (r - 1 - c)]]
  BY DEF RestOf
<1> HIDE DEF u, h
<1>5. u \in [1..h -> Alarm]
  BY <1>1, <1>3, <1>4
<1>6. u \in Seq(Alarm) /\ Len(u) = h
  BY <1>2, <1>5, SeqDef, LenProperties
<1> QED BY <1>6 DEF u, h

\* Row r, or what it has become, is put behind the c rows in front.
LEMMA RestKeeps ==
    ASSUME NEW f \in [Slots -> Alarm], NEW n \in 0..MaxRows, NEW c \in Nat, NEW r \in Nat,
           r >= 1, c <= r - 1, r <= n,
           NEW g \in [Slots -> Alarm], \A q \in Slots : q # c + 1 => g[q] = f[q]
    PROVE  LET s == RestOf(f, n, c, r)
               u == RestOf(g, n, c + 1, r + 1)
           IN  /\ s \in Seq(Alarm) /\ u \in Seq(Alarm) /\ Len(u) = Len(s)
               /\ c + 1 <= Len(s) /\ s[c+1] = f[r] /\ u[c+1] = g[c+1]
               /\ \A q \in 1..Len(s) : q # c + 1 => u[q] = s[q]
<1> DEFINE s == RestOf(f, n, c, r)
           u == RestOf(g, n, c + 1, r + 1)
           h == c + (n + 1 - r)
<1> HIDE DEF s, u, h
<1>1. n \in Nat /\ MaxRows \in Nat /\ \A q \in 1..n : q \in Slots
  BY ArrayRows
<1>2. h \in Nat /\ h = c + (n + 1 - r)
  BY <1>1 DEF h
<1>3. /\ s \in Seq(Alarm) /\ Len(s) = h
      /\ \A q \in 1..h : q <= c => s[q] = f[q]
      /\ \A q \in 1..h : q > c => s[q] = f[q + (r - 1 - c)]
  <2>1. r <= n + 1
    BY <1>1
  <2>2. s \in Seq(Alarm) /\ Len(s) = h
    BY <2>1, RestRows DEF s, h
  <2>3. /\ \A q \in 1..h : q <= c => s[q] = f[q]
        /\ \A q \in 1..h : q > c => s[q] = f[q + (r - 1 - c)]
    BY <2>1, RestAt DEF s, h
  <2> QED BY <2>2, <2>3
<1>4. /\ u \in Seq(Alarm) /\ Len(u) = h
      /\ \A q \in 1..h : q <= c + 1 => u[q] = g[q]
      /\ \A q \in 1..h : q > c + 1 => u[q] = g[q + (r - 1 - c)]
  <2> DEFINE m == r + 1
             k == c + 1
  <2>1. /\ m \in Nat /\ k \in Nat /\ m >= 1 /\ k <= m - 1 /\ m <= n + 1
        /\ k + (n + 1 - m) = h /\ m - 1 - k = r - 1 - c
    BY <1>1, <1>2
  <2> HIDE DEF m, k
  <2>2. /\ RestOf(g, n, k, m) \in Seq(Alarm)
        /\ Len(RestOf(g, n, k, m)) = k + (n + 1 - m)
    BY <2>1, RestRows
  <2>3. /\ \A q \in 1..k + (n + 1 - m) : q <= k => RestOf(g, n, k, m)[q] = g[q]
        /\ \A q \in 1..k + (n + 1 - m) : q > k =>
                RestOf(g, n, k, m)[q] = g[q + (m - 1 - k)]
    BY <2>1, RestAt, Zenon
  <2>4. u = RestOf(g, n, k, m)
    BY DEF u, k, m
  <2>5. u \in Seq(Alarm) /\ Len(u) = h
    BY <2>1, <2>2, <2>4, Zenon
  <2>6. /\ \A q \in 1..h : q <= k => u[q] = g[q]
        /\ \A q \in 1..h : q > k => u[q] = g[q + (r - 1 - c)]
    BY <2>1, <2>3, <2>4, Zenon
  <2> QED BY <2>5, <2>6 DEF k
<1>5. c + 1 \in 1..h /\ c + 1 \in Slots /\ c + 1 \in 1..n
  BY <1>1, <1>2
<1>6. \A q \in 1..n : q # c + 1 => g[q] = f[q]
  BY <1>1
<1>7. s[c+1] = f[r]
  <2>1. c + 1 > c /\ c + 1 + (r - 1 - c) = r
    OBVIOUS
  <2> QED BY <1>3, <1>5, <2>1
<1>8. u[c+1] = g[c+1]
  <2>1. c + 1 <= c + 1
    OBVIOUS
  <2> QED BY <1>4, <1>5, <1>6, <2>1
<1>9. ASSUME NEW q \in 1..h, q # c + 1 PROVE u[q] = s[q]
  <2>1. q \in Nat /\ q >= 1 /\ q <= h
    BY <1>2
  <2>2. CASE q <= c
    <3>1. q \in 1..n /\ q <= c + 1
      BY <1>1, <1>2, <2>1, <2>2
    <3> QED BY <1>3, <1>4, <1>6, <1>9, <2>2, <3>1
  <2>3. CASE q > c + 1
    <3>1. q > c /\ q + (r - 1 - c) \in 1..n /\ q + (r - 1 - c) # c + 1
      BY <1>1, <1>2, <2>1, <2>3
    <3>2. s[q] = f[q + (r - 1 - c)] /\ u[q] = g[q + (r - 1 - c)]
      BY <1>3, <1>4, <2>3, <3>1
    <3> QED BY <1>6, <3>1, <3>2
  <2> QED BY <1>9, <2>1, <2>2, <2>3
<1> QED BY <1>2, <1>3, <1>4, <1>5, <1>7, <1>8, <1>9 DEF s, u

\* Row r is dropped.
LEMMA RestDrops ==
    ASSUME NEW f \in [Slots -> Alarm], NEW n \in 0..MaxRows, NEW c \in Nat, NEW r \in Nat,
           r >= 1, c <= r - 1, r <= n
    PROVE  LET s == RestOf(f, n, c, r)
               u == RestOf(f, n, c, r + 1)
           IN  /\ s \in Seq(Alarm) /\ c + 1 <= Len(s) /\ s[c+1] = f[r]
               /\ u = RemoveAt(s, c + 1)
<1> DEFINE s == RestOf(f, n, c, r)
           u == RestOf(f, n, c, r + 1)
           h == c + (n + 1 - r)
<1> HIDE DEF s, u, h
<1>1. n \in Nat /\ MaxRows \in Nat
  BY ArrayRows
<1>2. h \in Nat /\ h = c + (n + 1 - r)
  BY <1>1 DEF h
<1>3. /\ s \in Seq(Alarm) /\ Len(s) = h
      /\ \A q \in 1..h : q <= c => s[q] = f[q]
      /\ \A q \in 1..h : q > c => s[q] = f[q + (r - 1 - c)]
  <2>1. r <= n + 1
    BY <1>1
  <2>2. s \in Seq(Alarm) /\ Len(s) = h
    BY <2>1, RestRows DEF s, h
  <2>3. /\ \A q \in 1..h : q <= c => s[q] = f[q]
        /\ \A q \in 1..h : q > c => s[q] = f[q + (r - 1 - c)]
    BY <2>1, RestAt DEF s, h
  <2> QED BY <2>2, <2>3
<1>4. /\ u \in Seq(Alarm) /\ Len(u) = h - 1
      /\ \A q \in 1..h-1 : q <= c => u[q] = f[q]
      /\ \A q \in 1..h-1 : q > c => u[q] = f[q + (r - c)]
  <2> DEFINE m == r + 1
  <2>1. /\ m \in Nat /\ m >= 1 /\ c <= m - 1 /\ m <= n + 1
        /\ c + (n + 1 - m) = h - 1 /\ m - 1 - c = r - c
    BY <1>1, <1>2
  <2> HIDE DEF m
  <2>2. /\ RestOf(f, n, c, m) \in Seq(Alarm)
        /\ Len(RestOf(f, n, c, m)) = c + (n + 1 - m)
    BY <2>1, RestRows, Zenon
  <2>3. /\ \A q \in 1..c + (n + 1 - m) : q <= c => RestOf(f, n, c, m)[q] = f[q]
        /\ \A q \in 1..c + (n + 1 - m) : q > c =>
                RestOf(f, n, c, m)[q] = f[q + (m - 1 - c)]
    BY <2>1, RestAt, Zenon
  <2>4. u = RestOf(f, n, c, m)
    BY DEF u, m
  <2> QED BY <2>1, <2>2, <2>3, <2>4, Zenon
<1>5. c + 1 \in 1..h
  BY <1>1, <1>2
<1> DEFINE v == RemoveAt(s, c + 1)
<1>6. /\ v \in Seq(Alarm) /\ Len(v) = h - 1
      /\ \A q \in 1..h-1 : v[q] = IF q < c + 1 THEN s[q] ELSE s[q+1]
  BY <1>3, <1>5, RemoveAtRows
<1> HIDE DEF v
<1>7. s[c+1] = f[r]
  <2>1. c + 1 > c /\ c + 1 + (r - 1 - c) = r
    OBVIOUS
  <2> QED BY <1>3, <1>5, <2>1
<1>8. ASSUME NEW q \in 1..h-1 PROVE u[q] = v[q]
  <2>1. q \in Nat /\ q >= 1 /\ q \in 1..h /\ q + 1 \in 1..h
    BY <1>2
  <2>2. CASE q <= c
    <3>1. q < c + 1
      BY <2>1, <2>2
    <3> QED BY <1>3, <1>4, <1>6, <2>1, <2>2, <3>1
  <2>3. CASE q > c
    <3>1. ~ (q < c + 1) /\ q + 1 > c /\ q + 1 + (r - 1 - c) = q + (r - c)
      BY <2>1, <2>3
    <3>2. v[q] = s[q+1] /\ u[q] = f[q + (r - c)]
      BY <1>4, <1>6, <2>3, <3>1
    <3>3. s[q+1] = f[q + 1 + (r - 1 - c)]
      BY <1>3, <2>1, <3>1
    <3> QED BY <3>1, <3>2, <3>3
  <2> QED BY <2>1, <2>2, <2>3
<1>9. u = v
  BY <1>2, <1>4, <1>6, <1>8, SeqEqual
<1> QED BY <1>2, <1>3, <1>5, <1>7, <1>9 DEF s, u, v

\* What is known while rows are looked at by a purge.
LEMMA RoundIs ==
    ASSUME LoopsTypeOK, RoundInv
    PROVE  /\ tasks \in [Slots -> Alarm] /\ len \in 0..MaxRows /\ len \in Nat /\ MaxRows \in Nat
           /\ len <= MaxRows /\ cnt \in Nat /\ row \in Nat /\ row >= 1 /\ cnt <= row - 1
           /\ row <= len + 1 /\ call.n \in Int /\ call.n \in Moments /\ call.lst \in Seq(Alarm)
           /\ len = Len(call.lst) /\ DOMAIN call.lst = 1..len
           /\ \A q \in 1..len : /\ q \in Slots /\ tasks[q] \in Alarm /\ tasks[q].ts \in Int
                              /\ call.lst[q] \in Alarm /\ call.lst[q].ts \in Int
<1>1. /\ tasks \in [Slots -> Alarm] /\ len \in 0..MaxRows /\ cnt \in 0..MaxRows
      /\ row \in Nat \ {0} /\ call.n \in Int /\ call.lst \in Seq(Alarm) /\ MaxRows \in Nat
  BY MaxRowsAssumption DEF LoopsTypeOK
<1>2. /\ len = Len(call.lst) /\ row <= len + 1 /\ cnt <= row - 1 /\ call.n \in Moments
  BY DEF RoundInv
<1>3. \A q \in 1..len : q \in Slots /\ tasks[q] \in Alarm /\ tasks[q].ts \in Int
  BY TableIs
<1>4. DOMAIN call.lst = 1..len
  BY <1>1, <1>2, LenProperties
<1>5. \A q \in 1..len : call.lst[q] \in Alarm
  BY <1>1, <1>4, ElementOfSeq
<1>6. \A q \in 1..len : call.lst[q].ts \in Int
  BY <1>5 DEF Alarm
<1> QED BY <1>1, <1>2, <1>3, <1>4, <1>5, <1>6

\* A row is put behind those in front, and the next is going to be looked at.
LEMMA Kept ==
    ASSUME LoopsTypeOK, RoundInv, row <= len, NEW a \in Alarm, Keep(a)
    PROVE  /\ tasks' \in [Slots -> Alarm] /\ cnt' = cnt + 1 /\ row' = row + 1
           /\ cnt + 1 \in 0..MaxRows /\ row + 1 \in Nat \ {0} /\ row + 1 <= len + 1
           /\ tasks'[cnt+1] = a
           /\ \A q \in 1..len : q # cnt + 1 => tasks'[q] = tasks[q]
           /\ Rest \in Seq(Alarm) /\ cnt + 1 <= Len(Rest) /\ Rest[cnt+1] = tasks[row]
           /\ RestOf(tasks', len, cnt + 1, row + 1) \in Seq(Alarm)
           /\ Len(RestOf(tasks', len, cnt + 1, row + 1)) = Len(Rest)
           /\ RestOf(tasks', len, cnt + 1, row + 1)[cnt+1] = a
           /\ \A q \in 1..Len(Rest) : q # cnt + 1 =>
                 RestOf(tasks', len, cnt + 1, row + 1)[q] = Rest[q]
<1>1. /\ tasks \in [Slots -> Alarm] /\ len \in 0..MaxRows /\ len \in Nat /\ MaxRows \in Nat
      /\ len <= MaxRows /\ cnt \in Nat /\ row \in Nat /\ row >= 1 /\ cnt <= row - 1
      /\ \A q \in 1..len : q \in Slots
  BY RoundIs
<1>2. /\ cnt' = cnt + 1 /\ row' = row + 1 /\ tasks' = [tasks EXCEPT ![cnt+1] = a]
  BY DEF Keep
<1>3. /\ cnt + 1 \in 1..len /\ cnt + 1 \in 0..MaxRows /\ row + 1 \in Nat \ {0}
      /\ row + 1 <= len + 1
  BY <1>1
<1>4. tasks' \in [Slots -> Alarm] /\ tasks'[cnt+1] = a
  BY <1>1, <1>2, <1>3
<1>5. \A q \in Slots : q # cnt + 1 => tasks'[q] = tasks[q]
  BY <1>1, <1>2
<1> DEFINE f == tasks
           g == tasks'
           n == len
           c == cnt
           r == row
<1>6. /\ f \in [Slots -> Alarm] /\ n \in 0..MaxRows /\ c \in Nat /\ r \in Nat
      /\ r >= 1 /\ c <= r - 1 /\ r <= n
      /\ g \in [Slots -> Alarm] /\ \A q \in Slots : q # c + 1 => g[q] = f[q]
  BY <1>1, <1>4, <1>5
<1> HIDE DEF f, g, n, c, r
<1>7. LET s == RestOf(f, n, c, r)
          u == RestOf(g, n, c + 1, r + 1)
      IN  /\ s \in Seq(Alarm) /\ u \in Seq(Alarm) /\ Len(u) = Len(s)
          /\ c + 1 <= Len(s) /\ s[c+1] = f[r] /\ u[c+1] = g[c+1]
          /\ \A q \in 1..Len(s) : q # c + 1 => u[q] = s[q]
  BY ONLY <1>6, RestKeeps
<1>8. \A q \in 1..len : q # cnt + 1 => tasks'[q] = tasks[q]
  BY <1>1, <1>5
<1> QED BY <1>2, <1>3, <1>4, <1>7, <1>8, Zenon DEF Rest, f, g, n, c, r

\* A row is looked at, whether it is kept, moved or dropped; or all have been.
LEMMA RoundDone ==
    ASSUME LInv, Round
    PROVE  LInv' /\ (A!Next \/ UNCHANGED <<Result, ret>>)
<1>1. at = "round" /\ LoopsTypeOK /\ RoundInv /\ Given
  BY DEF Round, LInv
<1>2. /\ tasks \in [Slots -> Alarm] /\ len \in 0..MaxRows /\ len \in Nat /\ MaxRows \in Nat
      /\ len <= MaxRows /\ cnt \in Nat /\ row \in Nat /\ row >= 1 /\ cnt <= row - 1
      /\ row <= len + 1 /\ call.n \in Int /\ call.n \in Moments /\ call.lst \in Seq(Alarm)
      /\ len = Len(call.lst) /\ DOMAIN call.lst = 1..len
      /\ \A q \in 1..len : /\ q \in Slots /\ tasks[q] \in Alarm /\ tasks[q].ts \in Int
                         /\ call.lst[q] \in Alarm /\ call.lst[q].ts \in Int
  BY <1>1, RoundIs
<1>3. /\ call.op = "purge"
      /\ \A q \in row..len : tasks[q] = call.lst[q]
      /\ \A q \in 1..cnt : tasks[q].ts > call.n
      /\ Purged(Rest, call.n) = Purged(call.lst, call.n)
      /\ changed => Due(call.lst, call.n) # {}
      /\ ~ changed => cnt = row - 1 /\ \A q \in 1..cnt : tasks[q] = call.lst[q]
  BY <1>1 DEF RoundInv
<1>4. CASE row > len /\ ~ changed /\ Return(0) /\ UNCHANGED <<tasks, len>>
  <2>1. cnt = len /\ \A q \in 1..len : tasks[q] = call.lst[q] /\ call.lst[q].ts > call.n
    BY <1>2, <1>3, <1>4, SMTT(30)
  <2>2. Table' = Table /\ Table \in Seq(Alarm) /\ Len(Table) = len /\ \A q \in 1..len : Table[q] = tasks[q]
    BY <1>1, <1>4, TableIs DEF Table
  <2>3. Table = call.lst
    BY <1>2, <2>1, <2>2, SeqEqual
  <2>4. Due(call.lst, call.n) = {}
    BY <1>2, <2>1 DEF Due
  <2>5. PurgePastAlarms(call.lst, call.n) = call.lst
    BY <2>4 DEF PurgePastAlarms
  <2>6. LInv' /\ Result = call.lst /\ Result' = Table' /\ ret' = 0
    <3>1. IsSortedByTime(Table') /\ 0 \in 0..MaxRows+1
      BY <1>1, <1>2, <2>2, <2>3 DEF Given
    <3> QED BY <1>1, <1>2, <1>4, <3>1, Returns
  <2>7. Result' = PurgePastAlarms(Result, call.n) /\ ret' = IF Due(Result, call.n) = {} THEN 0 ELSE 1
    BY <2>2, <2>3, <2>4, <2>5, <2>6
  <2>8. A!Next
    BY <1>2, <2>7, Promise
  <2> QED BY <2>6, <2>8
<1>5. CASE /\ row > len /\ changed /\ len' = cnt /\ row' = 2 /\ at' = "sort"
           /\ UNCHANGED <<tasks, ret, call, pos, cnt, key, changed>>
  <2>1. cnt \in 0..MaxRows /\ row = len + 1 /\ cnt + (len + 1 - row) = cnt
    <3>1. row = len + 1
      BY <1>2, <1>5
    <3> QED BY <1>2, <3>1
  <2>2. LoopsTypeOK'
    <3>1. len' \in 0..MaxRows
      BY <1>5, <2>1
    <3>2. row' \in Nat \ {0}
      BY <1>5
    <3> QED BY <1>1, <1>5, <3>1, <3>2 DEF LoopsTypeOK
  <2>3. /\ Table' \in Seq(Alarm) /\ Len(Table') = cnt /\ DOMAIN Table' = 1..cnt
        /\ \A q \in 1..cnt : Table'[q] = tasks[q]
    BY <1>5, <2>2, NextTable
  <2>4. Rest \in Seq(Alarm) /\ Len(Rest) = cnt + (len + 1 - row)
    <3>1. /\ tasks \in [Slots -> Alarm] /\ len \in 0..MaxRows /\ cnt \in Nat
          /\ row \in Nat /\ row >= 1 /\ cnt <= row - 1 /\ row <= len + 1
      BY <1>2
    <3>2. /\ RestOf(tasks, len, cnt, row) \in Seq(Alarm)
          /\ Len(RestOf(tasks, len, cnt, row)) = cnt + (len + 1 - row)
      BY ONLY <3>1, RestRows, Zenon
    <3> QED BY <3>2 DEF Rest
  <2>5. \A q \in 1..cnt : Rest[q] = tasks[q]
    <3>1. \A q \in 1..cnt + (len + 1 - row) : q <= cnt => RestOf(tasks, len, cnt, row)[q] = tasks[q]
      <4>1. /\ tasks \in [Slots -> Alarm] /\ len \in 0..MaxRows /\ cnt \in Nat
            /\ row \in Nat /\ row >= 1 /\ cnt <= row - 1 /\ row <= len + 1
        BY <1>2
      <4> QED BY ONLY <4>1, RestAt, Zenon
    <3> QED BY <1>2, <2>1, <3>1 DEF Rest
  <2> HIDE DEF Table, Rest
  <2>6. Table' = Rest
    BY <2>1, <2>3, <2>4, <2>5, SeqEqual
  <2>7. Purged(Table', call.n) = ByTime(Table', DOMAIN Table')
    <3> DEFINE s == Table'
    <3>1. s \in Seq(Alarm) /\ \A q \in DOMAIN s : s[q].ts > call.n
      BY <1>3, <2>3
    <3> HIDE DEF s
    <3>2. Purged(s, call.n) = ByTime(s, DOMAIN s)
      BY <1>2, <3>1, PurgeSorts
    <3> QED BY <3>2 DEF s
  <2>8. row' >= 2 /\ row' <= len' + 2
    BY <1>2, <1>5
  <2>9. \A i, j \in 1..len' : i < j /\ j < row' => tasks'[i].ts <= tasks'[j].ts
    BY <1>2, <1>5
  <2>10. SortInv'
    BY <1>2, <1>3, <1>5, <2>6, <2>7, <2>8, <2>9 DEF SortInv
  <2>11. UNCHANGED <<Result, ret>> /\ Given' /\ TableSorted'
    BY <1>1, <1>5, GoesOn
  <2> QED BY <1>5, <2>2, <2>10, <2>11 DEF LInv
<1>6. CASE /\ row <= len /\ tasks[row].ts > call.n /\ Keep(tasks[row])
           /\ UNCHANGED <<len, ret, at, call, pos, key, changed>>
  <2>1. row \in 1..len /\ tasks[row] \in Alarm
    BY <1>2, <1>6
  <2>2. /\ tasks' \in [Slots -> Alarm] /\ cnt' = cnt + 1 /\ row' = row + 1
        /\ cnt + 1 \in 0..MaxRows /\ row + 1 \in Nat \ {0} /\ row + 1 <= len + 1
        /\ tasks'[cnt+1] = tasks[row]
        /\ \A q \in 1..len : q # cnt + 1 => tasks'[q] = tasks[q]
        /\ Rest \in Seq(Alarm) /\ cnt + 1 <= Len(Rest) /\ Rest[cnt+1] = tasks[row]
        /\ RestOf(tasks', len, cnt + 1, row + 1) \in Seq(Alarm)
        /\ Len(RestOf(tasks', len, cnt + 1, row + 1)) = Len(Rest)
        /\ RestOf(tasks', len, cnt + 1, row + 1)[cnt+1] = tasks[row]
        /\ \A q \in 1..Len(Rest) : q # cnt + 1 =>
              RestOf(tasks', len, cnt + 1, row + 1)[q] = Rest[q]
    BY <1>1, <1>6, <2>1, Kept
  <2>3. Rest' = Rest
    <3> DEFINE u == RestOf(tasks', len, cnt + 1, row + 1)
    <3>1. u \in Seq(Alarm) /\ Len(u) = Len(Rest) /\ \A q \in 1..Len(Rest) : u[q] = Rest[q]
      BY <2>2
    <3>2. Rest' = u
      BY <1>6, <2>2 DEF Rest
    <3> HIDE DEF u, Rest
    <3> QED BY <2>2, <3>1, <3>2, SeqEqual
  <2>4. LoopsTypeOK'
    BY <1>1, <1>6, <2>2 DEF LoopsTypeOK
  <2>5. ASSUME NEW q \in row+1..len PROVE tasks'[q] = call.lst[q]
    <3>1. q \in row..len /\ q \in 1..len /\ q # cnt + 1
      BY <1>2
    <3> QED BY <1>3, <2>2, <3>1
  <2>6. ASSUME NEW q \in 1..cnt+1 PROVE tasks'[q].ts > call.n
    <3>1. CASE q = cnt + 1
      BY <1>6, <2>2, <3>1
    <3>2. CASE q # cnt + 1
      <4>1. q \in 1..cnt /\ q \in 1..len
        BY <1>2, <3>2
      <4> QED BY <1>3, <2>2, <3>2, <4>1
    <3> QED BY <3>1, <3>2
  <2>7. ~ changed => cnt + 1 = row + 1 - 1 /\ \A q \in 1..cnt+1 : tasks'[q] = call.lst[q]
    <3>1. ASSUME ~ changed, NEW q \in 1..cnt+1 PROVE tasks'[q] = call.lst[q]
      <4>1. cnt = row - 1 /\ q \in 1..len /\ tasks[row] = call.lst[row]
        BY <1>2, <1>3, <1>6, <3>1
      <4>2. CASE q = cnt + 1
        BY <1>2, <2>2, <4>1, <4>2
      <4>3. CASE q # cnt + 1
        <5>1. q \in 1..cnt
          BY <1>2, <4>1, <4>3
        <5> QED BY <1>3, <2>2, <3>1, <4>1, <4>3, <5>1
      <4> QED BY <4>2, <4>3
    <3> QED BY <1>2, <1>3, <3>1
  <2>8. cnt' <= row' - 1
    BY <1>2, <2>2
  <2> HIDE DEF Rest
  <2>9. RoundInv'
    BY <1>2, <1>3, <1>6, <2>2, <2>3, <2>5, <2>6, <2>7, <2>8 DEF RoundInv
  <2>10. UNCHANGED <<Result, ret>> /\ Given' /\ TableSorted'
    BY <1>1, <1>6, GoesOn
  <2> QED BY <1>1, <1>6, <2>4, <2>9, <2>10 DEF LInv
<1>7. CASE /\ row <= len /\ tasks[row].ts <= call.n /\ tasks[row].does_repeat
           /\ key' = tasks[row] /\ at' = "weeks"
           /\ UNCHANGED <<tasks, len, ret, call, row, pos, cnt, changed>>
  <2>1. row \in 1..len /\ tasks[row] \in Alarm /\ tasks[row] = call.lst[row]
    BY <1>2, <1>3, <1>7
  <2>2. LoopsTypeOK'
    BY <1>1, <1>7, <2>1 DEF LoopsTypeOK
  <2>3. RoundInv'
    <3>1. Rest' = Rest
      BY <1>7 DEF Rest
    <3> QED BY <1>1, <1>7, <3>1 DEF RoundInv
  <2>4. key' = [call.lst[row] EXCEPT !.ts = key'.ts]
    <3>1. key' = call.lst[row] /\ call.lst[row] \in Alarm
      BY <1>2, <1>7, <2>1
    <3> QED BY <3>1 DEF Alarm
  <2>5. WeeksInv'
    BY <1>7, <2>1, <2>3, <2>4 DEF WeeksInv
  <2>6. UNCHANGED <<Result, ret>> /\ Given' /\ TableSorted'
    BY <1>1, <1>7, GoesOn
  <2> QED BY <1>7, <2>2, <2>5, <2>6 DEF LInv
<1>8. CASE /\ row <= len /\ tasks[row].ts <= call.n /\ ~ tasks[row].does_repeat
           /\ changed' = TRUE /\ row' = row + 1
           /\ UNCHANGED <<tasks, len, ret, at, call, pos, cnt, key>>
  <2>1. row \in 1..len /\ tasks[row] = call.lst[row] /\ row + 1 \in Nat \ {0}
    BY <1>2, <1>3, <1>8
  <2>2. LoopsTypeOK'
    <3>1. changed' \in BOOLEAN
      BY <1>8, Zenon
    <3> QED BY <1>1, <1>8, <2>1, <3>1 DEF LoopsTypeOK
  <2>3. row \in Due(call.lst, call.n)
    BY <1>2, <1>8, <2>1 DEF Due
  <2>4. /\ Rest \in Seq(Alarm) /\ cnt + 1 <= Len(Rest) /\ Rest[cnt+1] = tasks[row]
        /\ RestOf(tasks, len, cnt, row + 1) = RemoveAt(Rest, cnt + 1)
    <3>1. /\ tasks \in [Slots -> Alarm] /\ len \in 0..MaxRows /\ cnt \in Nat /\ row \in Nat
          /\ row >= 1 /\ cnt <= row - 1 /\ row <= len
      BY <1>2, <1>8
    <3>2. LET s == RestOf(tasks, len, cnt, row)
              u == RestOf(tasks, len, cnt, row + 1)
          IN  /\ s \in Seq(Alarm) /\ cnt + 1 <= Len(s) /\ s[cnt+1] = tasks[row]
              /\ u = RemoveAt(s, cnt + 1)
      BY ONLY <3>1, RestDrops, Zenon
    <3> QED BY <3>2, Zenon DEF Rest
  <2>5. Rest' = RemoveAt(Rest, cnt + 1)
    BY <1>8, <2>4 DEF Rest
  <2>6. Purged(RemoveAt(Rest, cnt + 1), call.n) = Purged(Rest, call.n)
    <3> HIDE DEF Rest
    <3>1. cnt + 1 \in DOMAIN Rest
      BY <1>2, <2>4, LenProperties
    <3> QED BY <1>2, <1>8, <2>4, <3>1, PurgeDrops
  <2>7. row' <= len' + 1 /\ cnt' <= row' - 1 /\ \A q \in row'..len' : tasks'[q] = call'.lst[q]
    BY <1>2, <1>3, <1>8, <2>1
  <2> HIDE DEF Rest
  <2>8. RoundInv'
    BY <1>2, <1>3, <1>8, <2>3, <2>5, <2>6, <2>7 DEF RoundInv
  <2>9. UNCHANGED <<Result, ret>> /\ Given' /\ TableSorted'
    BY <1>1, <1>8, GoesOn
  <2> QED BY <1>1, <1>8, <2>2, <2>8, <2>9 DEF LInv
<1> QED BY <1>4, <1>5, <1>6, <1>7, <1>8 DEF Round

\* The row moves on by a week, or has come to the future and is kept.
LEMMA WeeksDone ==
    ASSUME LInv, Weeks
    PROVE  LInv' /\ UNCHANGED <<Result, ret>>
<1>1. /\ at = "weeks" /\ LoopsTypeOK /\ WeeksInv /\ RoundInv /\ Given
      /\ UNCHANGED <<ret, call, pos>>
  BY DEF Weeks, LInv, WeeksInv
<1>2. /\ tasks \in [Slots -> Alarm] /\ len \in 0..MaxRows /\ len \in Nat /\ MaxRows \in Nat
      /\ len <= MaxRows /\ cnt \in Nat /\ row \in Nat /\ row >= 1 /\ cnt <= row - 1
      /\ row <= len + 1 /\ call.n \in Int /\ call.n \in Moments /\ call.lst \in Seq(Alarm)
      /\ len = Len(call.lst) /\ DOMAIN call.lst = 1..len
      /\ \A q \in 1..len : /\ q \in Slots /\ tasks[q] \in Alarm /\ tasks[q].ts \in Int
                         /\ call.lst[q] \in Alarm /\ call.lst[q].ts \in Int
  BY <1>1, RoundIs
<1>3. /\ call.op = "purge"
      /\ \A q \in row..len : tasks[q] = call.lst[q]
      /\ \A q \in 1..cnt : tasks[q].ts > call.n
      /\ Purged(Rest, call.n) = Purged(call.lst, call.n)
      /\ ~ changed => cnt = row - 1 /\ \A q \in 1..cnt : tasks[q] = call.lst[q]
  BY <1>1 DEF RoundInv
<1>4. /\ row <= len /\ call.lst[row].does_repeat /\ call.lst[row].ts <= call.n
      /\ key = [call.lst[row] EXCEPT !.ts = key.ts] /\ key \in Alarm
      /\ AdvanceRepeatToFuture(key.ts, call.n)
             = AdvanceRepeatToFuture(call.lst[row].ts, call.n)
  BY <1>1 DEF WeeksInv, LoopsTypeOK
<1>5. row \in 1..len /\ tasks[row] = call.lst[row] /\ key.ts \in Int
  BY <1>2, <1>3, <1>4 DEF Alarm
<1>6. CASE /\ key.ts <= call.n
           /\ key' = [key EXCEPT !.ts = NextWeeklyOccurrence(@)]
           /\ UNCHANGED <<tasks, len, at, row, cnt, changed>>
  <2>1. /\ AdvanceRepeatToFuture(NextWeeklyOccurrence(key.ts), call.n)
               = AdvanceRepeatToFuture(key.ts, call.n)
        /\ NextWeeklyOccurrence(key.ts) \in Int
    BY <1>2, <1>5, <1>6, WeekByWeek
  <2>2. key' \in Alarm /\ key'.ts = NextWeeklyOccurrence(key.ts)
    BY <1>4, <1>6, <2>1 DEF Alarm
  <2>3. key' = [call.lst[row] EXCEPT !.ts = key'.ts]
    <3>1. call.lst[row] \in Alarm
      BY <1>2, <1>5
    <3> QED BY <1>4, <1>6, <2>2, <3>1 DEF Alarm
  <2>4. LoopsTypeOK'
    BY <1>1, <1>6, <2>2 DEF LoopsTypeOK
  <2>5. RoundInv'
    <3>1. Rest' = Rest
      BY <1>6 DEF Rest
    <3> QED BY <1>1, <1>6, <3>1 DEF RoundInv
  <2>6. WeeksInv'
    BY <1>1, <1>4, <1>6, <2>1, <2>2, <2>3, <2>5 DEF WeeksInv
  <2>7. UNCHANGED <<Result, ret>> /\ Given' /\ TableSorted'
    BY <1>1, <1>6, GoesOn
  <2> QED BY <1>1, <1>6, <2>4, <2>6, <2>7 DEF LInv
<1>7. CASE key.ts > call.n /\ Keep(key) /\ changed' = TRUE /\ at' = "round" /\ UNCHANGED <<len, key>>
  <2>2. /\ tasks' \in [Slots -> Alarm] /\ cnt' = cnt + 1 /\ row' = row + 1
        /\ cnt + 1 \in 0..MaxRows /\ row + 1 \in Nat \ {0} /\ row + 1 <= len + 1
        /\ tasks'[cnt+1] = key
        /\ \A q \in 1..len : q # cnt + 1 => tasks'[q] = tasks[q]
        /\ Rest \in Seq(Alarm) /\ cnt + 1 <= Len(Rest) /\ Rest[cnt+1] = tasks[row]
        /\ RestOf(tasks', len, cnt + 1, row + 1) \in Seq(Alarm)
        /\ Len(RestOf(tasks', len, cnt + 1, row + 1)) = Len(Rest)
        /\ RestOf(tasks', len, cnt + 1, row + 1)[cnt+1] = key
        /\ \A q \in 1..Len(Rest) : q # cnt + 1 =>
              RestOf(tasks', len, cnt + 1, row + 1)[q] = Rest[q]
    BY <1>1, <1>4, <1>7, Kept
  <2>3. Purged(Rest', call.n) = Purged(Rest, call.n)
    <3> DEFINE u == RestOf(tasks', len, cnt + 1, row + 1)
               s == Rest
               i == cnt + 1
               v == key.ts
               m == call.n
    <3>1. Rest' = u
      BY <1>7, <2>2 DEF Rest
    <3>2. /\ s \in Seq(Alarm) /\ u \in Seq(Alarm) /\ Len(u) = Len(s) /\ i \in 1..Len(s)
          /\ v \in Int /\ s[i].does_repeat
          /\ AdvanceRepeatToFuture(v, m) = AdvanceRepeatToFuture(s[i].ts, m)
          /\ u[i] = [s[i] EXCEPT !.ts = v] /\ \A q \in 1..Len(s) : q # i => u[q] = s[q]
      BY <1>2, <1>4, <1>5, <2>2, LenProperties, SMTT(30)
    <3>4. m \in Int
      BY <1>2
    <3> HIDE DEF u, s, i, v, m
    <3>3. Purged(u, m) = Purged(s, m)
      <4> QED BY ONLY <3>2, <3>4, PurgeMoves
    <3> QED BY <3>1, <3>3 DEF s, m
  <2>4. LoopsTypeOK'
    <3>1. changed' \in BOOLEAN
      BY <1>7, Zenon
    <3> QED BY <1>1, <1>7, <2>2, <3>1 DEF LoopsTypeOK
  <2>5. ASSUME NEW q \in row+1..len PROVE tasks'[q] = call.lst[q]
    <3>1. q \in row..len /\ q \in 1..len /\ q # cnt + 1
      BY <1>2
    <3> QED BY <1>3, <2>2, <3>1
  <2>6. ASSUME NEW q \in 1..cnt+1 PROVE tasks'[q].ts > call.n
    <3>1. CASE q = cnt + 1
      BY <1>7, <2>2, <3>1
    <3>2. CASE q # cnt + 1
      <4>1. q \in 1..cnt /\ q \in 1..len
        BY <1>2, <3>2
      <4> QED BY <1>3, <2>2, <3>2, <4>1
    <3> QED BY <3>1, <3>2
  <2>7. row \in Due(call.lst, call.n)
    BY <1>2, <1>4, <1>5 DEF Due
  <2>8. cnt' <= row' - 1
    BY <1>2, <2>2
  <2> HIDE DEF Rest
  <2>9. RoundInv'
    BY <1>1, <1>2, <1>3, <1>7, <2>2, <2>3, <2>5, <2>6, <2>7, <2>8 DEF RoundInv
  <2>10. UNCHANGED <<Result, ret>> /\ Given' /\ TableSorted'
    BY <1>1, <1>7, GoesOn
  <2> QED BY <1>7, <2>4, <2>9, <2>10 DEF LInv
<1> QED BY <1>6, <1>7 DEF Weeks

\* A row of the sort is taken up, to be put in; or all have been.
LEMMA SortDone ==
    ASSUME LInv, Sort
    PROVE  LInv' /\ (A!Next \/ UNCHANGED <<Result, ret>>)
<1>1. at = "sort" /\ LoopsTypeOK /\ SortInv /\ Given /\ UNCHANGED <<tasks, len>>
  BY DEF Sort, LInv
<1>2. /\ Table \in Seq(Alarm) /\ Len(Table) = len /\ DOMAIN Table = 1..len
      /\ len \in Nat /\ MaxRows \in Nat /\ len <= MaxRows
      /\ \A q \in 1..len : Table[q] = tasks[q] /\ q \in Slots /\ tasks[q] \in Alarm
  BY <1>1, TableIs
<1>3. /\ call.op = "purge" /\ call.n \in Moments /\ Due(call.lst, call.n) # {}
      /\ row >= 2 /\ row <= len + 2
      /\ \A i, j \in 1..len : i < j /\ j < row => tasks[i].ts <= tasks[j].ts
      /\ ByTime(Table, DOMAIN Table) = Purged(call.lst, call.n)
      /\ row \in Nat /\ tasks \in [Slots -> Alarm] /\ len \in 0..MaxRows
  BY <1>1 DEF SortInv, LoopsTypeOK
<1>4. Table' = Table
  BY <1>1 DEF Table
<1>5. CASE row > len /\ Return(1)
  <2>1. \A i, j \in 1..len : i < j => tasks[i].ts <= tasks[j].ts
    BY <1>2, <1>3, <1>5
  <2>2. IsSortedByTime(Table)
    BY <1>2, <2>1 DEF IsSortedByTime
  <2>3. Table = Purged(call.lst, call.n)
    BY <1>2, <1>3, <2>2, InOrder
  <2>4. Table = PurgePastAlarms(call.lst, call.n)
    BY <1>3, <2>3 DEF PurgePastAlarms, Purged
  <2>5. 1 \in 0..MaxRows+1
    BY <1>2
  <2>6. LInv' /\ Result = call.lst /\ Result' = Table' /\ ret' = 1
    BY <1>1, <1>3, <1>4, <1>5, <2>2, <2>5, Returns
  <2>7. /\ Result' = PurgePastAlarms(Result, call.n)
        /\ ret' = IF Due(Result, call.n) = {} THEN 0 ELSE 1
    BY <1>3, <1>4, <2>4, <2>6
  <2>8. A!Next
    BY <1>3, <2>7, Promise
  <2> QED BY <2>6, <2>8
<1>6. CASE /\ row <= len /\ key' = tasks[row] /\ pos' = row /\ at' = "sift"
           /\ UNCHANGED <<ret, call, row, cnt, changed>>
  <2>1. row \in 1..len /\ row \in Slots /\ tasks[row] \in Alarm
    BY <1>2, <1>3, <1>6
  <2>2. LoopsTypeOK'
    BY <1>1, <1>6, <2>1 DEF LoopsTypeOK
  <2>3. Here' = len /\ InOrderTo' = row
    BY <1>1, <1>3, <1>6 DEF Here, InOrderTo
  <2>4. Held' = Table
    <3>1. Held' = [q \in 1..len |-> IF q = row THEN tasks[row] ELSE tasks[q]]
      BY <1>1, <1>6, <2>3 DEF Held
    <3>2. Table = [q \in 1..len |-> Table[q]]
      BY <1>2
    <3> HIDE DEF Table
    <3>3. \A q \in 1..len : Table[q] = IF q = row THEN tasks[row] ELSE tasks[q]
      BY <1>2
    <3> QED BY <3>1, <3>2, <3>3
  <2>5. \A i, j \in 1..row :
           i < j /\ i # row /\ j # row => tasks'[i].ts <= tasks'[j].ts
    <3>1. ASSUME NEW i \in 1..row, NEW j \in 1..row, i < j, j # row
          PROVE  tasks[i].ts <= tasks[j].ts
      <4>1. i \in 1..len /\ j \in 1..len /\ j < row
        BY <1>2, <1>3, <1>6, <3>1
      <4> QED BY <1>3, <3>1, <4>1
    <3> QED BY <1>1, <3>1
  <2>6. row+1..row = {}
    BY <1>3
  <2> HIDE DEF Held, Here, InOrderTo
  <2>7. SiftInv'
    BY <1>1, <1>2, <1>3, <1>4, <1>6, <2>3, <2>4, <2>5, <2>6 DEF SiftInv
  <2>8. UNCHANGED <<Result, ret>> /\ Given' /\ TableSorted'
    BY <1>1, <1>6, GoesOn
  <2> QED BY <1>6, <2>2, <2>7, <2>8 DEF LInv
<1> QED BY <1>5, <1>6 DEF Sort

-----------------------------------------------------------------------------
(* The weekly row that moves on                                            *)

\* The row the daemon has notified gets its next time.
LEMMA AdvanceBegins ==
    ASSUME LInv, NEW idx \in 1..len, NEW now \in Moments, Advance(idx, now)
    PROVE  LInv' /\ UNCHANGED <<Result, ret>>
<1> DEFINE c == Call("advance", <<>>, Blank.task, idx)
<1>1. /\ at = "ready" /\ tasks[idx].does_repeat /\ tasks[idx].ts <= now
      /\ at' = "rise" /\ call' = c
      /\ key' = [tasks[idx] EXCEPT !.ts = NextWeeklyOccurrence(@)]
      /\ tasks' = [tasks EXCEPT ![idx] = key'] /\ pos' = idx
      /\ UNCHANGED <<len, ret, row, cnt, changed>>
  BY DEF Advance
<1>2. LoopsTypeOK /\ IsSortedByTime(Table)
  BY <1>1 DEF LInv, TableSorted
<1>3. /\ Table \in Seq(Alarm) /\ Len(Table) = len /\ DOMAIN Table = 1..len
      /\ len \in Nat /\ MaxRows \in Nat /\ len <= MaxRows
      /\ \A q \in 1..len : /\ Table[q] = tasks[q] /\ q \in Slots /\ tasks[q] \in Alarm
                         /\ tasks[q].ts \in Int
  BY <1>2, TableIs
<1>4. /\ c \in [op: Ops, items: Seq(Alarm), task: Tasks, n: Int, lst: Seq(Alarm)]
      /\ c.op = "advance" /\ c.n = idx /\ c.lst = Table
  <2>1. "advance" \in Ops /\ idx \in Int
    BY <1>3 DEF Ops
  <2> QED BY <1>2, <2>1, PlainCallIs, Nothing
<1> HIDE DEF c
<1>5. NextWeeklyOccurrence(tasks[idx].ts) \in Int
  BY <1>3, WeekAssumption DEF NextWeeklyOccurrence
<1>6. key' \in Alarm
  BY <1>1, <1>3, <1>5 DEF Alarm
<1>7. tasks' \in [Slots -> Alarm] /\ \A q \in 1..len : q # idx => tasks'[q] = tasks[q]
  BY <1>1, <1>2, <1>3, <1>6 DEF LoopsTypeOK
<1>8. LoopsTypeOK'
  BY <1>1, <1>2, <1>3, <1>4, <1>6, <1>7 DEF LoopsTypeOK
<1>9. Result' = Result /\ TableSorted' /\ Given'
  BY <1>1, <1>2, <1>3, <1>4 DEF Result, TableSorted, Given
<1>10. key' = [c.lst[idx] EXCEPT !.ts = NextWeeklyOccurrence(@)]
  BY <1>1, <1>3, <1>4
<1>11. \A q \in 1..len : q # idx =>
          tasks'[q] = IF idx <= q /\ q < idx THEN c.lst[q+1] ELSE c.lst[q]
  BY <1>3, <1>4, <1>7
<1>12. /\ c.lst[idx].does_repeat /\ c.lst[idx].ts <= now /\ idx <= len /\ idx <= idx
       /\ idx+1..idx = {} /\ len = Len(c.lst)
  BY <1>1, <1>3, <1>4
<1>13. RiseInv'
  BY <1>1, <1>4, <1>10, <1>11, <1>12 DEF RiseInv
<1> QED BY <1>1, <1>8, <1>9, <1>13 DEF LInv

\* The row that moves on passes another, or has come to its place.
LEMMA RiseDone ==
    ASSUME LInv, Rise
    PROVE  LInv' /\ (A!Next \/ UNCHANGED <<Result, ret>>)
<1>1. at = "rise" /\ LoopsTypeOK /\ RiseInv /\ Given /\ len' = len
  BY DEF Rise, LInv
<1>2. /\ len \in Nat /\ MaxRows \in Nat /\ len <= MaxRows /\ len \in 0..MaxRows
      /\ tasks \in [Slots -> Alarm] /\ key \in Alarm /\ call.lst \in Seq(Alarm)
      /\ pos \in Nat /\ pos >= 1
      /\ \A q \in 1..len : q \in Slots /\ tasks[q] \in Alarm
  <2>1. pos \in Nat /\ pos >= 1
    BY <1>1, MaxRowsAssumption DEF LoopsTypeOK, Slots
  <2> QED BY <1>1, <2>1, TableIs DEF LoopsTypeOK
<1> DEFINE idx == call.n
           lst == call.lst
<1>3. /\ call.op = "advance" /\ len = Len(lst) /\ idx \in 1..len /\ idx <= pos /\ pos <= len
      /\ lst[idx].does_repeat /\ \E now \in Moments : lst[idx].ts <= now
      /\ key = [lst[idx] EXCEPT !.ts = NextWeeklyOccurrence(@)]
      /\ \A q \in 1..len : q # pos =>
             tasks[q] = IF idx <= q /\ q < pos THEN lst[q+1] ELSE lst[q]
      /\ \A q \in idx+1..pos : lst[q].ts < key.ts
  BY <1>1 DEF RiseInv
<1>4. lst \in Seq(Alarm) /\ DOMAIN lst = 1..len /\ IsSortedByTime(lst)
  BY <1>1, <1>2, <1>3, LenProperties DEF Given
<1>5. /\ \A q \in 1..len : lst[q] \in Alarm /\ lst[q].ts \in Int
      /\ key.ts \in Int /\ key.ts > lst[idx].ts
  <2>1. \A q \in 1..len : lst[q] \in Alarm
    BY <1>3, <1>4, ElementOfSeq
  <2>2. \A q \in 1..len : lst[q].ts \in Int
    BY <2>1 DEF Alarm
  <2>3. key.ts = lst[idx].ts + Week
    BY <1>3, <2>1 DEF NextWeeklyOccurrence, Alarm
  <2> QED BY <1>3, <2>1, <2>2, <2>3, WeekAssumption
<1>6. pos \in 1..len /\ pos \in Slots
  BY <1>2, <1>3
<1>7. CASE /\ pos < len /\ tasks[pos+1].ts < key.ts
           /\ tasks' = [tasks EXCEPT ![pos] = tasks[pos+1]] /\ pos' = pos + 1
           /\ UNCHANGED <<ret, at, call, row, cnt, key, changed>>
  <2>1. pos + 1 \in 1..len /\ pos + 1 \in Slots /\ tasks[pos+1] = lst[pos+1]
    <3>1. pos + 1 \in 1..len /\ pos + 1 # pos /\ ~ (pos + 1 < pos)
      BY <1>2, <1>7
    <3> HIDE DEF lst, idx
    <3> QED BY <1>2, <1>3, <3>1
  <2>2. LoopsTypeOK'
    BY <1>1, <1>2, <1>6, <1>7, <2>1 DEF LoopsTypeOK
  <2>3. tasks'[pos] = lst[pos+1] /\ \A q \in 1..len : q # pos => tasks'[q] = tasks[q]
    BY <1>2, <1>6, <1>7, <2>1
  <2> HIDE DEF lst, idx
  <2>4. ASSUME NEW q \in 1..len, q # pos + 1
        PROVE  tasks'[q] = IF idx <= q /\ q < pos + 1 THEN lst[q+1] ELSE lst[q]
    <3>1. q \in Int /\ pos \in Int /\ idx \in Int
      BY <1>2, <1>3
    <3>2. CASE q = pos
      <4>1. idx <= q /\ q < pos + 1
        BY <1>3, <3>1, <3>2
      <4> QED BY <2>3, <3>2, <4>1
    <3>3. CASE q # pos
      <4>1. q < pos + 1 <=> q < pos
        BY <3>1, <3>3
      <4> QED BY <1>3, <2>3, <3>3, <4>1
    <3> QED BY <3>2, <3>3
  <2>5. ASSUME NEW q \in idx+1..pos+1 PROVE lst[q].ts < key.ts
    <3>1. q \in Int /\ pos \in Int /\ idx \in Int
      BY <1>2, <1>3
    <3>2. CASE q = pos + 1
      BY <1>7, <2>1, <3>2
    <3>3. CASE q # pos + 1
      <4>1. q \in idx+1..pos
        BY <3>1, <3>3
      <4> QED BY <1>3, <4>1
    <3> QED BY <3>2, <3>3
  <2>6. idx <= pos + 1 /\ pos + 1 <= len
    BY <1>2, <1>3, <2>1
  <2>7. RiseInv'
    <3>1. /\ call'.n = idx /\ call'.lst = lst /\ call'.op = "advance" /\ len' = len
          /\ key' = key /\ pos' = pos + 1
      BY <1>1, <1>3, <1>7 DEF idx, lst
    <3> QED BY <1>3, <2>4, <2>5, <2>6, <3>1 DEF RiseInv
  <2>8. UNCHANGED <<Result, ret>> /\ Given' /\ TableSorted'
    BY <1>1, <1>7, GoesOn
  <2> QED BY <1>1, <1>7, <2>2, <2>7, <2>8 DEF LInv
<1>8. CASE /\ ~ (pos < len /\ tasks[pos+1].ts < key.ts)
           /\ tasks' = [tasks EXCEPT ![pos] = key] /\ Return(0)
  <2>1. pos < len => lst[pos+1].ts >= key.ts
    <3>1. ASSUME pos < len PROVE lst[pos+1].ts >= key.ts
      <4>1. pos + 1 \in 1..len /\ pos + 1 # pos /\ ~ (pos + 1 < pos)
        BY <1>2, <3>1
      <4> HIDE DEF lst, idx
      <4>2. tasks[pos+1] = lst[pos+1] /\ ~ (tasks[pos+1].ts < key.ts)
        BY <1>3, <1>8, <3>1, <4>1
      <4>3. lst[pos+1].ts \in Int
        BY <1>5, <4>1
      <4> QED BY <1>5, <4>2, <4>3
    <3> QED BY <3>1
  <2>2. tasks' \in [Slots -> Alarm] /\ tasks'[pos] = key
    BY <1>2, <1>6, <1>8
  <2>3. \A q \in 1..len : q # pos => tasks'[q] = tasks[q]
    BY <1>2, <1>8
  <2> DEFINE u == Table'
  <2>4. u \in Seq(Alarm) /\ Len(u) = len /\ DOMAIN u = 1..len /\ \A q \in 1..len : u[q] = tasks'[q]
    BY <1>1, <1>2, <2>2, ArrayRows DEF Table
  <2> HIDE DEF u, lst, idx
  <2>5. u[pos] = key
    BY <1>6, <2>2, <2>4
  <2>6. \A q \in 1..len : q # pos =>
           u[q] = IF idx <= q /\ q < pos THEN lst[q+1] ELSE lst[q]
    BY <1>3, <2>3, <2>4
  <2>7. AdvanceRepeatAlarm(lst, idx) = u
    <3> DEFINE j == pos
    <3>1. /\ lst \in Seq(Alarm) /\ idx \in DOMAIN lst /\ j \in idx..Len(lst)
          /\ u \in Seq(Alarm) /\ Len(u) = Len(lst) /\ u[j] \in Alarm
          /\ u[j] = [lst[idx] EXCEPT !.ts = NextWeeklyOccurrence(@)]
          /\ j < Len(lst) => lst[j+1].ts >= u[j].ts
      BY <1>2, <1>3, <1>4, <2>1, <2>4, <2>5
    <3>2. \A q \in idx+1..j : lst[q].ts < u[j].ts
      BY <1>3, <2>5
    <3>3. \A q \in 1..Len(lst) : idx <= q /\ q < j => u[q] = lst[q+1]
      BY <1>2, <1>3, <2>6
    <3>4. \A q \in 1..Len(lst) : q < idx \/ q > j => u[q] = lst[q]
      BY <1>2, <1>3, <2>6
    <3> HIDE DEF j
    <3> QED BY ONLY <3>1, <3>2, <3>3, <3>4, AdvanceIs
  <2>8. IsSortedByTime(u)
    <3>1. ASSUME NEW a \in 1..len, NEW b \in 1..len, a < b
          PROVE  u[a].ts <= u[b].ts
      <4>1. /\ a \in Int /\ b \in Int /\ pos \in Int /\ idx \in Int
            /\ \A i, j \in 1..len : i < j => lst[i].ts <= lst[j].ts
        BY <1>2, <1>3, <1>4 DEF IsSortedByTime
      <4>2. CASE a = pos
        <5>1. pos + 1 \in 1..len /\ pos < len /\ ~ (b < pos) /\ b # pos
          BY <1>2, <3>1, <4>1, <4>2
        <5>2. u[b] = lst[b] /\ u[a] = key
          BY <2>5, <2>6, <4>2, <5>1
        <5>3. lst[pos+1].ts <= lst[b].ts
          BY <1>5, <3>1, <4>1, <4>2, <5>1
        <5> QED BY <1>5, <2>1, <5>1, <5>2, <5>3
      <4>3. CASE b = pos
        <5>1. u[b] = key /\ a # pos /\ a < pos
          BY <2>5, <3>1, <4>1, <4>3
        <5>2. CASE idx <= a
          <6>1. u[a] = lst[a+1] /\ a + 1 \in idx+1..pos /\ a + 1 \in 1..len
            BY <1>3, <2>6, <4>1, <5>1, <5>2
          <6> QED BY <1>3, <1>5, <5>1, <6>1
        <5>3. CASE ~ (idx <= a)
          <6>1. u[a] = lst[a] /\ a < idx
            BY <2>6, <4>1, <5>1, <5>3
          <6>2. lst[a].ts <= lst[idx].ts
            BY <1>3, <4>1, <6>1
          <6> QED BY <1>3, <1>5, <5>1, <6>1, <6>2
        <5> QED BY <5>2, <5>3
      <4>4. CASE a # pos /\ b # pos
        <5> DEFINE i == IF idx <= a /\ a < pos THEN a + 1 ELSE a
                   j == IF idx <= b /\ b < pos THEN b + 1 ELSE b
        <5>1. i \in 1..len /\ j \in 1..len /\ i < j
          BY <1>2, <1>3, <3>1, <4>1, <4>4
        <5>2. u[a] = lst[i] /\ u[b] = lst[j]
          BY <2>6, <4>4
        <5> HIDE DEF i, j
        <5> QED BY <4>1, <5>1, <5>2
      <4> QED BY <4>2, <4>3, <4>4
    <3> QED BY <2>4, <3>1 DEF IsSortedByTime
  <2>9. LInv' /\ Result = lst /\ Result' = u /\ ret' = 0
    <3>1. 0 \in 0..MaxRows+1
      BY <1>2
    <3> QED BY <1>1, <1>2, <1>8, <2>2, <2>8, <3>1, Returns DEF u, lst
  <2>10. A!Next
    <3>1. PICK now \in Moments : lst[idx].ts <= now
      BY <1>3
    <3>2. /\ idx \in DOMAIN Result /\ Result[idx].does_repeat /\ Result[idx].ts <= now
          /\ Result' = AdvanceRepeatAlarm(Result, idx) /\ ret' = 0
      BY <1>3, <1>4, <2>7, <2>9, <3>1
    <3> QED BY <3>2, Promise
  <2> QED BY <2>9, <2>10
<1> QED BY <1>7, <1>8 DEF Rise

-----------------------------------------------------------------------------
(* The invariant holds, and the loops keep what AlarmTable promises        *)

\* An empty table, and no call.
LEMMA InitLoops ==
    ASSUME LoopsInit
    PROVE  LInv /\ A!Init
<1>1. /\ at = "ready" /\ ret = 0 /\ len = 0 /\ tasks = [s \in Slots |-> Blank]
      /\ call = NoCall
      /\ row = 1 /\ pos = 1 /\ cnt = 0 /\ key = Blank /\ changed = FALSE
  BY DEF LoopsInit
<1>2. NoCall \in [op: Ops, items: Seq(Alarm), task: Tasks, n: Int, lst: Seq(Alarm)]
  BY Nothing DEF NoCall, Ops
<1>3. LoopsTypeOK
  <2>1. /\ tasks \in [Slots -> Alarm] /\ len \in 0..MaxRows /\ ret \in 0..MaxRows+1
        /\ pos \in Slots /\ cnt \in 0..MaxRows /\ key \in Alarm
    BY <1>1, MaxRowsAssumption, LoopsAssumption DEF Slots
  <2>2. at \in {"ready", "feed", "sift", "find", "scan", "close", "round",
                "weeks", "sort", "rise", "next"}
    BY <1>1
  <2>3. row \in Nat \ {0}
    BY <1>1
  <2>4. changed \in BOOLEAN
    BY <1>1, Zenon
  <2>5. call \in [op: Ops, items: Seq(Alarm), task: Tasks, n: Int, lst: Seq(Alarm)]
    BY <1>1, <1>2
  <2> QED BY <2>1, <2>2, <2>3, <2>4, <2>5, Zenon DEF LoopsTypeOK
<1>4. Table = <<>>
  BY <1>1, SubSeqEmpty DEF Table
<1>5. TableSorted
  BY <1>4 DEF TableSorted, IsSortedByTime
<1>6. LInv
  BY <1>1, <1>3, <1>5 DEF LInv, ReadyInv
<1>7. A!Init
  BY <1>1, <1>4 DEF A!Init
<1> QED BY <1>6, <1>7

\* A step that changes nothing.
LEMMA StutterLoops ==
    ASSUME LInv, UNCHANGED loops
    PROVE  LInv' /\ UNCHANGED <<Result, ret>>
<1>1. UNCHANGED <<tasks, len, ret, at, row, pos, cnt, key, changed, call>>
  BY DEF loops, regs
<1>2. LoopsTypeOK' = LoopsTypeOK /\ TableSorted' = TableSorted /\ ReadyInv' = ReadyInv /\ Given' = Given
  BY <1>1 DEF LoopsTypeOK, TableSorted, Table, ReadyInv, Given
<1>3. FeedInv' = FeedInv /\ SiftInv' = SiftInv /\ SortInv' = SortInv
  BY <1>1, Zenon DEF FeedInv, SiftInv, SortInv, Table, Items, Here, InOrderTo, Held
<1>4. RoundInv' = RoundInv
  BY <1>1, Zenon DEF RoundInv, Rest
<1>5. WeeksInv' = WeeksInv
  BY <1>1, <1>4, Zenon DEF WeeksInv
<1>6. /\ FindInv' = FindInv /\ ScanInv' = ScanInv /\ CloseInv' = CloseInv
      /\ RiseInv' = RiseInv /\ NextInv' = NextInv
  BY <1>1, Zenon DEF FindInv, ScanInv, CloseInv, RiseInv, NextInv, Table, Closing
<1>7. UNCHANGED <<Result, ret>>
  BY <1>1 DEF Result, Table
<1>8. at' = at
  BY <1>1
<1> QED BY <1>2, <1>3, <1>4, <1>5, <1>6, <1>7, <1>8 DEF LInv

\* Every step keeps the invariant, and is one of AlarmTable or none.
LEMMA StepLoops ==
    ASSUME LInv, [LoopsNext]_loops
    PROVE  LInv' /\ (A!Next \/ UNCHANGED <<Result, ret>>)
<1>1. CASE TaskInit
  BY <1>1, TaskInitDone
<1>2. ASSUME NEW items \in Batches, Push(items)
      PROVE  LInv' /\ UNCHANGED <<Result, ret>>
  BY <1>2, PushBegins
<1>3. ASSUME NEW t \in Tasks, Find(t) \/ RemoveOne(t) \/ RemoveAll(t)
      PROVE  LInv' /\ UNCHANGED <<Result, ret>>
  BY <1>3, FindBegins, RemoveAllBegins
<1>4. ASSUME NEW now \in Moments, Purge(now) \/ FindNext(now)
      PROVE  LInv' /\ UNCHANGED <<Result, ret>>
  BY <1>4, PurgeBegins, FindNextBegins
<1>5. ASSUME NEW idx \in 1..len, NEW now \in Moments, Advance(idx, now)
      PROVE  LInv' /\ UNCHANGED <<Result, ret>>
  BY <1>5, AdvanceBegins
<1>6. CASE Feed
  BY <1>6, FeedDone
<1>7. CASE SiftDown \/ Settle
  BY <1>7, SiftDownDone, SettleDone
<1>8. CASE Look \/ Scan
  BY <1>8, LookDone, ScanDone
<1>9. CASE CloseUp \/ Closed
  BY <1>9, CloseUpDone, ClosedDone
<1>10. CASE Round \/ Weeks \/ Sort
  BY <1>10, RoundDone, WeeksDone, SortDone
<1>11. CASE Rise \/ SearchNext
  BY <1>11, RiseDone, SearchNextDone
<1>12. CASE UNCHANGED loops
  BY <1>12, StutterLoops
<1> QED BY <1>1, <1>2, <1>3, <1>4, <1>5, <1>6, <1>7, <1>8, <1>9, <1>10, <1>11, <1>12
    DEF LoopsNext, Loop

\* The invariant holds throughout.
LEMMA AlwaysLInv == LoopsSpec => []LInv
<1>1. LoopsInit => LInv
  BY InitLoops
<1>2. LInv /\ [LoopsNext]_loops => LInv'
  BY StepLoops
<1> QED BY <1>1, <1>2, PTL DEF LoopsSpec

\* Every index of every loop is within the table or the array, in whatever
\* order functions are called: no loop of list.c, repeat.c or notify.c reads or
\* writes beyond tasks[MAX_ROWS].
THEOREM LoopsStayInside == LoopsSpec => []LoopsTypeOK
<1>1. LInv => LoopsTypeOK
  BY DEF LInv
<1> QED BY <1>1, AlwaysLInv, PTL

\* A table that nobody works on is sorted, whichever functions have run on it.
THEOREM LoopsLeaveOrder == LoopsSpec => []TableSorted
<1>1. LInv => TableSorted
  BY DEF LInv
<1> QED BY <1>1, AlwaysLInv, PTL

\* The loops of the C functions, which work in place, change the table from
\* call to return as the operators of AlarmList say, and return what they say.
THEOREM LoopsImplementTable == LoopsSpec => ImplementsAlarmTable
<1>1. LoopsInit => A!Init
  BY InitLoops
<1>2. LInv /\ [LoopsNext]_loops => [A!Next]_<<Result, ret>>
  BY StepLoops
<1>3. LoopsSpec => A!Init /\ [][A!Next]_<<Result, ret>>
  BY <1>1, <1>2, AlwaysLInv, PTL DEF LoopsSpec
<1> QED BY <1>3 DEF ImplementsAlarmTable, A!Spec, Result

-----------------------------------------------------------------------------
(* The loops come to their end                                             *)

\* A round brings its loop closer to its end.
Closer == \/ at' = "ready"
          \/ Rounds >= 0 /\ Rounds' < Rounds
          \/ Rounds' = Rounds /\ Steps >= 0 /\ Steps' < Steps

\* The numbers the measures are made of.
LEMMA Numbers ==
    ASSUME LoopsTypeOK
    PROVE  /\ MaxRows \in Nat /\ len \in Nat /\ len <= MaxRows /\ row \in Nat /\ row >= 1
           /\ pos \in Nat /\ pos >= 1 /\ cnt \in Nat /\ cnt <= MaxRows /\ call.n \in Int
           /\ Len(call.items) \in Nat /\ key.ts \in Int /\ Week \in Nat /\ Week >= 1
<1>1. /\ MaxRows \in Nat /\ len \in 0..MaxRows /\ row \in Nat \ {0} /\ pos \in Slots
      /\ cnt \in 0..MaxRows /\ call.n \in Int /\ call.items \in Seq(Alarm) /\ key \in Alarm
  BY MaxRowsAssumption DEF LoopsTypeOK
<1>2. key.ts \in Int
  BY <1>1 DEF Alarm
<1>3. Len(call.items) \in Nat
  BY <1>1, LenProperties
<1>4. pos \in Nat /\ pos >= 1
  BY <1>1 DEF Slots
<1> QED BY <1>1, <1>2, <1>3, <1>4, WeekAssumption

\* The loop over a batch, and that over the rows of a push.
LEMMA FeedCloser ==
    ASSUME LInv, Feed PROVE Closer
<1>1. at = "feed" /\ call.op = "push" /\ LoopsTypeOK
  BY DEF Feed, LInv, FeedInv
<1>2. row \in Nat /\ Len(call.items) \in Nat
  BY <1>1, Numbers
<1>3. Rounds = 2 * (Len(call.items) + 1 - row) + 1
  BY <1>1 DEF Rounds
<1>4. CASE row > Len(call.items) /\ Return(0) /\ UNCHANGED <<tasks, len>>
  BY <1>4 DEF Return, Closer
<1>5. CASE /\ row <= Len(call.items) /\ len >= MaxRows /\ row' = row + 1
           /\ UNCHANGED <<tasks, len, ret, at, call, pos, cnt, key, changed>>
  <2>1. Rounds' = 2 * (Len(call.items) + 1 - (row + 1)) + 1
    BY <1>1, <1>5 DEF Rounds
  <2>2. Rounds >= 0 /\ Rounds' < Rounds
    <3> DEFINE n == Len(call.items)
    <3>1. /\ n \in Nat /\ row \in Nat /\ row <= n /\ Rounds = 2 * (n + 1 - row) + 1
          /\ Rounds' = 2 * (n + 1 - (row + 1)) + 1
      BY <1>2, <1>3, <1>5, <2>1
    <3> HIDE DEF n
    <3> QED BY ONLY <3>1
  <2> QED BY <2>2 DEF Closer
<1>6. CASE /\ row <= Len(call.items) /\ len < MaxRows
           /\ key' = call.items[row] /\ pos' = len + 1 /\ at' = "sift"
           /\ UNCHANGED <<tasks, len, ret, call, row, cnt, changed>>
  <2>1. Rounds' = 2 * (Len(call.items) + 1 - row) + 0
    BY <1>1, <1>6 DEF Rounds
  <2>2. Rounds >= 0 /\ Rounds' < Rounds
    BY <1>2, <1>3, <1>6, <2>1
  <2> QED BY <2>2 DEF Closer
<1> QED BY <1>4, <1>5, <1>6 DEF Feed

\* The loop that brings a row to its slot.
LEMMA SiftCloser ==
    ASSUME LInv, SiftDown \/ Settle PROVE Closer
<1>1. at = "sift" /\ call.op \in {"push", "purge"} /\ LoopsTypeOK /\ SiftInv
  BY DEF SiftDown, Settle, LInv, SiftInv
<1>2. /\ row \in Nat /\ len \in Nat /\ len <= MaxRows /\ MaxRows \in Nat
      /\ Len(call.items) \in Nat /\ pos \in Nat
  BY <1>1, Numbers
<1>3. CASE SiftDown
  <2>1. /\ pos' = pos - 1 /\ UNCHANGED <<len, at, call, row>>
    BY <1>3 DEF SiftDown
  <2>2. Rounds' = Rounds
    BY <2>1 DEF Rounds
  <2>3. Steps = pos /\ Steps' = pos - 1
    BY <1>1, <2>1 DEF Steps
  <2>4. Steps >= 0 /\ Steps' < Steps
    BY <1>2, <2>3
  <2> QED BY <2>2, <2>4 DEF Closer
<1>4. CASE Settle /\ call.op = "push"
  <2>1. row' = row + 1 /\ at' = "feed" /\ call' = call
    BY <1>4 DEF Settle
  <2>2. row <= Len(call.items)
    BY <1>1, <1>4 DEF SiftInv
  <2>3. /\ Rounds = 2 * (Len(call.items) + 1 - row) + 0
        /\ Rounds' = 2 * (Len(call.items) + 1 - (row + 1)) + 1
    BY <1>1, <1>4, <2>1 DEF Rounds
  <2>4. Rounds >= 0 /\ Rounds' < Rounds
    <3> DEFINE n == Len(call.items)
    <3>1. /\ n \in Nat /\ row \in Nat /\ row <= n /\ Rounds = 2 * (n + 1 - row) + 0
          /\ Rounds' = 2 * (n + 1 - (row + 1)) + 1
      BY <1>2, <2>2, <2>3
    <3> HIDE DEF n
    <3> QED BY ONLY <3>1
  <2> QED BY <2>4 DEF Closer
<1>5. CASE Settle /\ call.op = "purge"
  <2>1. row' = row + 1 /\ at' = "sort" /\ call' = call
    BY <1>5 DEF Settle
  <2>2. row <= len
    BY <1>1, <1>5 DEF SiftInv, Here, InOrderTo
  <2>3. /\ Rounds = 2 * (1 * (MaxRows + 2) - row) + 0
        /\ Rounds' = 2 * (1 * (MaxRows + 2) - (row + 1)) + 1
    BY <1>1, <1>5, <2>1 DEF Rounds
  <2>4. Rounds >= 0 /\ Rounds' < Rounds
    BY <1>2, <2>2, <2>3
  <2> QED BY <2>4 DEF Closer
<1> QED BY <1>1, <1>3, <1>4, <1>5

\* The loops that look for rows.
LEMMA LookCloser ==
    ASSUME LInv, Look \/ Scan \/ SearchNext PROVE Closer
<1>1. /\ at \in {"find", "scan", "next"} /\ call.op \in {"find", "remove", "remove_all", "next"}
      /\ LoopsTypeOK /\ row <= len + 1 /\ len' = len
  BY DEF Look, Scan, SearchNext, LInv, FindInv, ScanInv, NextInv
<1>2. row \in Nat /\ len \in Nat
  BY <1>1, Numbers
<1>3. Rounds = 2 * (len + 1 - row) + 1
  BY <1>1 DEF Rounds
<1>4. CASE Return(0) \/ Return(row) \/ Return(cnt)
  BY <1>4 DEF Return, Closer
<1>5. CASE row <= len /\ at' = "close" /\ UNCHANGED <<call, row>>
  <2>1. Rounds' = 2 * (len + 1 - row) + 0
    BY <1>1, <1>5 DEF Rounds
  <2>2. Rounds >= 0 /\ Rounds' < Rounds
    BY <1>2, <1>3, <1>5, <2>1
  <2> QED BY <2>2 DEF Closer
<1>6. CASE row <= len /\ row' = row + 1 /\ UNCHANGED <<call, at>>
  <2>1. Rounds' = 2 * (len + 1 - (row + 1)) + 1
    BY <1>1, <1>6 DEF Rounds
  <2>2. Rounds >= 0 /\ Rounds' < Rounds
    BY <1>2, <1>3, <1>6, <2>1
  <2> QED BY <2>2 DEF Closer
<1> QED BY <1>4, <1>5, <1>6 DEF Look, Scan, SearchNext

\* The loop that closes a gap.
LEMMA CloseCloser ==
    ASSUME LInv, CloseUp \/ Closed PROVE Closer
<1>1. /\ at = "close" /\ call.op \in {"remove", "remove_all"} /\ LoopsTypeOK
      /\ row <= pos /\ pos <= len
  BY DEF CloseUp, Closed, LInv, CloseInv
<1>2. row \in Nat /\ len \in Nat /\ pos \in Nat
  BY <1>1, Numbers
<1>3. Rounds = 2 * (len + 1 - row) + 0 /\ Steps = len - pos
  BY <1>1 DEF Rounds, Steps
<1>4. CASE CloseUp
  <2>1. /\ pos < len /\ pos' = pos + 1 /\ UNCHANGED <<len, at, call, row>>
    BY <1>4 DEF CloseUp
  <2>2. Rounds' = Rounds
    BY <2>1 DEF Rounds
  <2>3. Steps' = len - (pos + 1)
    BY <1>1, <2>1 DEF Steps
  <2>4. Steps >= 0 /\ Steps' < Steps
    BY <1>2, <1>3, <2>1, <2>3
  <2> QED BY <2>2, <2>4 DEF Closer
<1>5. CASE Closed /\ call.op = "remove"
  BY <1>5 DEF Closed, Return, Closer
<1>6. CASE Closed /\ call.op = "remove_all"
  <2>1. len' = len - 1 /\ at' = "scan" /\ UNCHANGED <<call, row>>
    BY <1>6 DEF Closed
  <2>2. Rounds' = 2 * (len - 1 + 1 - row) + 1
    BY <1>6, <2>1 DEF Rounds
  <2>3. Rounds >= 0 /\ Rounds' < Rounds
    BY <1>1, <1>2, <1>3, <2>2
  <2> QED BY <2>3 DEF Closer
<1> QED BY <1>1, <1>4, <1>5, <1>6

\* The loops of a purge.
LEMMA PurgeCloser ==
    ASSUME LInv, Round \/ Weeks \/ Sort PROVE Closer
<1>1. /\ at \in {"round", "weeks", "sort"} /\ call.op = "purge" /\ LoopsTypeOK
      /\ at \in {"round", "weeks"} => row <= len + 1
      /\ at = "sort" => row <= len + 2
  BY DEF Round, Weeks, Sort, LInv, RoundInv, WeeksInv, SortInv
<1>2. /\ row \in Nat /\ len \in Nat /\ len <= MaxRows /\ MaxRows \in Nat
      /\ call.n \in Int /\ key.ts \in Int /\ Week \in Nat /\ Week >= 1
  BY <1>1, Numbers
<1>3. CASE Round
  <2>1. at = "round"
    BY <1>3 DEF Round
  <2>2. Rounds = 2 * (2 * (MaxRows + 2) - row) + 1 /\ Rounds >= 0 /\ row <= len + 1
    <3>1. Rounds = 2 * (2 * (MaxRows + 2) - row) + 1
      BY <1>1, <2>1 DEF Rounds
    <3> QED BY <1>1, <1>2, <2>1, <3>1
  <2>3. CASE Return(0)
    BY <2>3 DEF Return, Closer
  <2>4. CASE row' = 2 /\ at' = "sort" /\ call' = call
    <3>1. Rounds' = 2 * (1 * (MaxRows + 2) - 2) + 1
      BY <1>1, <2>4 DEF Rounds
    <3>2. Rounds' < Rounds
      BY <1>2, <2>2, <3>1
    <3> QED BY <2>2, <3>2 DEF Closer
  <2>5. CASE row' = row + 1 /\ UNCHANGED <<at, call>>
    <3>1. Rounds' = 2 * (2 * (MaxRows + 2) - (row + 1)) + 1
      BY <1>1, <2>1, <2>5 DEF Rounds
    <3>2. Rounds' < Rounds
      BY <1>2, <2>2, <3>1
    <3> QED BY <2>2, <3>2 DEF Closer
  <2>6. CASE at' = "weeks" /\ UNCHANGED <<row, call>>
    <3>1. Rounds' = 2 * (2 * (MaxRows + 2) - row) + 0
      BY <1>1, <2>6 DEF Rounds
    <3>2. Rounds' < Rounds
      BY <1>2, <2>2, <3>1
    <3> QED BY <2>2, <3>2 DEF Closer
  <2> QED BY <1>3, <2>3, <2>4, <2>5, <2>6 DEF Round, Keep
<1>4. CASE Weeks
  <2>1. at = "weeks" /\ call' = call
    BY <1>4 DEF Weeks
  <2>2. Rounds = 2 * (2 * (MaxRows + 2) - row) + 0 /\ Rounds >= 0
    <3>1. Rounds = 2 * (2 * (MaxRows + 2) - row) + 0
      BY <1>1, <2>1 DEF Rounds
    <3> QED BY <1>1, <1>2, <2>1, <3>1
  <2>3. CASE /\ key.ts <= call.n /\ key' = [key EXCEPT !.ts = NextWeeklyOccurrence(@)]
             /\ UNCHANGED <<at, row, len>>
    <3>1. key'.ts = key.ts + Week
      <4>1. key \in Alarm
        BY <1>1 DEF LoopsTypeOK
      <4> QED BY <2>3, <4>1 DEF NextWeeklyOccurrence, Alarm
    <3>2. Rounds' = Rounds
      BY <2>1, <2>3 DEF Rounds
    <3>3. Steps = call.n + Week - key.ts /\ Steps' = call.n + Week - (key.ts + Week)
      BY <2>1, <2>3, <3>1 DEF Steps
    <3>4. Steps >= 0 /\ Steps' < Steps
      BY <1>2, <2>3, <3>3
    <3> QED BY <3>2, <3>4 DEF Closer
  <2>4. CASE row' = row + 1 /\ at' = "round"
    <3>1. Rounds' = 2 * (2 * (MaxRows + 2) - (row + 1)) + 1
      BY <1>1, <2>1, <2>4 DEF Rounds
    <3>2. Rounds' < Rounds
      BY <1>2, <2>2, <3>1
    <3> QED BY <2>2, <3>2 DEF Closer
  <2> QED BY <1>4, <2>3, <2>4 DEF Weeks, Keep
<1>5. CASE Sort
  <2>1. at = "sort"
    BY <1>5 DEF Sort
  <2>2. Rounds = 2 * (1 * (MaxRows + 2) - row) + 1 /\ Rounds >= 0
    <3>1. Rounds = 2 * (1 * (MaxRows + 2) - row) + 1
      BY <1>1, <2>1 DEF Rounds
    <3> QED BY <1>1, <1>2, <2>1, <3>1
  <2>3. CASE Return(1)
    BY <2>3 DEF Return, Closer
  <2>4. CASE at' = "sift" /\ UNCHANGED <<row, call>>
    <3>1. Rounds' = 2 * (1 * (MaxRows + 2) - row) + 0
      BY <1>1, <2>4 DEF Rounds
    <3>2. Rounds' < Rounds
      BY <1>2, <2>2, <3>1
    <3> QED BY <2>2, <3>2 DEF Closer
  <2> QED BY <1>5, <2>3, <2>4 DEF Sort
<1> QED BY <1>3, <1>4, <1>5

\* The loop that moves a row up.
LEMMA RiseCloser ==
    ASSUME LInv, Rise PROVE Closer
<1>1. at = "rise" /\ LoopsTypeOK /\ pos <= len
  BY DEF Rise, LInv, RiseInv
<1>2. len \in Nat /\ pos \in Nat
  BY <1>1, Numbers
<1>3. CASE /\ pos < len /\ pos' = pos + 1 /\ UNCHANGED <<len, at, call, row>>
  <2>1. Rounds' = Rounds
    BY <1>3 DEF Rounds
  <2>2. Steps = len - pos /\ Steps' = len - (pos + 1)
    BY <1>1, <1>3 DEF Steps
  <2>3. Steps >= 0 /\ Steps' < Steps
    BY <1>2, <1>3, <2>2
  <2> QED BY <2>1, <2>3 DEF Closer
<1>4. CASE Return(0)
  BY <1>4 DEF Return, Closer
<1> QED BY <1>3, <1>4 DEF Rise

\* No round of a loop leaves the loop where it was, whatever the rows and the
\* clock: not where rows close up, where the next is looked at again in the same
\* slot, nor where a weekly row moves on from any time however long past.
THEOREM LoopsComeToEnd == LoopsSpec => LoopsAdvance
<1>1. ASSUME LInv, LoopsNext, at # "ready" PROVE Closer
  <2>1. Loop
    BY <1>1, Zenon DEF LoopsNext, TaskInit, Push, Find, RemoveOne, RemoveAll, Purge,
       FindNext, Advance, Begin
  <2> QED BY <1>1, <2>1, FeedCloser, SiftCloser, LookCloser, CloseCloser, PurgeCloser,
             RiseCloser DEF Loop
<1>2. LInv /\ [LoopsNext]_loops =>
         [at # "ready" =>
             \/ at' = "ready"
             \/ Rounds >= 0 /\ Rounds' < Rounds
             \/ Rounds' = Rounds /\ Steps >= 0 /\ Steps' < Steps]_loops
  BY <1>1, Zenon DEF Closer
<1> QED BY <1>2, AlwaysLInv, PTL DEF LoopsSpec, LoopsAdvance
=============================================================================
