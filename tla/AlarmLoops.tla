---------------------------- MODULE AlarmLoops ----------------------------
(***************************************************************************)
(* The functions on alarm tables as the C code runs them: loops over an    *)
(* array that is written in place, one action per round of a loop.  The    *)
(* array holds MaxRows slots, of which the first len are rows.             *)
(*                                                                         *)
(* "at" says which loop is running:                                        *)
(*   ready  between two calls                                              *)
(*   feed   the rows of a batch are pushed one after another               *)
(*   sift   key moves down past later rows (push, and the sort of a purge) *)
(*   find   the first row of a task is looked for                          *)
(*   scan   the rows of a task are looked for, one after another           *)
(*   close  the rows behind a removed one close up                         *)
(*   round  the purge looks at a row and keeps it, further in front, or not*)
(*   weeks  a weekly row moves on, week by week                            *)
(*   sort   the rows up to row are in order, the next is put in            *)
(*   rise   key, a week later now, moves up past earlier rows              *)
(*   next   the next alarm is looked for                                   *)
(* Positions count from 1.                                                 *)
(***************************************************************************)
EXTENDS AlarmList

CONSTANTS
    Blank,      \* what a slot holds before it is written
    Batches,    \* sequences of rows that are pushed one after another
    Moments     \* readings of the clock

ASSUME LoopsAssumption == /\ Blank \in Alarm
                          /\ Batches \subseteq Seq(Alarm)
                          /\ Moments \subseteq Int

VARIABLES
    tasks, len, \* todox_list
    ret,        \* what the last call returned; 0 when it returns nothing
    at,
    call,       \* the arguments of the call, and the table it found
    row, pos, cnt, \* locals: idx or i; pos or j; removed or write_idx
    key,        \* locals itm, key, alarm, moved
    changed     \* local of the purge

regs == <<row, pos, cnt, key, changed>>
loops == <<tasks, len, ret, at, regs, call>>

Slots == 1..MaxRows
Table == SubSeq(tasks, 1, len)

Ops == {"none", "push", "find", "remove", "remove_all", "purge", "next", "advance"}
Call(op, items, t, n) ==
    [op |-> op, items |-> items, task |-> t, n |-> n, lst |-> Table]
NoCall == [op |-> "none", items |-> <<>>, task |-> Blank.task, n |-> 0, lst |-> <<>>]

\* todox_task_init, at the start and whenever the daemon reads its file anew.
LoopsInit ==
    /\ tasks = [s \in Slots |-> Blank] /\ len = 0 /\ ret = 0 /\ at = "ready"
    /\ call = NoCall
    /\ row = 1 /\ pos = 1 /\ cnt = 0 /\ key = Blank /\ changed = FALSE

TaskInit ==
    /\ at = "ready"
    /\ tasks' = [s \in Slots |-> Blank] /\ len' = 0 /\ ret' = 0
    /\ UNCHANGED <<at, call, regs>>

-----------------------------------------------------------------------------
(* Calls                                                                   *)

Begin(loop, c) == /\ at = "ready" /\ at' = loop /\ call' = c
                  /\ UNCHANGED <<tasks, len, ret, regs>>

\* The locals are gone.
Return(r) ==
    /\ at' = "ready" /\ ret' = r /\ call' = NoCall
    /\ row' = 1 /\ pos' = 1 /\ cnt' = 0 /\ key' = Blank /\ changed' = FALSE

Push(items)    == Begin("feed", Call("push", items, Blank.task, 0))
Find(t)        == Begin("find", Call("find", <<>>, t, 0))
RemoveOne(t)   == Begin("find", Call("remove", <<>>, t, 0))
RemoveAll(t)   == Begin("scan", Call("remove_all", <<>>, t, 0))
Purge(now)     == Begin("round", Call("purge", <<>>, Blank.task, now))
FindNext(now)  == Begin("next", Call("next", <<>>, Blank.task, now))

\* The daemon advances the weekly row it has just notified.
Advance(idx, now) ==
    /\ at = "ready" /\ tasks[idx].does_repeat /\ tasks[idx].ts <= now
    /\ at' = "rise" /\ call' = Call("advance", <<>>, Blank.task, idx)
    /\ key' = [tasks[idx] EXCEPT !.ts = NextWeeklyOccurrence(@)]
    /\ tasks' = [tasks EXCEPT ![idx] = key']
    /\ pos' = idx
    /\ UNCHANGED <<len, ret, row, cnt, changed>>

-----------------------------------------------------------------------------
(* Loops                                                                   *)

\* Mutant: the capacity is not looked at.
FeedBeyond ==
    /\ at = "feed"
    /\ \/ row > Len(call.items) /\ Return(0) /\ UNCHANGED <<tasks, len>>
       \/ /\ row <= Len(call.items)
          /\ key' = call.items[row] /\ pos' = len + 1 /\ at' = "sift"
          /\ UNCHANGED <<tasks, len, ret, call, row, cnt, changed>>

\* The loops around todox_task_push, and its first test.
Feed ==
    /\ at = "feed"
    /\ \/ row > Len(call.items) /\ Return(0) /\ UNCHANGED <<tasks, len>>
       \/ /\ row <= Len(call.items) /\ len >= MaxRows
          /\ row' = row + 1
          /\ UNCHANGED <<tasks, len, ret, at, call, pos, cnt, key, changed>>
       \/ /\ row <= Len(call.items) /\ len < MaxRows
          /\ key' = call.items[row] /\ pos' = len + 1 /\ at' = "sift"
          /\ UNCHANGED <<tasks, len, ret, call, row, cnt, changed>>

\* Mutant: key passes rows of its own time too.
LaterOrSame == pos > 1 /\ tasks[pos-1].ts >= key.ts

\* The row in front of slot pos is later than key.
Later == pos > 1 /\ tasks[pos-1].ts > key.ts

SiftDown ==
    /\ at = "sift" /\ Later
    /\ tasks' = [tasks EXCEPT ![pos] = tasks[pos-1]] /\ pos' = pos - 1
    /\ UNCHANGED <<len, ret, at, call, row, cnt, key, changed>>

\* key has its slot: the end of a push, or of a round of the sort.
Settle ==
    /\ at = "sift" /\ ~ Later
    /\ tasks' = [tasks EXCEPT ![pos] = key] /\ row' = row + 1
    /\ IF call.op = "push" THEN at' = "feed" /\ len' = len + 1
                           ELSE at' = "sort" /\ len' = len
    /\ UNCHANGED <<ret, call, pos, cnt, key, changed>>

Look ==
    /\ at = "find"
    /\ UNCHANGED <<tasks, len>>
    /\ \/ row > len /\ Return(0)
       \/ /\ row <= len /\ tasks[row].task = call.task /\ call.op = "find"
          /\ Return(row)
       \/ /\ row <= len /\ tasks[row].task = call.task /\ call.op = "remove"
          /\ at' = "close" /\ pos' = row
          /\ UNCHANGED <<ret, call, row, cnt, key, changed>>
       \/ /\ row <= len /\ tasks[row].task # call.task
          /\ row' = row + 1
          /\ UNCHANGED <<ret, at, call, pos, cnt, key, changed>>

Scan ==
    /\ at = "scan"
    /\ UNCHANGED <<tasks, len>>
    /\ \/ row > len /\ Return(cnt)
       \/ /\ row <= len /\ tasks[row].task = call.task
          /\ at' = "close" /\ pos' = row
          /\ UNCHANGED <<ret, call, row, cnt, key, changed>>
       \/ /\ row <= len /\ tasks[row].task # call.task
          /\ row' = row + 1
          /\ UNCHANGED <<ret, at, call, pos, cnt, key, changed>>

CloseUp ==
    /\ at = "close" /\ pos < len
    /\ tasks' = [tasks EXCEPT ![pos] = tasks[pos+1]] /\ pos' = pos + 1
    /\ UNCHANGED <<len, ret, at, call, row, cnt, key, changed>>

\* Mutant: the table does not get shorter.
ClosedLong ==
    /\ at = "close" /\ pos >= len
    /\ UNCHANGED <<tasks, len>>
    /\ IF call.op = "remove" THEN Return(row)
       ELSE /\ at' = "scan" /\ cnt' = cnt + 1
            /\ UNCHANGED <<ret, call, row, pos, key, changed>>

\* The slot, where another row is now, is looked at again.
Closed ==
    /\ at = "close" /\ pos >= len
    /\ len' = len - 1 /\ UNCHANGED tasks
    /\ IF call.op = "remove" THEN Return(row)
       ELSE /\ at' = "scan" /\ cnt' = cnt + 1
            /\ UNCHANGED <<ret, call, row, pos, key, changed>>

Keep(r) == tasks' = [tasks EXCEPT ![cnt+1] = r] /\ cnt' = cnt + 1 /\ row' = row + 1

Round ==
    /\ at = "round"
    /\ \/ /\ row > len /\ ~ changed
          /\ Return(0) /\ UNCHANGED <<tasks, len>>
       \/ /\ row > len /\ changed
          /\ len' = cnt /\ row' = 2 /\ at' = "sort"
          /\ UNCHANGED <<tasks, ret, call, pos, cnt, key, changed>>
       \/ /\ row <= len /\ tasks[row].ts > call.n
          /\ Keep(tasks[row])
          /\ UNCHANGED <<len, ret, at, call, pos, key, changed>>
       \/ /\ row <= len /\ tasks[row].ts <= call.n /\ tasks[row].does_repeat
          /\ key' = tasks[row] /\ at' = "weeks"
          /\ UNCHANGED <<tasks, len, ret, call, row, pos, cnt, changed>>
       \/ /\ row <= len /\ tasks[row].ts <= call.n /\ ~ tasks[row].does_repeat
          /\ changed' = TRUE /\ row' = row + 1
          /\ UNCHANGED <<tasks, len, ret, at, call, pos, cnt, key>>

\* Mutant: each week is counted from the row as it was.
WeeksFromStart ==
    /\ at = "weeks"
    /\ \/ /\ key.ts <= call.n
          /\ key' = [key EXCEPT !.ts = NextWeeklyOccurrence(tasks[row].ts)]
          /\ UNCHANGED <<tasks, len, at, row, cnt, changed>>
       \/ /\ key.ts > call.n
          /\ Keep(key) /\ changed' = TRUE /\ at' = "round"
          /\ UNCHANGED <<len, key>>
    /\ UNCHANGED <<ret, call, pos>>

\* todox_advance_repeat_to_future, and the rest of the round.
Weeks ==
    /\ at = "weeks"
    /\ \/ /\ key.ts <= call.n
          /\ key' = [key EXCEPT !.ts = NextWeeklyOccurrence(@)]
          /\ UNCHANGED <<tasks, len, at, row, cnt, changed>>
       \/ /\ key.ts > call.n
          /\ Keep(key) /\ changed' = TRUE /\ at' = "round"
          /\ UNCHANGED <<len, key>>
    /\ UNCHANGED <<ret, call, pos>>

Sort ==
    /\ at = "sort"
    /\ UNCHANGED <<tasks, len>>
    /\ \/ row > len /\ Return(1)
       \/ /\ row <= len
          /\ key' = tasks[row] /\ pos' = row /\ at' = "sift"
          /\ UNCHANGED <<ret, call, row, cnt, changed>>

\* Mutant: the row passes one row at most.
RiseOnce ==
    /\ at = "rise"
    /\ UNCHANGED len
    /\ \/ /\ pos < len /\ tasks[pos+1].ts < key.ts
          /\ tasks' = [tasks EXCEPT ![pos] = tasks[pos+1], ![pos+1] = key] /\ Return(0)
       \/ /\ ~ (pos < len /\ tasks[pos+1].ts < key.ts)
          /\ tasks' = [tasks EXCEPT ![pos] = key] /\ Return(0)

\* Rows strictly earlier than key pass in front of it.
Rise ==
    /\ at = "rise"
    /\ UNCHANGED len
    /\ \/ /\ pos < len /\ tasks[pos+1].ts < key.ts
          /\ tasks' = [tasks EXCEPT ![pos] = tasks[pos+1]] /\ pos' = pos + 1
          /\ UNCHANGED <<ret, at, call, row, cnt, key, changed>>
       \/ /\ ~ (pos < len /\ tasks[pos+1].ts < key.ts)
          /\ tasks' = [tasks EXCEPT ![pos] = key] /\ Return(0)

\* From the first row: the reload has reset current_index.
SearchNext ==
    /\ at = "next"
    /\ UNCHANGED <<tasks, len>>
    /\ \/ (row <= len => tasks[row].ts > call.n) /\ Return(row)
       \/ /\ row <= len /\ tasks[row].ts <= call.n
          /\ row' = row + 1
          /\ UNCHANGED <<ret, at, call, pos, cnt, key, changed>>

Loop == \/ Feed \/ SiftDown \/ Settle \/ Look \/ Scan \/ CloseUp \/ Closed
        \/ Round \/ Weeks \/ Sort \/ Rise \/ SearchNext

LoopsNext ==
    \/ TaskInit
    \/ \E items \in Batches : Push(items)
    \/ \E t \in Tasks : Find(t) \/ RemoveOne(t) \/ RemoveAll(t)
    \/ \E now \in Moments : Purge(now) \/ FindNext(now)
    \/ \E idx \in 1..len, now \in Moments : Advance(idx, now)
    \/ Loop

LoopsSpec == LoopsInit /\ [][LoopsNext]_loops

\* A call that runs goes on running.
FairLoops == LoopsSpec /\ WF_loops(Loop)

-----------------------------------------------------------------------------
(* Properties                                                              *)

\* Every index is within the table or the array, at every step.
LoopsTypeOK ==
    /\ tasks \in [Slots -> Alarm] /\ len \in 0..MaxRows /\ ret \in 0..MaxRows+1
    /\ at \in {"ready", "feed", "sift", "find", "scan", "close", "round",
               "weeks", "sort", "rise", "next"}
    /\ call \in [op: Ops, items: Seq(Alarm), task: Tasks, n: Int, lst: Seq(Alarm)]
    /\ row \in Nat \ {0} /\ pos \in Slots /\ cnt \in 0..MaxRows
    /\ key \in Alarm /\ changed \in BOOLEAN

\* Whatever was called before, a table that nobody works on is in the order of
\* its times: the searches of the daemon and every push rely on it.
TableSorted == at = "ready" => IsSortedByTime(Table)

\* Each function computes in place what AlarmList says, and returns it.
A == INSTANCE AlarmTable WITH table <- IF at = "ready" THEN Table ELSE call.lst
ImplementsAlarmTable == A!Spec

\* How many rounds the outer loop may still take: twice, plus one if the inner
\* loop is still to come; and the rounds of the inner loop.
Rounds ==
    LET left == CASE call.op = "push"  -> Len(call.items) + 1 - row
                  [] call.op = "purge" -> (IF at \in {"round", "weeks"} THEN 2 ELSE 1)
                                              * (MaxRows + 2) - row
                  [] OTHER             -> len + 1 - row
    IN  2 * left + IF at \in {"sift", "close", "weeks", "rise"} THEN 0 ELSE 1
Steps == CASE at = "sift" -> pos
           [] at = "weeks" -> call.n + Week - key.ts
           [] OTHER -> len - pos

\* No round leaves a loop where it was: the outer loop comes closer to its end,
\* or the inner one does and the outer one stays.
LoopsAdvance ==
    [][at # "ready" =>
          \/ at' = "ready"
          \/ Rounds >= 0 /\ Rounds' < Rounds
          \/ Rounds' = Rounds /\ Steps >= 0 /\ Steps' < Steps]_loops

\* Every call returns.
EveryCallReturns == at # "ready" ~> at = "ready"
=============================================================================
