---------------------------- MODULE AlarmTable ----------------------------
(***************************************************************************)
(* What the functions on alarm tables promise: each changes the table in   *)
(* one step, by an operator of AlarmList, and returns what it says.        *)
(* Positions count from 1; 0 stands for (unsigned)-1 and for a null.       *)
(***************************************************************************)
EXTENDS AlarmList

CONSTANTS
    Batches,    \* sequences of rows that are pushed one after another
    Moments     \* readings of the clock

VARIABLES
    table,
    ret         \* what the last call returned; 0 when it returns nothing

Init == table = <<>> /\ ret = 0

TaskInit == table' = <<>> /\ ret' = 0

Push == \E items \in Batches : table' = PushAll(table, items) /\ ret' = 0

Find == \E t \in Tasks : table' = table /\ ret' = TaskFind(table, t)

RemoveOne == \E t \in Tasks : /\ table' = TaskRemove(table, t)
                           /\ ret' = TaskFind(table, t)

RemoveAll == \E t \in Tasks : /\ table' = TaskRemoveAll(table, t)
                              /\ ret' = Cardinality(RowsOf(table, t))

\* ret tells whether the caller goes on to write the table.
Purge == \E now \in Moments : /\ table' = PurgePastAlarms(table, now)
                              /\ ret' = IF Due(table, now) = {} THEN 0 ELSE 1

FindNext == \E now \in Moments :
                /\ table' = table
                /\ \/ Future(table, now) = {} /\ ret' = Len(table) + 1
                   \/ ret' \in DOMAIN table /\ IsNextAlarm(table, now, ret')

Advance == \E idx \in DOMAIN table, now \in Moments :
                /\ table[idx].does_repeat /\ table[idx].ts <= now
                /\ table' = AdvanceRepeatAlarm(table, idx) /\ ret' = 0

Next == \/ TaskInit \/ Push \/ Find \/ RemoveOne \/ RemoveAll
        \/ Purge \/ FindNext \/ Advance

Spec == Init /\ [][Next]_<<table, ret>>
=============================================================================
