----------------------------- MODULE MCReplace -----------------------------
(* Instances of Replace for TLC: days of two units, a zone half a day      *)
(* ahead of UTC.                                                           *)
EXTENDS Replace, MCValues

(* Every branch of cmd_add and cmd_remove: two comments for one task, an   *)
(* empty comment, a repeating row, a weekday list out of order and with a  *)
(* day twice, rows of equal time, a time already past, a text that is not  *)
(* an alarm.                                                               *)
MCCommands == {Add(a, x, 1), Add(a, y, 2), Add(b, none, 1), AddRepeat(b, x, 0),
               AddDays(a, x, <<1, 0, 1>>), AddDays(b, x, <<>>),
               RemoveTask(a), RemoveTask(b)}

(* a weekly at midnight on each of the days.                               *)
OnDays(days) ==
    [i \in DOMAIN days |-> Weekly(a, AdvanceRepeatToFuture(Phase(days[i], 0), 0))]

(* The sets of days the script knows, one it does not, a one-shot alarm, a *)
(* title with both kinds, and a file edited by hand that is not in order.  *)
MCFiles == {<<>>,
            OnDays(<<3>>), OnDays(<<1, 2, 3, 4, 5>>), OnDays(<<6, 0>>),
            OnDays(<<1, 2, 3, 4, 5, 6, 0>>), OnDays(<<1, 3>>),
            <<Once(a, 5), Once(b, 5)>>,
            <<Weekly(a, 3), Once(a, 4)>>,
            <<Row(b, none, 2, FALSE), Weekly(a, 1)>>}
=============================================================================
