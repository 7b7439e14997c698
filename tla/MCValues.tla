----------------------------- MODULE MCValues -----------------------------
(* Values for the instances: two tasks, three comments, two users, and     *)
(* short ways to write rows and commands.                                  *)
EXTENDS Integers

CONSTANTS a, b, none, x, y, p, q

MCTasks    == {a, b}
MCComments == {none, x, y}

Row(t, com, time, rep) == [task |-> t, comment |-> com, ts |-> time,
                           does_repeat |-> rep]
Once(t, time)   == Row(t, x, time, FALSE)
Weekly(t, time) == Row(t, x, time, TRUE)

Add(t, com, time)    == [op |-> "add", task |-> t, comment |-> com,
                         times |-> <<time>>, does_repeat |-> FALSE]
AddRepeat(t, com, time) == [Add(t, com, time) EXCEPT !.does_repeat = TRUE]
AddDays(t, com, phases) == [op |-> "weekly", task |-> t, comment |-> com,
                            times |-> phases, does_repeat |-> TRUE]
RemoveTask(t)        == [op |-> "remove", task |-> t, comment |-> none,
                         times |-> <<>>, does_repeat |-> FALSE]
=============================================================================
