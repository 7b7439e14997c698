------------------------------ MODULE MCTodox ------------------------------
(* Instances of Todox for TLC.                                             *)
EXTENDS Todox, MCValues

MCNone == {}

(* A weekly alarm that becomes due while the commands run.                 *)
MCWeekly == {<<Weekly(a, 1)>>}

(* An add before and one after the weekly alarm, and its removal.          *)
MCCommands == {Add(b, none, 2), RemoveTask(a)}

(* For the idle machine: times of their own, a weekly alarm among them.    *)
MCSpaced == {Add(b, x, 2), Add(b, x, 4), RemoveTask(b), AddDays(a, x, <<1>>)}
MCStart  == {<<>>, <<Weekly(a, 1)>>, <<Once(b, 4), Weekly(a, 1), Once(b, 2)>>}

(* An add that the weekly alarm comes before, and a removal.               *)
MCAddRemove == {Add(b, none, 3), RemoveTask(b)}
MCTwo        == {<<Weekly(a, 1), Once(b, 3)>>}
=============================================================================
