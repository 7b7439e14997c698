----------------------------- MODULE MCService -----------------------------
(* Instances of Service for TLC.                                           *)
EXTENDS Service, MCValues

MCNone == {}

(* A weekly alarm that both daemons notify and advance.                    *)
MCWeekly == {<<Weekly(a, 1)>>}

MCCommands == {Add(b, none, 2), RemoveTask(a)}
=============================================================================
