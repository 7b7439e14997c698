--------------------------- MODULE MCAlgorithms ---------------------------
(* The sequential parts for TLC, each a machine of its own that leaves the *)
(* others where they began: calls on one table, every moment of several    *)
(* weeks, many texts, and calls of the session bus.                        *)
EXTENDS AlarmLoops, CivilTime, RowFormat, Dbus, MCValues

(* One-shot and weekly rows of two tasks; a weekly row that moves passes   *)
(* one that is later or stops before one of its own time.  Batches of one  *)
(* row, and of one more than there is room for.                            *)
MCRows    == {Once(b, 14), Weekly(a, 0)}
MCBatches == {<<r>> : r \in MCRows}
                \cup {<<Once(b, 14), Weekly(a, 0), Once(a, 0), Once(a, 14)>>}
MCBlank   == Once(b, 14)
MCMoments == {0, 14}

(* Around the day whose stamps are read as -1.                             *)
MCDates  == {-1, 0, 1}
MCWinter == -1

(* Words, separators, half separators, blanks, stamps and weekdays in any  *)
(* field; fields longer than FieldLen = 3 that are cut before a blank or   *)
(* within a separator; a line break.                                       *)
MCTexts == {<<>>, <<"x">>, <<"%">>, <<"repeat">>, <<"mon">>, <<"HH">>,
            <<" ", "TS">>, <<" ", "HH">>, <<" ", "x">>, <<"x", "%">>,
            <<"%", " ">>, <<"%", "x">>, <<"repeat", "%">>,
            <<"x", "\n", "x">>, <<"x", "x", "%", "x">>, <<"x", "x", " ", "x">>}
MCHeads == {<<"TS">>, <<"HH">>, <<"mon">>, <<"x">>, <<" ", "mon">>,
            <<" ", "TS">>, <<" ", "HH">>}

AlgInit == /\ LoopsInit /\ TextInit /\ DbusInit
           /\ clock = 0 /\ pidFile = NoPid /\ file = <<>>

TableRests == tasks = [i \in Slots |-> Blank] /\ len = 0 /\ ret = 0 /\ at = "ready"
ClockRests == clock = 0
TextRests  == born = <<>>
BusRests   == calls = 0

AlgNext ==
    \/ ClockRests /\ TextRests /\ BusRests /\ LoopsNext /\ UNCHANGED <<world, text, bus>>
    \/ /\ TableRests /\ TextRests /\ BusRests
       /\ Tick /\ UNCHANGED <<file, pidFile, loops, text, bus>>
    \/ TableRests /\ ClockRests /\ BusRests /\ TextNext /\ UNCHANGED <<world, loops, bus>>
    \/ TableRests /\ ClockRests /\ TextRests /\ DbusNext /\ UNCHANGED <<world, loops, text>>

AlgSpec == /\ AlgInit /\ [][AlgNext]_<<world, loops, text, bus>>
           /\ WF_loops(Loop)
=============================================================================
