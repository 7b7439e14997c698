----------------------------- MODULE MCDaemon -----------------------------
(* Instances of Daemon for TLC.                                            *)
EXTENDS Daemon, MCValues

(* A weekly alarm, a one-shot alarm due with it and one due just after it, *)
(* and a table that is not in order (a file edited by hand).               *)
MCTables == {<<>>,
             <<Weekly(a, 1), Once(b, 1)>>,
             <<Once(b, 2), Weekly(a, 1)>>}

(* What other processes leave in the file while the daemon runs: nothing   *)
(* (the other process has just truncated it) or a new table.               *)
MCEdits == {<<>>, <<Once(b, 2), Weekly(a, 1)>>, <<Once(b, 3)>>}

(* A second daemon empties the pid file, and enters a pid of its own.      *)
MCOtherPids == {NoPid, MaxStarts + 1}

(* Two alarms of the same second.                                          *)
MCSameTime == {<<Once(a, 1), Once(b, 1)>>}

(* Two alarms, the second some time after the first.                       *)
MCOneAfterOther == {<<Once(a, 1), Once(b, 3)>>}

MCNone == {}
=============================================================================
