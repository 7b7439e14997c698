------------------------------ MODULE Service ------------------------------
(***************************************************************************)
(* Two daemons on one alarm file, and the commands: `todox --daemonize`    *)
(* started by hand beside the one of the service manager.  Nothing in      *)
(* run_daemon (src/src/app/app.c) looks for another daemon; the later one  *)
(* puts its pid in place of the other's, and the signals go to it.         *)
(*                                                                         *)
(* The second daemon is module Daemon again, on variables of its own; the  *)
(* file, the pid file, the clock and the process ids are common.           *)
(***************************************************************************)
EXTENDS Todox

VARIABLES pc2, after2, pid2, mem2, now2, next2, deadline2, pipe2, log2

proc2 == <<pc2, after2, pid2, mem2, now2, next2, deadline2, pipe2, log2>>

\* To each daemon the other is part of the environment that edits the file and
\* enters its pid.
First  == INSTANCE Daemon WITH Edits <- Seq(Alarm), OtherPids <- Nat
Second == INSTANCE Daemon WITH
        Edits <- Seq(Alarm), OtherPids <- Nat,
        pc <- pc2, after <- after2, pid <- pid2, mem <- mem2, now <- now2,
        next <- next2, deadline <- deadline2, pipe <- pipe2, log <- log2

serviceVars == <<allVars, proc2>>

ServiceInit == TodoxInit /\ Second!Init

\* Mutant: the second daemon is signalled whether it runs or not.
ReachSecondAnyway ==
    Second!OnReload /\ UNCHANGED <<after2, pid2, mem2, now2, next2, deadline2, log2>>

\* The signal of another process, if the pid file names the second daemon.
ReachSecond ==
    IF pc2 # "down" /\ pidFile = pid2
    THEN Second!OnReload /\ UNCHANGED <<after2, pid2, mem2, now2, next2, deadline2, log2>>
    ELSE UNCHANGED proc2

\* A daemon that has written signals the one the pid file names, itself or
\* the other.
FirstMoves ==
    /\ \/ Create /\ pid' > pid2 /\ UNCHANGED proc2
       \/ pc # "kill" /\ DaemonStep /\ UNCHANGED proc2
       \/ KillSelf /\ ReachSecond
       \/ Crash /\ UNCHANGED proc2
    /\ UNCHANGED cliVars

SecondMoves ==
    /\ \/ Second!Create /\ pid2' > pid /\ UNCHANGED proc
       \/ pc2 # "kill" /\ Second!DaemonStep /\ UNCHANGED proc
       \/ Second!KillSelf /\ ReachDaemon
       \/ Second!Crash /\ UNCHANGED proc
    /\ UNCHANGED cliVars

KillOwner(c) == KillDaemon(c) /\ ReachSecond

ServiceNext ==
    \/ FirstMoves \/ SecondMoves
    \/ \E c \in Clients : (CommandMoves(c) /\ UNCHANGED proc2) \/ KillOwner(c)
    \/ Passing /\ UNCHANGED proc2

ServiceSpec == ServiceInit /\ [][ServiceNext]_serviceVars

-----------------------------------------------------------------------------
(* Properties                                                              *)

\* Each daemon, with the other as part of its environment, is the daemon that
\* the theorems are about: two of them may both show an alarm, but neither
\* shows one early, out of order or twice.
BothImplementDaemon == First!Spec /\ Second!Spec

\* Somebody has emptied the file and has still to write it or to signal, or
\* may have been killed before it did.
Writing == \/ \E c \in Clients : cpc[c] \in {"flush", "kill"}
           \/ unsaid
           \/ {pc, pc2} \cap {"flush", "kill", "down", "pidopen"} # {}

\* The daemon that the pid file names sleeps only with the table of the file,
\* whoever wrote it: a command, the other daemon, or both at once.
OwnerIsWoken ==
    ~Writing =>
        /\ pc = "poll" /\ pipe = 0 /\ pidFile = pid => mem = ParseConfig(file)
        /\ pc2 = "poll" /\ pipe2 = 0 /\ pidFile = pid2 => mem2 = ParseConfig(file)

\* Two daemons that advance, purge and write back their own copies of one
\* table, over each other, make up no alarm and move none but by weeks.
BothKeepRows ==
    \A r \in ToSet(file) \cup ToSet(mem) \cup ToSet(mem2)
                 \cup ToSet(log) \cup ToSet(log2) : HasOrigin(r)
=============================================================================
