------------------------------- MODULE Todox -------------------------------
(***************************************************************************)
(* The whole system: the daemon of module Daemon and the commands of       *)
(* module Cli on one alarm file, and the signal a command sends when it    *)
(* has written.                                                            *)
(***************************************************************************)
EXTENDS Daemon, Cli

allVars == <<world, proc, cliVars>>

TodoxInit == Init /\ CliInit

\* Everything the daemon process does.
DaemonMoves == (Create \/ Crash \/ DaemonStep) /\ UNCHANGED cliVars

\* Under Calm a command starts while the daemon sleeps, and adds only what is
\* still to come.
CommandMoves(c) ==
    /\ \/ /\ Calm => ~Busy
          /\ Begin(c)
          /\ Calm => \A r \in ToSet(asked'[c].adds) : r.ts > clock
       \/ Open(c) \/ Flush(c) \/ Interrupt(c)
    /\ UNCHANGED proc

\* Mutant: no signal is sent.
KillNobody(c) == Kill(c) /\ UNCHANGED proc

\* Mutant: the signal is sent without a daemon.
KillAnyway(c) ==
    /\ Kill(c)
    /\ OnReload /\ UNCHANGED <<after, pid, mem, now, next, deadline, log>>

\* kill(pid, SIGUSR1) with the pid the file holds.  No process has the pid of
\* a daemon that is gone.
ReachDaemon ==
    IF pc # "down" /\ pidFile = pid
    THEN OnReload /\ UNCHANGED <<after, pid, mem, now, next, deadline, log>>
    ELSE UNCHANGED proc

KillDaemon(c) == Kill(c) /\ ReachDaemon

\* Under Prompt commands, too, take no time.
Passing ==
    /\ Prompt => (~Busy /\ Quiet)
    /\ Tick
    /\ UNCHANGED <<file, pidFile, proc, cliVars>>

TodoxNext ==
    \/ DaemonMoves
    \/ \E c \in Clients : CommandMoves(c) \/ KillDaemon(c)
    \/ Passing

TodoxSpec == TodoxInit /\ [][TodoxNext]_allVars

(* The kernel runs a process that can run: each daemon step and each step  *)
(* of a running command is weakly fair, and so is the service manager's    *)
(* restart.  Nobody has to start a command.  Passing is strongly fair only *)
(* because Prompt disables it whenever the daemon is busy.                 *)
Fairness ==
    /\ WF_allVars((Create \/ DaemonStep) /\ UNCHANGED cliVars)
    /\ \A c \in Clients :
          WF_allVars(cpc[c] # "idle" /\ (CommandMoves(c) \/ KillDaemon(c)))
    /\ SF_allVars(Passing)

FairSpec == TodoxSpec /\ Fairness

-----------------------------------------------------------------------------
(* Properties                                                              *)

\* A daemon that sleeps with an empty pipe has the table that is in the file,
\* unless a command is still writing or about to signal, or was killed before
\* it did: no wake-up is lost, whether the signal comes while poll blocks,
\* before it, while the daemon starts and its pid file is empty, while it
\* writes the file itself, or when it has been started anew.
NoLostWakeup ==
    (pc = "poll" /\ pipe = 0 /\ pidFile = pid /\ ~unsaid) =>
        \/ mem = ParseConfig(file)
        \/ \E c \in Clients : cpc[c] \in {"flush", "kill"}

\* Where a row can come from: the first file, or a command.
Origins == UNION ({ToSet(f) : f \in InitTables} \cup
                  {ToSet(Items(cmd, t)) : cmd \in {k \in Commands : k.op # "remove"},
                                          t \in 0..Horizon})

\* No interleaving of writers, and no failed write, makes up an alarm or moves
\* one: every row anywhere is a row that somebody entered, a weekly one
\* possibly some whole weeks later.
HasOrigin(r) ==
    \E o \in Origins :
        /\ r = [o EXCEPT !.ts = r.ts]
        /\ r.ts = o.ts \/ (o.does_repeat /\ r.ts > o.ts
                              /\ (r.ts - o.ts) % Week = 0)

RowsHaveOrigin ==
    \A r \in ToSet(file) \cup ToSet(mem) \cup ToSet(log)
                 \cup UNION {ToSet(ctab[c]) : c \in Clients} : HasOrigin(r)

\* What a command did stays done.  When nothing is going on, a one-shot alarm
\* that was added, not removed, and is still to come is in the file, and a
\* task that was removed is not.
CommandsLast ==
    (Quiet /\ pc = "poll" /\ pipe <= 0) =>
        /\ \A r \in acked : ~r.does_repeat /\ r.ts > clock => r \in ToSet(file)
        /\ \A t \in gone : RowsOf(file, t) = {}

\* Seen from outside the commands are an environment that edits the file and
\* signals: what is proved of Daemon for every set of edits holds here.
D == INSTANCE Daemon WITH Edits <- Seq(Alarm)
ImplementsDaemon == D!Spec

\* On an idle machine, with all times distinct, an alarm that was added ahead of
\* its time is notified, unless it is removed before.
AddedIsNotified ==
    \A r \in Origins :
        (r \in acked /\ r.ts \in clock+1..Horizon)
            ~> (r \in ToSet(log) \/ r \notin acked)

\* Rows whose time has come do not stay in the file: again and again the
\* daemon is through with its writing and there is no such row.
DueRowsLeave == []<>(pc \in {"arm", "poll"} /\ Due(file, clock) = {})
=============================================================================
