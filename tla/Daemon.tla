------------------------------ MODULE Daemon ------------------------------
(***************************************************************************)
(* The notification daemon (src/src/notify/notify.c, `todox --daemonize`)  *)
(* in an open environment: other processes edit the alarm file, enter      *)
(* their pid and send SIGUSR1 whenever they like, the clock ticks, the     *)
(* daemon may be killed and started again.  Module Todox closes the        *)
(* environment with the real commands, module Service with a second        *)
(* daemon as well.                                                         *)
(*                                                                         *)
(* pc is where the daemon is; each value is a point at which another       *)
(* process, a signal or the clock can come between two of its steps:       *)
(*   down       no daemon process                                          *)
(*   pidopen    handler installed, pid file not opened yet                 *)
(*   pidwrite   pid file emptied, the pid still in the stdio buffer        *)
(*   reload     top of the loop in todox_notify_process_run                *)
(*   purge      table parsed, about to read the clock and purge            *)
(*   open, flush, kill   the three steps of todox_write_config; `after`    *)
(*              is where its caller goes on                                *)
(*   arm        about to choose the next alarm                             *)
(*   poll       in todox_msleep, until `deadline`                          *)
(*   wake       todox_msleep returned 0, about to read the clock           *)
(*   notify     in todox_send_desktop_notification                         *)
(***************************************************************************)
EXTENDS AlarmFile

CONSTANTS
    InitTables,     \* contents of the file the daemon may find
    Edits,          \* contents other processes may give the file
    OtherPids,      \* what other daemons may leave in the pid file
    PipeCap,        \* bound: bytes the wakeup pipe can hold
    ReadChunk,      \* bytes todox_msleep takes off it with one read
    PollSpan,       \* clock units until a timeout no longer fits an int of ms
    MaxStarts,      \* bound: the last process id
    Prompt,         \* TRUE: the daemon's steps take no time (see Time)
    Calm            \* TRUE: others act only while the daemon sleeps (see Signal)

ASSUME TablesAssumption == /\ InitTables \subseteq Seq(Alarm)
                           /\ Edits \subseteq Seq(Alarm)
ASSUME PidsAssumption   == OtherPids \subseteq Nat
ASSUME PipeAssumption   == /\ PipeCap \in Nat \ {0}
                           /\ ReadChunk \in Nat \ {0}
ASSUME PollAssumption   == PollSpan \in Nat \ {0}
ASSUME StartsAssumption == MaxStarts \in Nat
ASSUME PaceAssumption   == Prompt \in BOOLEAN /\ Calm \in BOOLEAN

VARIABLES
    pc,
    after,      \* where todox_write_config returns to: "arm" or "reload"
    pid,        \* process id of the last daemon started, NoPid before that
    mem,        \* proc->alarm_list
    now,        \* the `now` of todox_notify_process_run
    next,       \* next_idx
    deadline,   \* when poll times out, Forever if never
    pipe,       \* bytes in the wakeup pipe, NoPipe if it was not created
    log         \* notifications shown, oldest first (history)

proc == <<pc, after, pid, mem, now, next, deadline, pipe, log>>
vars == <<world, proc>>

Forever == -1
NoPipe  == -1

PCs == {"down", "pidopen", "pidwrite", "reload", "purge", "open", "flush",
        "kill", "arm", "poll", "wake", "notify"}

TypeOK ==
    /\ clock \in Nat
    /\ file \in Seq(Alarm)
    /\ pidFile \in Nat
    /\ pc \in PCs
    /\ after \in {"arm", "reload"}
    /\ pid \in Nat
    /\ mem \in Seq(Alarm)
    /\ now \in Nat
    /\ next \in Nat
    /\ deadline \in Nat \cup {Forever}
    /\ pipe \in Nat \cup {NoPipe}
    /\ log \in Seq(Alarm)

Init ==
    /\ clock = 0
    /\ file \in InitTables
    /\ pidFile = NoPid
    /\ pc = "down" /\ after = "arm" /\ pid = NoPid
    /\ mem = <<>> /\ now = 0 /\ next = 0 /\ deadline = Forever
    /\ pipe = NoPipe
    /\ log = <<>>

-----------------------------------------------------------------------------
(* Start and end of the process                                            *)

\* todox_notify_process_create up to the signal handler.  The table and the
\* index it computes are replaced by the first reload.  The process id is one
\* that no daemon had before.
Create ==
    /\ pc = "down" /\ pid < MaxStarts
    /\ pid' \in pid+1..MaxStarts
    /\ pc' = "pidopen"
    /\ \/ pipe' = 0
       \/ "pipe" \in Faults /\ pipe' = NoPipe
    /\ mem' = <<>> /\ next' = 0 /\ now' = 0 /\ deadline' = Forever
    /\ after' = "arm"
    /\ UNCHANGED <<world, log>>

\* fopen(pid_path, "w")
OpenPidFile ==
    /\ pc = "pidopen"
    /\ \/ pidFile' = NoPid /\ pc' = "pidwrite"
       \/ "pidfile" \in Faults /\ pc' = "reload" /\ UNCHANGED pidFile
    /\ UNCHANGED <<clock, file, after, pid, mem, now, next, deadline, pipe, log>>

\* fclose(pid_file) flushes the pid
WritePidFile ==
    /\ pc = "pidwrite"
    /\ pidFile' = pid
    /\ pc' = "reload"
    /\ UNCHANGED <<clock, file, after, pid, mem, now, next, deadline, pipe, log>>

\* Killed, or stopped by the service manager: the pid file stays behind.
Crash ==
    /\ "crash" \in Faults /\ pc # "down"
    /\ pc' = "down"
    /\ UNCHANGED <<world, after, pid, mem, now, next, deadline, pipe, log>>

-----------------------------------------------------------------------------
(* The loop of todox_notify_process_run                                    *)

ReloadAlarms ==
    /\ pc = "reload"
    /\ mem' = ParseConfig(file)
    /\ pc' = "purge"
    /\ UNCHANGED <<world, after, pid, now, next, deadline, pipe, log>>

\* Mutant: the purged table is not written back.
PurgeInMemory ==
    /\ pc = "purge"
    /\ now' = clock
    /\ mem' = PurgePastAlarms(mem, clock)
    /\ pc' = "arm"
    /\ UNCHANGED <<world, after, pid, next, deadline, pipe, log>>

Purge ==
    /\ pc = "purge"
    /\ now' = clock
    /\ mem' = PurgePastAlarms(mem, clock)
    /\ IF Due(mem, clock) = {}
       THEN pc' = "arm" /\ UNCHANGED after
       ELSE pc' = "open" /\ after' = "arm"
    /\ UNCHANGED <<world, pid, next, deadline, pipe, log>>

\* fopen(config_path, "wt"); on failure todox_notify(CRITICAL) exits
OpenConfig ==
    /\ pc = "open"
    /\ \/ OpenMaySucceed /\ TruncateConfig /\ pc' = "flush"
       \/ OpenMayFail /\ pc' = "down" /\ UNCHANGED file
    /\ UNCHANGED <<clock, pidFile, after, pid, mem, now, next, deadline, pipe, log>>

FlushConfig ==
    /\ pc = "flush"
    /\ WriteRows(mem)
    /\ pc' = "kill"
    /\ UNCHANGED <<clock, pidFile, after, pid, mem, now, next, deadline, pipe, log>>

\* on_reload writes one byte; a full pipe refuses it (EAGAIN)
ByteAdded(p) == IF p # NoPipe /\ p < PipeCap THEN p + 1 ELSE p

\* The daemon reads its own pid and signals itself; the handler runs at once.
KillSelf ==
    /\ pc = "kill"
    /\ pipe' = IF pidFile = pid THEN ByteAdded(pipe) ELSE pipe
    /\ pc' = after
    /\ UNCHANGED <<world, after, pid, mem, now, next, deadline, log>>

\* Mutant: the sleep is rounded up.
TimeoutRoundedUp(d) == clock + d + 1

\* The timeout poll gets is an int: a longer one wraps, and a negative one
\* means no timeout.
Timeout(d) == LET r == d % (2 * PollSpan)
              IN  IF r >= PollSpan THEN Forever ELSE clock + r

\* find_next_alarm with the `now` of the purge, then todox_msleep up to poll
ArmTimer ==
    /\ pc = "arm"
    /\ \E i \in DOMAIN mem :
          /\ IsNextAlarm(mem, now, i)
          /\ next' = i
          /\ deadline' = Timeout(mem[i].ts - now)
    /\ pc' = "poll"
    /\ UNCHANGED <<world, after, pid, mem, now, pipe, log>>

\* Mutant: a search without result leaves its sentinel as the index.
SpinWithSentinel ==
    /\ pc = "arm" /\ Future(mem, now) = {}
    /\ pc' = "reload" /\ next' = -1
    /\ UNCHANGED <<world, after, pid, mem, now, deadline, pipe, log>>

\* No alarm in the future: sleep_ms = -1, todox_msleep returns 0 without
\* sleeping and the loop starts over.
SpinWithoutAlarm ==
    /\ pc = "arm" /\ Future(mem, now) = {}
    /\ pc' = "reload"
    /\ UNCHANGED <<world, after, pid, mem, now, next, deadline, pipe, log>>

\* poll finds a byte: todox_msleep returns -1, `continue`
PollEvent ==
    /\ pc = "poll" /\ pipe > 0
    /\ pipe' = IF pipe > ReadChunk THEN pipe - ReadChunk ELSE 0
    /\ pc' = "reload"
    /\ UNCHANGED <<world, after, pid, mem, now, next, deadline, log>>

PollTimeout ==
    /\ pc = "poll" /\ pipe <= 0
    /\ deadline # Forever /\ clock >= deadline
    /\ pc' = "wake"
    /\ UNCHANGED <<world, after, pid, mem, now, next, deadline, pipe, log>>

\* Mutant: the time is not compared again after the sleep.
WakeTrusting ==
    /\ pc = "wake"
    /\ now' = clock
    /\ pc' = "notify"
    /\ UNCHANGED <<world, after, pid, mem, next, deadline, pipe, log>>

\* now = get_current_time(); if(alarm->ts <= now)
Wake ==
    /\ pc = "wake"
    /\ now' = clock
    /\ pc' = IF mem[next].ts <= clock THEN "notify" ELSE "reload"
    /\ UNCHANGED <<world, after, pid, mem, next, deadline, pipe, log>>

\* The call returns (0 or -1: the caller does not look).  A weekly alarm is
\* advanced in the table in memory, and that table is written back.
NotifyDone ==
    /\ pc = "notify"
    /\ \/ log' = Append(log, mem[next])
       \/ "notify" \in Faults /\ UNCHANGED log
    /\ IF mem[next].does_repeat
       THEN /\ mem' = AdvanceRepeatAlarm(mem, next)
            /\ pc' = "open" /\ after' = "reload"
       ELSE pc' = "reload" /\ UNCHANGED <<mem, after>>
    /\ UNCHANGED <<world, pid, now, next, deadline, pipe>>

DaemonStep ==
    \/ OpenPidFile \/ WritePidFile
    \/ ReloadAlarms \/ Purge \/ OpenConfig \/ FlushConfig \/ KillSelf
    \/ ArmTimer \/ SpinWithoutAlarm
    \/ PollEvent \/ PollTimeout \/ Wake \/ NotifyDone

-----------------------------------------------------------------------------
(* The environment                                                         *)

\* The daemon has something to do before it sleeps again, or before it has
\* gone round its loop without finding anything to do.
Busy ==
    \/ pc = "down" /\ pid < MaxStarts
    \/ pc \in PCs \ {"down", "arm", "poll"}
    \/ pc = "arm" /\ (Future(mem, now) # {} \/ mem # ParseConfig(file))
    \/ pc = "poll" /\ (pipe > 0 \/ (deadline # Forever /\ clock >= deadline))

\* Mutant: a signal is noticed only while poll blocks.
OnReloadAsleep ==
    \/ pc = "poll" /\ pipe <= 0 /\ pc' = "wake" /\ pipe' = ByteAdded(pipe)
    \/ ~(pc = "poll" /\ pipe <= 0) /\ UNCHANGED <<pc, pipe>>

\* SIGUSR1 delivered to the daemon.  A poll that is blocked returns EINTR,
\* which todox_msleep reports as 0, like a timeout.
OnReload ==
    /\ pipe' = ByteAdded(pipe)
    /\ \/ pc' = pc
       \/ pc = "poll" /\ pipe <= 0 /\ pc' = "wake"

Signal == /\ pc # "down"
          /\ Calm => ~Busy
          /\ OnReload
          /\ UNCHANGED <<world, after, pid, mem, now, next, deadline, log>>

\* Another process rewrites the file.
Edit == /\ Calm => ~Busy
        /\ file' \in Edits
        /\ UNCHANGED <<clock, pidFile, proc>>

\* Another daemon of the same file empties the pid file, or enters its own pid.
TakeOver == /\ pidFile' \in OtherPids
            /\ UNCHANGED <<clock, file, proc>>

\* Under Prompt a busy daemon gets to its next sleep within a clock unit, and
\* the service manager restarts a daemon that is down within one.
Time == /\ Prompt => ~Busy
        /\ Tick
        /\ UNCHANGED <<file, pidFile, proc>>

Next == Create \/ Crash \/ DaemonStep \/ Signal \/ Edit \/ TakeOver \/ Time

Spec == Init /\ [][Next]_vars

-----------------------------------------------------------------------------
(* Properties                                                              *)

\* Notifications come in the strict order of their times, across signals,
\* foreign edits, failed writes, and restarts of the daemon: a time that was
\* notified is at or before every later `now`, and find_next_alarm looks only
\* at rows after `now`.
LogOrdered == \A i, j \in DOMAIN log : i < j => log[i].ts < log[j].ts

\* No notification comes early, although poll may return early (a signal, a
\* timeout that wrapped) and although the clock moves between the purge, the
\* sleep and the second time().
NeverEarly == \A i \in DOMAIN log : log[i].ts <= clock

\* On an idle machine (Prompt, Calm) whose alarms all have times of their own, a row
\* that purge_past_alarms finds due was notified before: nothing is dropped
\* silently.
PurgedWereNotified ==
    pc = "purge" => \A i \in Due(mem, clock) : mem[i] \in ToSet(log)

\* On an idle machine every notification comes in the very clock unit of its
\* alarm, although the sleep is computed from the `now` of the purge.
NotifiedOnTime ==
    [][log' # log => log'[Len(log')].ts = clock]_vars

\* On an idle machine the daemon does not sleep past the alarm it armed.
NeverOversleeps == pc = "poll" => clock <= mem[next].ts

\* An alarm still in the file after its time has been notified.
DueHaveFired ==
    \A i \in DOMAIN file : file[i].ts < clock => file[i] \in ToSet(log)

N == INSTANCE Notifier
\* The daemon implements the abstract notifier.
ImplementsNotifier == N!Spec

\* The row poll waits for is the one the timer was armed for: it exists, and
\* nothing notified so far is as late.  (This carries LogOrdered through the
\* steps between arming and notifying.)
ArmedRow ==
    pc \in {"poll", "wake", "notify"} =>
        /\ next \in DOMAIN mem
        /\ \A i \in DOMAIN log : log[i].ts < mem[next].ts
=============================================================================
