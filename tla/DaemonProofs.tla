--------------------------- MODULE DaemonProofs ---------------------------
(***************************************************************************)
(* Theorems about the daemon, for every alarm file, every set of edits and *)
(* faults, every bound and every length of the pipe and of a week.         *)
(***************************************************************************)
EXTENDS Daemon, AlarmListProofs

-----------------------------------------------------------------------------
(* The operations yield tables                                             *)

\* todox_parse_config gives a table.
LEMMA ParseConfigType ==
    ASSUME NEW rows \in Seq(Alarm)
    PROVE  /\ ParseConfig(rows) \in Seq(Alarm)
           /\ IsSortedByTime(ParseConfig(rows))
<1>1. <<>> \in Seq(Alarm)
  BY EmptySeq
<1> QED BY <1>1, PushAllProperties DEF ParseConfig

\* Two writers that overlay each other leave a table in the file.
LEMMA OverlaysType ==
    ASSUME NEW lst \in Seq(Alarm), NEW old \in Seq(Alarm)
    PROVE  Overlays(lst, old) \subseteq Seq(Alarm)
<1>1. CASE lst = <<>>
  BY <1>1 DEF Overlays
<1>2. CASE lst # <<>>
  <2>1. Len(old) \in Nat /\ \A q \in 1..Len(old) : old[q] \in Alarm
    BY LenProperties, ElementOfSeq
  <2>2. ASSUME NEW k \in 2..Len(old)+2
        PROVE  lst \o SubSeq(old, k, Len(old)) \in Seq(Alarm)
    <3>1. \A q \in k..Len(old) : old[q] \in Alarm
      BY <2>1
    <3>2. SubSeq(old, k, Len(old)) \in Seq(Alarm)
      BY <2>1, <3>1, SubSeqProperties
    <3> QED BY <3>2, ConcatProperties
  <2> QED BY <1>2, <2>2 DEF Overlays
<1> QED BY <1>1, <1>2

\* A flush leaves a table in the file, also when it stops short.
LEMMA WriteRowsType ==
    ASSUME file \in Seq(Alarm), NEW lst \in Seq(Alarm), WriteRows(lst)
    PROVE  file' \in Seq(Alarm)
<1>1. CASE file' \in Overlays(lst, file)
  BY <1>1, OverlaysType
<1>2. ASSUME NEW n \in 0..Len(lst), file' \in Overlays(SubSeq(lst, 1, n), file)
      PROVE  file' \in Seq(Alarm)
  <2>1. Len(lst) \in Nat /\ \A q \in 1..Len(lst) : lst[q] \in Alarm
    BY LenProperties, ElementOfSeq
  <2>2. SubSeq(lst, 1, n) \in Seq(Alarm)
    <3>1. \A q \in 1..n : lst[q] \in Alarm
      BY <2>1
    <3> QED BY <2>1, <3>1, SubSeqProperties
  <2> QED BY <1>2, <2>2, OverlaysType
<1> QED BY <1>1, <1>2 DEF WriteRows

\* Reading the file brings rows of the file.
LEMMA ParseConfigRows ==
    ASSUME NEW rows \in Seq(Alarm)
    PROVE  ToSet(ParseConfig(rows)) \subseteq ToSet(rows)
<1>1. <<>> \in Seq(Alarm) /\ ToSet(<<>>) = {}
  BY EmptySeq DEF ToSet
<1> QED BY <1>1, PushAllRows DEF ParseConfig

\* A flush leaves rows of the writer and of the file it writes over.
LEMMA WriteRowsRows ==
    ASSUME file \in Seq(Alarm), NEW lst \in Seq(Alarm), WriteRows(lst)
    PROVE  ToSet(file') \subseteq ToSet(lst) \cup ToSet(file)
<1>1. ASSUME NEW s \in Seq(Alarm), NEW f \in Overlays(s, file)
      PROVE  ToSet(f) \subseteq ToSet(s) \cup ToSet(file)
  <2>1. CASE s = <<>>
    BY <1>1, <2>1 DEF Overlays
  <2>2. CASE s # <<>>
    <3>1. PICK k \in 2..Len(file)+2 : f = s \o SubSeq(file, k, Len(file))
      BY <2>2 DEF Overlays
    <3> DEFINE rest == SubSeq(file, k, Len(file))
    <3>2. k \in Nat \ {0} /\ Len(file) \in 0..Len(file)
      BY LenProperties
    <3>3. rest \in Seq(Alarm) /\ ToSet(rest) \subseteq ToSet(file)
      BY <3>2, SubSeqRows
    <3>4. f = s \o rest
      BY <3>1
    <3> HIDE DEF rest
    <3> QED BY <3>3, <3>4, ConcatRows
  <2> QED BY <2>1, <2>2
<1>2. CASE file' \in Overlays(lst, file)
  BY <1>1, <1>2
<1>3. ASSUME NEW n \in 0..Len(lst), file' \in Overlays(SubSeq(lst, 1, n), file)
      PROVE  ToSet(file') \subseteq ToSet(lst) \cup ToSet(file)
  <2>1. SubSeq(lst, 1, n) \in Seq(Alarm) /\ ToSet(SubSeq(lst, 1, n)) \subseteq ToSet(lst)
    BY SubSeqRows
  <2> QED BY <1>1, <1>3, <2>1
<1> QED BY <1>2, <1>3 DEF WriteRows

\* A timeout is a time, or none.
LEMMA TimeoutType ==
    ASSUME NEW d \in Int, clock \in Nat
    PROVE  Timeout(d) \in Nat \cup {Forever}
<1> DEFINE m == 2 * PollSpan
           r == d % m
<1>1. m \in Nat \ {0}
  BY PollAssumption
<1> HIDE DEF m
<1>2. r \in Nat
  BY <1>1
<1> HIDE DEF r
<1>3. Timeout(d) = IF r >= PollSpan THEN Forever ELSE clock + r
  BY DEF Timeout, r, m
<1>4. clock + r \in Nat
  BY <1>2
<1> QED BY <1>3, <1>4, Zenon

\* The handler leaves a count of bytes, or no pipe.
LEMMA ByteAddedType ==
    ASSUME NEW p \in Nat \cup {NoPipe}
    PROVE  ByteAdded(p) \in Nat \cup {NoPipe}
BY DEF ByteAdded, NoPipe

-----------------------------------------------------------------------------
(* Type correctness                                                        *)

\* The type invariant holds at first.
LEMMA InitType == Init => TypeOK
<1>1. <<>> \in Seq(Alarm)
  BY EmptySeq
<1> QED BY <1>1, TablesAssumption DEF Init, TypeOK, PCs, NoPid, NoPipe, Forever

\* (ArmedRow: the row that was armed is still there when it is notified.)
LEMMA StepType == TypeOK /\ ArmedRow /\ [Next]_vars => TypeOK'
<1> SUFFICES ASSUME TypeOK, ArmedRow, [Next]_vars PROVE TypeOK'
  OBVIOUS
<1> USE DEF TypeOK, PCs
<1>1. CASE Create
  <2>1. <<>> \in Seq(Alarm)
    BY EmptySeq
  <2>2. \A n \in pid+1..MaxStarts : n \in Nat
    BY StartsAssumption
  <2> QED BY <1>1, <2>1, <2>2 DEF Create, world, Forever, NoPipe
<1>2. CASE Crash
  BY <1>2 DEF Crash, world
<1>3. CASE OpenPidFile
  BY <1>3 DEF OpenPidFile, NoPid
<1>4. CASE WritePidFile
  BY <1>4 DEF WritePidFile
<1>5. CASE ReloadAlarms
  BY <1>5, ParseConfigType DEF ReloadAlarms, world
<1>6. CASE Purge
  <2>1. PurgePastAlarms(mem, clock) \in Seq(Alarm)
    BY PurgeLeavesFuture
  <2> QED BY <1>6, <2>1 DEF Purge, world
<1>7. CASE OpenConfig
  <2>1. <<>> \in Seq(Alarm)
    BY EmptySeq
  <2> QED BY <1>7, <2>1 DEF OpenConfig, TruncateConfig
<1>8. CASE FlushConfig
  BY <1>8, WriteRowsType DEF FlushConfig
<1>9. CASE KillSelf
  BY <1>9, ByteAddedType DEF KillSelf, world
<1>10. CASE ArmTimer
  <2>1. ASSUME NEW i \in DOMAIN mem
        PROVE  i \in Nat /\ Timeout(mem[i].ts - now) \in Nat \cup {Forever}
    <3>1. i \in Nat /\ mem[i].ts - now \in Int
      BY RowType
    <3> QED BY <3>1, TimeoutType
  <2> QED BY <1>10, <2>1 DEF ArmTimer, world
<1>11. CASE SpinWithoutAlarm
  BY <1>11 DEF SpinWithoutAlarm, world
<1>12. CASE PollEvent
  BY <1>12, PipeAssumption DEF PollEvent, world, NoPipe
<1>13. CASE PollTimeout
  BY <1>13 DEF PollTimeout, world
<1>14. CASE Wake
  BY <1>14 DEF Wake, world
<1>15. CASE NotifyDone
  <2>1. mem[next] \in Alarm /\ AdvanceRepeatAlarm(mem, next) \in Seq(Alarm)
    BY <1>15, RowType, AdvanceRepeatAlarmType DEF NotifyDone, ArmedRow
  <2>2. Append(log, mem[next]) \in Seq(Alarm)
    BY <2>1, AppendProperties
  <2> QED BY <1>15, <2>1, <2>2 DEF NotifyDone, world
<1>16. CASE Signal
  BY <1>16, ByteAddedType DEF Signal, OnReload, world
<1>17. CASE Edit
  BY <1>17, TablesAssumption DEF Edit, proc
<1>18. CASE Time
  BY <1>18 DEF Time, Tick, proc
<1>19. CASE UNCHANGED vars
  BY <1>19 DEF vars, world, proc
<1>20. CASE TakeOver
  BY <1>20, PidsAssumption DEF TakeOver, proc
<1> QED BY <1>1, <1>2, <1>3, <1>4, <1>5, <1>6, <1>7, <1>8, <1>9, <1>10, <1>11,
           <1>12, <1>13, <1>14, <1>15, <1>16, <1>17, <1>18, <1>19, <1>20
        DEF Next, DaemonStep

-----------------------------------------------------------------------------
(* Notifications in order and never early                                  *)

\* Between the purge and the arming of the timer `now` is at or after every
\* notification; from then on the armed row is after all of them; when it is
\* about to be notified its time has come.
Arming == pc = "arm" \/ (pc \in {"open", "flush", "kill"} /\ after = "arm")

IInv ==
    /\ TypeOK
    /\ LogOrdered
    /\ NeverEarly
    /\ Arming => \A i \in DOMAIN log : log[i].ts <= now
    /\ ArmedRow
    /\ pc = "notify" => mem[next].ts <= clock

\* The inductive invariant holds at first.
LEMMA InitInv == Init => IInv
<1> SUFFICES ASSUME Init PROVE IInv
  OBVIOUS
<1>1. log = <<>> /\ pc = "down" /\ DOMAIN log = {}
  BY DEF Init
<1> QED BY <1>1, InitType
        DEF IInv, LogOrdered, NeverEarly, Arming, ArmedRow

\* What a step that leaves the log, and the daemon's view of it, alone keeps.
LEMMA LogUnchanged ==
    ASSUME IInv, clock' \in Nat, clock <= clock', log' = log
    PROVE  LogOrdered' /\ NeverEarly'
<1>1. \A i \in DOMAIN log : log[i].ts \in Int /\ log[i].ts <= clock
  BY RowType DEF IInv, TypeOK, NeverEarly
<1>2. clock \in Nat
  BY DEF IInv, TypeOK
<1> QED BY <1>1, <1>2 DEF IInv, LogOrdered, NeverEarly

\* The rest of the world may move while the daemon stands still.
LEMMA WorldMoves ==
    ASSUME IInv, UNCHANGED proc, clock' \in Nat, clock <= clock',
           file' \in Seq(Alarm), pidFile' \in Nat
    PROVE  IInv'
<1>1. TypeOK'
  BY DEF IInv, TypeOK, proc
<1>2. LogOrdered' /\ NeverEarly'
  BY LogUnchanged DEF proc
<1>3. ASSUME pc = "notify" PROVE mem[next].ts <= clock'
  <2>1. mem \in Seq(Alarm) /\ next \in DOMAIN mem /\ clock \in Nat
    BY <1>3 DEF IInv, TypeOK, ArmedRow
  <2>2. mem[next].ts \in Int /\ mem[next].ts <= clock
    BY <1>3, <2>1, RowType DEF IInv
  <2> QED BY <2>1, <2>2
<1> QED BY <1>1, <1>2, <1>3 DEF IInv, Arming, ArmedRow, proc

\* A signal may come at any time.
LEMMA SignalArrives ==
    ASSUME IInv, OnReload, UNCHANGED world,
           UNCHANGED <<after, pid, mem, now, next, deadline, log>>
    PROVE  IInv'
<1>1. TypeOK'
  BY ByteAddedType DEF IInv, TypeOK, PCs, OnReload, world
<1> QED BY <1>1 DEF IInv, OnReload, LogOrdered, NeverEarly, Arming, ArmedRow, world

\* Every step of the daemon and of its environment keeps the invariant.
LEMMA StepInv == IInv /\ [Next]_vars => IInv'
<1> SUFFICES ASSUME IInv, [Next]_vars PROVE IInv'
  OBVIOUS
<1>1. TypeOK'
  BY StepType DEF IInv
<1>2. clock \in Nat /\ clock' \in Nat /\ mem \in Seq(Alarm) /\ log \in Seq(Alarm)
  BY <1>1 DEF IInv, TypeOK
<1>3. \A i \in DOMAIN log : log[i].ts \in Int /\ log[i].ts <= clock
  BY <1>2, RowType DEF IInv, NeverEarly
<1> DEFINE Rest == /\ Arming => \A i \in DOMAIN log : log[i].ts <= now
                   /\ ArmedRow
                   /\ pc = "notify" => mem[next].ts <= clock
<1>4. Rest
  BY DEF IInv
\* It is enough to look at the log, unless the step leaves it alone.
<1>5. ASSUME log' = log, clock <= clock', Rest' PROVE IInv'
  BY <1>1, <1>5, LogUnchanged DEF IInv, TypeOK
<1>6. clock <= clock
  BY <1>2
<1> USE DEF Arming, ArmedRow
<1>7. CASE Create
  BY <1>5, <1>6, <1>7 DEF Create, world
<1>8. CASE Crash
  BY <1>5, <1>6, <1>8 DEF Crash, world
<1>9. CASE OpenPidFile
  BY <1>5, <1>6, <1>9 DEF OpenPidFile
<1>10. CASE WritePidFile
  BY <1>5, <1>6, <1>10 DEF WritePidFile
<1>11. CASE ReloadAlarms
  BY <1>5, <1>6, <1>11 DEF ReloadAlarms, world
<1>12. CASE Purge
  BY <1>3, <1>5, <1>6, <1>12 DEF Purge, world
<1>13. CASE OpenConfig
  BY <1>4, <1>5, <1>6, <1>13 DEF OpenConfig
<1>14. CASE FlushConfig
  BY <1>4, <1>5, <1>6, <1>14 DEF FlushConfig
<1>15. CASE KillSelf
  BY <1>4, <1>5, <1>6, <1>15 DEF KillSelf, world, IInv, TypeOK
<1>16. CASE ArmTimer
  <2>1. PICK i \in DOMAIN mem : IsNextAlarm(mem, now, i) /\ next' = i
    BY <1>16 DEF ArmTimer
  <2>2. /\ pc = "arm" /\ pc' = "poll"
        /\ UNCHANGED <<world, after, pid, mem, now, pipe, log>>
    BY <1>16 DEF ArmTimer
  <2>3. mem[i].ts \in Int /\ mem[i].ts > now /\ now \in Int
    BY <1>2, <2>1, RowType DEF IsNextAlarm, Future, IInv, TypeOK
  <2>4. \A k \in DOMAIN log : log[k].ts < mem[i].ts
    BY <1>3, <1>4, <2>2, <2>3
  <2> QED BY <1>5, <1>6, <2>1, <2>2, <2>4 DEF world
<1>17. CASE SpinWithoutAlarm
  BY <1>5, <1>6, <1>17 DEF SpinWithoutAlarm, world
<1>18. CASE PollEvent
  BY <1>5, <1>6, <1>18 DEF PollEvent, world
<1>19. CASE PollTimeout
  BY <1>4, <1>5, <1>6, <1>19 DEF PollTimeout, world
<1>20. CASE Wake
  BY <1>4, <1>5, <1>6, <1>20 DEF Wake, world
<1>21. CASE NotifyDone
  <2>1. Rest'
    BY <1>21 DEF NotifyDone
  <2>2. CASE log' = log
    BY <1>5, <1>6, <1>21, <2>1, <2>2 DEF NotifyDone, world
  <2>3. CASE log' = Append(log, mem[next])
    <3>1. /\ next \in DOMAIN mem /\ mem[next] \in Alarm
          /\ mem[next].ts <= clock /\ clock' = clock
          /\ \A i \in DOMAIN log : log[i].ts < mem[next].ts
      BY <1>2, <1>4, <1>21, RowType DEF NotifyDone, world
    <3>2. /\ Len(log) \in Nat /\ DOMAIN log = 1..Len(log)
          /\ DOMAIN log' = 1..Len(log)+1
          /\ \A i \in 1..Len(log) : log'[i] = log[i]
          /\ log'[Len(log)+1] = mem[next]
      <4>1. log' \in Seq(Alarm) /\ Len(log') = Len(log) + 1
        BY <1>2, <2>3, <3>1, AppendProperties
      <4> QED BY <1>2, <2>3, <3>1, <4>1, AppendProperties, LenProperties
    <3>3. LogOrdered'
      <4> SUFFICES ASSUME NEW i \in DOMAIN log', NEW j \in DOMAIN log', i < j
                   PROVE  log'[i].ts < log'[j].ts
        BY DEF LogOrdered
      <4>1. i \in DOMAIN log /\ log'[i] = log[i]
        BY <3>2
      <4>2. CASE j = Len(log) + 1
        BY <3>1, <3>2, <4>1, <4>2
      <4>3. CASE j # Len(log) + 1
        BY <3>2, <4>1, <4>3 DEF IInv, LogOrdered
      <4> QED BY <4>2, <4>3
    <3>4. NeverEarly'
      <4> SUFFICES ASSUME NEW i \in DOMAIN log' PROVE log'[i].ts <= clock'
        BY DEF NeverEarly
      <4>1. CASE i = Len(log) + 1
        BY <3>1, <3>2, <4>1
      <4>2. CASE i # Len(log) + 1
        BY <1>3, <3>1, <3>2, <4>2
      <4> QED BY <4>1, <4>2
    <3> QED BY <1>1, <2>1, <3>3, <3>4 DEF IInv
  <2> QED BY <1>21, <2>2, <2>3 DEF NotifyDone
<1>22. CASE Signal
  BY <1>22, SignalArrives DEF Signal
<1>23. CASE Edit \/ TakeOver
  <2>1. UNCHANGED <<clock, proc>>
    BY <1>23 DEF Edit, TakeOver
  <2> QED BY <1>1, <1>6, <2>1, WorldMoves DEF TypeOK
<1>24. CASE Time
  <2>1. clock' = clock + 1 /\ UNCHANGED proc
    BY <1>24 DEF Time, Tick
  <2>2. clock <= clock'
    BY <1>2, <2>1
  <2> QED BY <1>1, <2>1, <2>2, WorldMoves DEF TypeOK
<1>25. CASE UNCHANGED vars
  BY <1>4, <1>5, <1>6, <1>25 DEF vars, world, proc
<1> QED BY <1>7, <1>8, <1>9, <1>10, <1>11, <1>12, <1>13, <1>14, <1>15, <1>16,
           <1>17, <1>18, <1>19, <1>20, <1>21, <1>22, <1>23, <1>24, <1>25
        DEF Next, DaemonStep

-----------------------------------------------------------------------------
(* What the daemon knows of the file                                       *)

\* The daemon may go to sleep without another look at the file.
Settled == pc \in {"purge", "arm", "poll"} /\ pipe = 0 /\ pidFile = pid

\* By a step of its own it comes to that only if it has just read the file, or
\* neither the file nor its table changes: it signals itself when it has
\* written.
LEMMA SettlesWithTable ==
    ASSUME TypeOK, Create \/ Crash \/ DaemonStep, Settled'
    PROVE  \/ mem' = ParseConfig(file')
           \/ Settled /\ UNCHANGED <<mem, file>>
<1> USE DEF Settled, world
<1>1. CASE ReloadAlarms
  <2>1. mem' = ParseConfig(file')
    BY <1>1 DEF ReloadAlarms, ParseConfig
  <2> QED BY <2>1
<1>2. CASE Purge
  BY <1>2 DEF Purge, PurgePastAlarms
<1>3. CASE KillSelf
  <2>1. pidFile = pid /\ pipe' = ByteAdded(pipe)
    BY <1>3 DEF KillSelf
  <2>2. pipe' # 0
    BY <2>1, PipeAssumption DEF ByteAdded, NoPipe, TypeOK
  <2> QED BY <2>2
<1>4. CASE ArmTimer \/ SpinWithoutAlarm
  BY <1>4 DEF ArmTimer, SpinWithoutAlarm
<1>5. CASE \/ Create \/ Crash \/ OpenPidFile \/ WritePidFile \/ OpenConfig
           \/ FlushConfig \/ PollEvent \/ PollTimeout \/ Wake \/ NotifyDone
  <2>1. pc' \notin {"purge", "arm", "poll"}
    BY <1>5 DEF Create, Crash, OpenPidFile, WritePidFile, OpenConfig,
                FlushConfig, PollEvent, PollTimeout, Wake, NotifyDone
  <2> QED BY <2>1
<1> QED BY <1>1, <1>2, <1>3, <1>4, <1>5 DEF DaemonStep

\* After a signal the pipe is not empty.
LEMMA SignalIsHeard ==
    ASSUME TypeOK, OnReload
    PROVE  ~ Settled'
<1>1. pipe' # 0
  BY PipeAssumption DEF OnReload, ByteAdded, NoPipe, TypeOK
<1> QED BY <1>1 DEF Settled

-----------------------------------------------------------------------------
(* What another process sees of a step of the daemon                       *)

\* One step changes the alarm file or the pid file, and never the clock.
LEMMA OneFileAtATime ==
    ASSUME Create \/ Crash \/ DaemonStep
    PROVE  clock' = clock /\ (file' = file \/ pidFile' = pidFile)
BY DEF Create, Crash, DaemonStep, OpenPidFile, WritePidFile, ReloadAlarms, Purge,
       OpenConfig, FlushConfig, KillSelf, ArmTimer, SpinWithoutAlarm, PollEvent,
       PollTimeout, Wake, NotifyDone, world

\* Only a start gives it another process id.
LEMMA PidStays ==
    ASSUME Create \/ Crash \/ DaemonStep
    PROVE  \/ Create
           \/ pid' = pid /\ (pc' # "down" => pc # "down")
BY DEF Crash, DaemonStep, OpenPidFile, WritePidFile, ReloadAlarms, Purge,
       OpenConfig, FlushConfig, KillSelf, ArmTimer, SpinWithoutAlarm, PollEvent,
       PollTimeout, Wake, NotifyDone

\* The daemon may have changed the file and has not signalled yet, or not yet
\* entered its pid.
Midway == pc \in {"flush", "kill", "down", "pidopen"}

\* It gets out of that by its signal, or by emptying the pid file; otherwise
\* it leaves the file alone.
LEMMA ComesOut ==
    ASSUME "pidfile" \notin Faults, ~ Midway',
           Create \/ Crash \/ (pc # "kill" /\ DaemonStep)
    PROVE  \/ pidFile' = NoPid
           \/ ~ Midway /\ UNCHANGED file /\ pidFile' \in {pidFile, pid}
<1> USE DEF Midway, world
<1>1. CASE Create \/ Crash \/ OpenConfig \/ FlushConfig \/ KillSelf
  BY <1>1 DEF Create, Crash, OpenConfig, FlushConfig, KillSelf
<1>2. CASE OpenPidFile \/ WritePidFile
  BY <1>2 DEF OpenPidFile, WritePidFile
<1>3. CASE \/ ReloadAlarms \/ Purge \/ ArmTimer \/ SpinWithoutAlarm
           \/ PollEvent \/ PollTimeout \/ Wake \/ NotifyDone
  BY <1>3 DEF ReloadAlarms, Purge, ArmTimer, SpinWithoutAlarm, PollEvent,
              PollTimeout, Wake, NotifyDone
<1> QED BY <1>1, <1>2, <1>3 DEF DaemonStep

-----------------------------------------------------------------------------
(* The theorems                                                            *)

\* The invariant holds throughout.
LEMMA Invariance == Spec => []IInv
<1>1. Init => IInv
  BY InitInv
<1>2. IInv /\ [Next]_vars => IInv'
  BY StepInv
<1> QED BY <1>1, <1>2, PTL DEF Spec

\* Every variable of the daemon keeps its type.
THEOREM TypeCorrect == Spec => []TypeOK
<1>1. IInv => TypeOK
  BY DEF IInv
<1> QED BY <1>1, Invariance, PTL

\* Notifications come in the strict order of their times: no time is ever
\* notified twice, whatever the other processes and the faults do.
THEOREM NotificationsInOrder == Spec => []LogOrdered
<1>1. IInv => LogOrdered
  BY DEF IInv
<1> QED BY <1>1, Invariance, PTL

\* No notification comes before its time.
THEOREM NotificationsNeverEarly == Spec => []NeverEarly
<1>1. IInv => NeverEarly
  BY DEF IInv
<1> QED BY <1>1, Invariance, PTL

\* The row the timer is armed for exists and is after everything notified.
THEOREM ArmedRowIsLater == Spec => []ArmedRow
<1>1. IInv => ArmedRow
  BY DEF IInv
<1> QED BY <1>1, Invariance, PTL

-----------------------------------------------------------------------------
(* The daemon implements the abstract notifier                             *)

\* Every step is a step of the notifier, or leaves clock and log alone.
LEMMA StepImplements == IInv /\ [Next]_vars => [N!Next]_<<clock, log>>
<1> SUFFICES ASSUME IInv, [Next]_vars PROVE [N!Next]_<<clock, log>>
  OBVIOUS
<1>1. CASE NotifyDone
  <2>1. UNCHANGED clock
    BY <1>1 DEF NotifyDone, world
  <2>2. CASE log' = log
    BY <2>1, <2>2
  <2>3. CASE log' = Append(log, mem[next])
    <3>1. /\ log \in Seq(Alarm) /\ mem[next] \in Alarm /\ mem[next].ts <= clock
          /\ \A i \in DOMAIN log : log[i].ts < mem[next].ts
      BY <1>1, RowType DEF NotifyDone, IInv, TypeOK, ArmedRow
    <3>2. Len(log') = Len(log) + 1 /\ log'[Len(log) + 1] = mem[next]
      BY <2>3, <3>1, AppendProperties
    <3>3. log'[Len(log')] = mem[next]
      BY <3>2
    <3>4. N!MayFollow(log'[Len(log')])
      BY <3>1, <3>3 DEF N!MayFollow
    <3> QED BY <2>1, <2>3, <3>2, <3>3, <3>4 DEF N!Next, N!Notify
  <2> QED BY <1>1, <2>2, <2>3 DEF NotifyDone
<1>2. CASE Time
  BY <1>2 DEF Time, Tick, proc, N!Next, N!Tick
<1>3. CASE ~ NotifyDone /\ ~ Time
  <2>1. UNCHANGED <<clock, log>>
    BY <1>3 DEF Next, DaemonStep, Create, Crash, OpenPidFile, WritePidFile,
                ReloadAlarms, Purge, OpenConfig, FlushConfig, KillSelf,
                ArmTimer, SpinWithoutAlarm, PollEvent, PollTimeout, Wake,
                Signal, Edit, TakeOver, world, proc, vars
  <2> QED BY <2>1
<1> QED BY <1>1, <1>2, <1>3

\* Every behaviour of the daemon is one of the abstract notifier.
THEOREM DaemonImplementsNotifier == Spec => ImplementsNotifier
<1>1. Init => N!Init
  BY DEF Init, N!Init
<1>2. IInv /\ [Next]_vars => [N!Next]_<<clock, log>>
  BY StepImplements
<1> QED BY <1>1, <1>2, Invariance, PTL DEF Spec, ImplementsNotifier, N!Spec
=============================================================================
