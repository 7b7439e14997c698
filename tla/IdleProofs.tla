----------------------------- MODULE IdleProofs -----------------------------
(***************************************************************************)
(* What holds when the daemon's steps take no time (Prompt), and on an     *)
(* idle machine (Prompt and Calm): the daemon does not oversleep, every    *)
(* notification is on time, and nothing is purged that was not notified.   *)
(***************************************************************************)
EXTENDS TodoxProofs

-----------------------------------------------------------------------------
(* A prompt daemon does not oversleep                                      *)

\* No row is so far ahead that the time until then is no int of milliseconds.
Near(lst) == \A r \in ToSet(lst) : r.ts < clock + PollSpan

\* `now` is the time while the daemon is between its purge and its sleep, if
\* there is something to sleep for; then the deadline is the time of the armed
\* row, and that time does not go by before the row is notified.
PInv ==
    /\ Near(mem)
    /\ Arming /\ Future(mem, now) # {} => now = clock
    /\ pc = "poll" => deadline = mem[next].ts
    /\ pc \in {"poll", "wake", "notify"} => clock <= mem[next].ts

\* A timeout that fits is the time that was asked for.
LEMMA TimeoutFits ==
    ASSUME NEW d \in Int, 0 <= d, d < PollSpan
    PROVE  Timeout(d) = clock + d
<1>1. PollSpan \in Nat /\ 2 * PollSpan > 0 /\ d < 2 * PollSpan
  BY PollAssumption
<1>2. d % (2 * PollSpan) = d
  BY <1>1
<1> QED BY <1>1, <1>2 DEF Timeout

\* Rows stay near as the clock goes on.
LEMMA NearLater ==
    ASSUME NEW lst \in Seq(Alarm), Near(lst), clock \in Nat, clock' \in Nat,
           clock <= clock'
    PROVE  Near(lst)'
<1>1. ASSUME NEW r \in ToSet(lst) PROVE r.ts < clock' + PollSpan
  <2>1. r.ts \in Int /\ r.ts < clock + PollSpan
    BY RowType DEF Near, ToSet
  <2> QED BY <2>1, PollAssumption
<1> QED BY <1>1 DEF Near

\* What a week from now is, is near.
LEMMA PurgeNear ==
    ASSUME Week < PollSpan, NEW lst \in Seq(Alarm), Near(lst), clock \in Nat
    PROVE  Near(PurgePastAlarms(lst, clock))
<1> SUFFICES ASSUME NEW r \in ToSet(PurgePastAlarms(lst, clock))
             PROVE  r.ts < clock + PollSpan
  BY DEF Near
<1>1. CASE r \in ToSet(lst)
  BY <1>1 DEF Near
<1>2. ASSUME NEW o \in Alarm, o.ts <= clock,
             r = [o EXCEPT !.ts = AdvanceRepeatToFuture(o.ts, clock)]
      PROVE  r.ts < clock + PollSpan
  <2> DEFINE u == AdvanceRepeatToFuture(o.ts, clock)
  <2>1. o.ts \in Int
    BY DEF Alarm
  <2>2. u \in Int /\ u - Week <= clock
    BY <1>2, <2>1, AdvanceIsNextOccurrence
  <2>3. r.ts = u
    BY <1>2, <2>2, MovedRow
  <2> HIDE DEF u
  <2> QED BY <2>2, <2>3, WeekAssumption, PollAssumption
<1> QED BY <1>1, <1>2, PurgeRows

\* A step of the daemon keeps the time it sleeps for.
LEMMA DaemonKeepsTime ==
    ASSUME Week < PollSpan, IInv, PInv, Near(file),
           Create \/ Crash \/ DaemonStep
    PROVE  PInv'
<1>1. /\ clock \in Nat /\ clock' = clock /\ now \in Nat
      /\ mem \in Seq(Alarm) /\ file \in Seq(Alarm)
  BY DEF IInv, TypeOK, Create, Crash, DaemonStep, OpenPidFile, WritePidFile,
         ReloadAlarms, Purge, OpenConfig, FlushConfig, KillSelf, ArmTimer,
         SpinWithoutAlarm, PollEvent, PollTimeout, Wake, NotifyDone, world
<1>2. Near(mem)
  BY DEF PInv
<1>3. CASE Create
  <2>1. Near(<<>>)'
    BY DEF Near, ToSet
  <2> QED BY <1>3, <2>1 DEF Create, PInv, Arming, Near
<1>4. CASE Crash
  BY <1>1, <1>2, <1>4 DEF Crash, PInv, Arming, Near
<1>5. CASE OpenPidFile \/ WritePidFile
  BY <1>1, <1>2, <1>5 DEF OpenPidFile, WritePidFile, PInv, Arming, Near
<1>6. CASE ReloadAlarms
  <2>1. Near(ParseConfig(file))
    BY <1>1, ParseConfigRows DEF Near
  <2> QED BY <1>1, <1>6, <2>1 DEF ReloadAlarms, PInv, Arming, Near
<1>7. CASE Purge
  <2>1. Near(PurgePastAlarms(mem, clock))
    BY <1>1, <1>2, PurgeNear
  <2> QED BY <1>1, <1>7, <2>1 DEF Purge, PInv, Arming, Near
<1>8. CASE OpenConfig \/ FlushConfig \/ KillSelf
  BY <1>1, <1>2, <1>8 DEF OpenConfig, FlushConfig, KillSelf, PInv, Arming, Near,
                          IInv, TypeOK
<1>9. CASE ArmTimer
  <2>1. PICK i \in DOMAIN mem : /\ IsNextAlarm(mem, now, i)
                                /\ next' = i
                                /\ deadline' = Timeout(mem[i].ts - now)
    BY <1>9 DEF ArmTimer
  <2>2. pc = "arm" /\ pc' = "poll" /\ mem' = mem
    BY <1>9 DEF ArmTimer
  <2>3. mem[i].ts \in Int /\ mem[i].ts > now /\ i \in Future(mem, now)
    BY <1>1, <2>1, RowType DEF IsNextAlarm, Future
  <2>4. now = clock
    BY <2>2, <2>3 DEF PInv, Arming
  <2>5. mem[i].ts < clock + PollSpan
    BY <1>2 DEF Near, ToSet
  <2>6. Timeout(mem[i].ts - now) = clock + (mem[i].ts - now)
    <3>1. mem[i].ts - now \in Int /\ 0 <= mem[i].ts - now /\ mem[i].ts - now < PollSpan
      BY <1>1, <2>3, <2>4, <2>5, PollAssumption
    <3> QED BY <3>1, TimeoutFits
  <2>7. deadline' = mem[i].ts /\ clock <= mem[i].ts
    BY <1>1, <2>1, <2>3, <2>4, <2>6
  <2> QED BY <1>1, <1>2, <2>1, <2>2, <2>7 DEF PInv, Arming, Near
<1>10. CASE SpinWithoutAlarm \/ PollEvent \/ PollTimeout
  BY <1>1, <1>2, <1>10
     DEF SpinWithoutAlarm, PollEvent, PollTimeout, PInv, Arming, Near
<1>11. CASE Wake
  BY <1>1, <1>2, <1>11 DEF Wake, PInv, Arming, Near
<1>12. CASE NotifyDone
  <2>1. next \in DOMAIN mem /\ mem[next].ts <= clock
    BY <1>12 DEF NotifyDone, IInv, ArmedRow
  <2>2. mem[next] \in Alarm /\ mem[next].ts \in Int
    BY <1>1, <2>1, RowType
  <2>3. Near(AdvanceRepeatAlarm(mem, next))
    <3> DEFINE moved == [mem[next] EXCEPT !.ts = mem[next].ts + Week]
    <3>1. ToSet(AdvanceRepeatAlarm(mem, next)) \subseteq ToSet(mem) \cup {moved}
      BY <1>1, <2>1, AdvanceRows
    <3>2. mem[next].ts + Week \in Int /\ mem[next].ts + Week < clock + PollSpan
      BY <1>1, <2>1, <2>2, WeekAssumption, PollAssumption
    <3>3. moved.ts < clock + PollSpan
      BY <2>2, <3>2, MovedRow
    <3> HIDE DEF moved
    <3> QED BY <1>2, <3>1, <3>3 DEF Near
  <2>4. Near(mem')
    BY <1>2, <1>12, <2>3 DEF NotifyDone
  <2>5. pc' \in {"open", "reload"} /\ (pc' = "open" => after' = "reload")
    BY <1>12 DEF NotifyDone
  <2> QED BY <1>1, <2>4, <2>5 DEF PInv, Arming, Near
<1> QED BY <1>3, <1>4, <1>5, <1>6, <1>7, <1>8, <1>9, <1>10, <1>11, <1>12
        DEF DaemonStep

\* A signal leaves it, also when it ends the sleep.
LEMMA SignalKeepsTime ==
    ASSUME PInv, OnReload, UNCHANGED <<clock, after, mem, now, next, deadline>>
    PROVE  PInv'
BY DEF PInv, OnReload, Arming, Near

\* The clock goes on only while the daemon sleeps, and not past its deadline.
LEMMA TimeKeepsTime ==
    ASSUME Prompt, IInv, PInv, Time
    PROVE  PInv'
<1>1. /\ clock \in Nat /\ clock' = clock + 1 /\ UNCHANGED proc /\ ~ Busy
      /\ mem \in Seq(Alarm) /\ pc \in PCs
  BY DEF Time, Tick, IInv, TypeOK
<1>2. Near(mem)'
  <2>1. clock' \in Nat /\ clock <= clock'
    BY <1>1
  <2>2. Near(mem)
    BY DEF PInv
  <2> QED BY <1>1, <2>1, <2>2, NearLater DEF Near, proc
<1>3. pc \in {"down", "arm", "poll"}
  BY <1>1 DEF Busy
<1>4. ~ (Arming /\ Future(mem, now) # {})
  BY <1>1, <1>3 DEF Busy, Arming
<1>5. pc = "poll" => clock' <= mem[next].ts
  <2>1. SUFFICES ASSUME pc = "poll" PROVE clock + 1 <= mem[next].ts
    BY <1>1
  <2>2. mem[next].ts \in Int /\ deadline = mem[next].ts /\ clock <= deadline
    BY <1>1, <2>1, RowType DEF PInv, IInv, ArmedRow
  <2>3. deadline # Forever /\ ~ (clock >= deadline)
    BY <1>1, <2>1, <2>2 DEF Busy, Forever
  <2> QED BY <1>1, <2>2, <2>3
<1> QED BY <1>1, <1>2, <1>3, <1>4, <1>5 DEF PInv, Arming, proc

\* What the daemon leaves in the file is near.
LEMMA DaemonKeepsNear ==
    ASSUME IInv, PInv, Near(file), Create \/ Crash \/ DaemonStep
    PROVE  Near(file)'
<1>1. /\ clock' = clock /\ mem \in Seq(Alarm) /\ file \in Seq(Alarm)
  BY DEF IInv, TypeOK, Create, Crash, DaemonStep, OpenPidFile, WritePidFile,
         ReloadAlarms, Purge, OpenConfig, FlushConfig, KillSelf, ArmTimer,
         SpinWithoutAlarm, PollEvent, PollTimeout, Wake, NotifyDone, world
<1>2. CASE OpenConfig
  BY <1>1, <1>2 DEF OpenConfig, TruncateConfig, Near, ToSet
<1>3. CASE FlushConfig
  BY <1>1, <1>3, WriteRowsRows DEF FlushConfig, Near, PInv
<1>4. CASE ~ OpenConfig /\ ~ FlushConfig
  <2>1. file' = file
    BY <1>4 DEF Create, Crash, DaemonStep, OpenPidFile, WritePidFile,
         ReloadAlarms, Purge, KillSelf, ArmTimer,
         SpinWithoutAlarm, PollEvent, PollTimeout, Wake, NotifyDone, world
  <2> QED BY <1>1, <2>1 DEF Near
<1> QED BY <1>2, <1>3, <1>4

\* Nothing that others put in the file is too far ahead.
SoonEdits == \A f \in InitTables \cup Edits : \A r \in ToSet(f) : r.ts < PollSpan

\* The daemon and its environment keep it.
LEMMA PromptStep ==
    ASSUME Prompt, Week < PollSpan, SoonEdits
    PROVE  IInv /\ PInv /\ Near(file) /\ [Next]_vars => PInv' /\ Near(file)'
<1> SUFFICES ASSUME IInv, PInv, Near(file), [Next]_vars
             PROVE  PInv' /\ Near(file)'
  OBVIOUS
<1>1. clock \in Nat /\ file \in Seq(Alarm)
  BY DEF IInv, TypeOK
<1>2. CASE Create \/ Crash \/ DaemonStep
  BY <1>2, DaemonKeepsTime, DaemonKeepsNear
<1>3. CASE Signal
  BY <1>3, SignalKeepsTime DEF Signal, world, Near
<1>4. CASE Edit
  <2>1. Near(file)'
    <3>1. SUFFICES ASSUME NEW r \in ToSet(file') PROVE r.ts < clock + PollSpan
      BY <1>4 DEF Near, Edit
    <3>2. file' \in Seq(Alarm) /\ r.ts < PollSpan
      BY <1>4, TablesAssumption DEF Edit, SoonEdits
    <3>3. r.ts \in Int
      BY <3>2, RowType DEF ToSet
    <3> QED BY <1>1, <3>2, <3>3, PollAssumption
  <2> QED BY <1>4, <2>1 DEF Edit, proc, PInv, Arming, Near
<1>5. CASE TakeOver \/ UNCHANGED vars
  BY <1>5 DEF TakeOver, vars, world, proc, PInv, Arming, Near
<1>6. CASE Time
  <2>1. file' = file /\ clock' \in Nat /\ clock <= clock'
    BY <1>1, <1>6 DEF Time, Tick
  <2>2. Near(file)'
    BY <1>1, <2>1, NearLater DEF Near
  <2> QED BY <1>6, <2>2, TimeKeepsTime
<1> QED BY <1>2, <1>3, <1>4, <1>5, <1>6 DEF Next

\* At first nothing is armed, and the file holds nothing that is too far ahead.
LEMMA PromptInit ==
    ASSUME \A f \in InitTables : \A r \in ToSet(f) : r.ts < PollSpan
    PROVE  Init => PInv /\ Near(file)
<1> SUFFICES ASSUME Init PROVE PInv /\ Near(file)
  OBVIOUS
<1>1. clock + PollSpan = PollSpan /\ pc = "down" /\ mem = <<>> /\ file \in InitTables
  BY PollAssumption DEF Init
<1> QED BY <1>1 DEF PInv, Arming, Near, ToSet

\* The row that is notified is due that very moment.
LEMMA NotifiesAtTheTime ==
    ASSUME IInv, PInv, NotifyDone
    PROVE  log' # log => log'[Len(log')].ts = clock
<1>1. SUFFICES ASSUME log' # log PROVE log'[Len(log')].ts = clock
  OBVIOUS
<1>2. /\ log \in Seq(Alarm) /\ mem \in Seq(Alarm) /\ clock \in Nat /\ next \in DOMAIN mem
      /\ mem[next].ts <= clock /\ clock <= mem[next].ts
      /\ log' = Append(log, mem[next])
  BY <1>1 DEF NotifyDone, IInv, TypeOK, ArmedRow, PInv
<1>3. mem[next] \in Alarm /\ mem[next].ts \in Int
  BY <1>2, RowType
<1>4. log'[Len(log')] = mem[next]
  BY <1>2, <1>3, AppendProperties
<1> QED BY <1>2, <1>3, <1>4

\* A daemon whose steps take no time does not sleep past the alarm it armed,
\* whatever is edited, signalled or fails, as long as no alarm is further
\* ahead than a timeout can say.
THEOREM DaemonNeverOversleeps ==
    ASSUME Prompt, Week < PollSpan, SoonEdits
    PROVE  Spec => []NeverOversleeps
<1>1. Init => PInv /\ Near(file)
  BY PromptInit DEF SoonEdits
<1>2. IInv /\ PInv /\ Near(file) /\ [Next]_vars => PInv' /\ Near(file)'
  BY PromptStep
<1>3. PInv => NeverOversleeps
  BY DEF PInv, NeverOversleeps
<1> QED BY <1>1, <1>2, <1>3, Invariance, PTL DEF Spec

\* Each of its notifications comes in the very clock unit of its alarm.
THEOREM DaemonNotifiesOnTime ==
    ASSUME Prompt, Week < PollSpan, SoonEdits
    PROVE  Spec => NotifiedOnTime
<1>1. Init => PInv /\ Near(file)
  BY PromptInit DEF SoonEdits
<1>2. IInv /\ PInv /\ Near(file) /\ [Next]_vars => PInv' /\ Near(file)'
  BY PromptStep
<1>3. IInv /\ PInv /\ [Next]_vars => [log' # log => log'[Len(log')].ts = clock]_vars
  <2> SUFFICES ASSUME IInv, PInv, Next PROVE log' # log => log'[Len(log')].ts = clock
    OBVIOUS
  <2>1. CASE NotifyDone
    BY <2>1, NotifiesAtTheTime
  <2>2. CASE ~ NotifyDone
    BY <2>2 DEF Next, DaemonStep, Create, Crash, OpenPidFile, WritePidFile,
                ReloadAlarms, Purge, OpenConfig, FlushConfig, KillSelf,
                ArmTimer, SpinWithoutAlarm, PollEvent, PollTimeout, Wake,
                Signal, Edit, TakeOver, Time, proc
  <2> QED BY <2>1, <2>2
<1> QED BY <1>1, <1>2, <1>3, Invariance, PTL DEF Spec, NotifiedOnTime

-----------------------------------------------------------------------------
(* The same for the daemon among the commands                              *)

SoonTables   == \A f \in InitTables : \A r \in ToSet(f) : r.ts < PollSpan
SoonCommands == \A cmd \in Commands :
                   \A i \in DOMAIN cmd.times : cmd.times[i] < PollSpan

SInv == PInv /\ Near(file) /\ \A c \in Clients : Near(ctab[c])

\* The rows an add brings are near.
LEMMA ItemsNear ==
    ASSUME Week < PollSpan, SoonCommands, clock \in Nat, NEW cmd \in Commands
    PROVE  Near(Items(cmd, clock))
<1>1. cmd \in Command /\ Items(cmd, clock) \in Seq(Alarm)
  BY CommandsAssumption, ItemsType
<1>2. cmd.times \in Seq(Int) /\ DOMAIN Items(cmd, clock) = DOMAIN cmd.times
  BY <1>1 DEF Command, Items
<1>3. ASSUME NEW i \in DOMAIN cmd.times
      PROVE  Items(cmd, clock)[i].ts < clock + PollSpan
  <2> DEFINE t == cmd.times[i]
             u == AdvanceRepeatToFuture(t, clock)
  <2>1. t \in Int /\ t < PollSpan /\ clock \in Int
    BY <1>2, LenProperties, ElementOfSeq DEF SoonCommands
  <2>2. Items(cmd, clock)[i].ts = IF cmd.op = "weekly" THEN u ELSE t
    BY DEF Items, NextWeekdayTimestamp
  <2> HIDE DEF t, u
  <2>3. u \in Int /\ (t <= clock => u - Week <= clock)
    BY <2>1, AdvanceIsNextOccurrence DEF u
  <2>4. ~ (t <= clock) => u = t
    BY DEF AdvanceRepeatToFuture, u
  <2>5. t < clock + PollSpan /\ u < clock + PollSpan
    BY <2>1, <2>3, <2>4, PollAssumption, WeekAssumption
  <2> QED BY <2>2, <2>5
<1> QED BY <1>2, <1>3 DEF Near, ToSet

\* What a command is about to write is near.
LEMMA ChangedNear ==
    ASSUME Week < PollSpan, SoonCommands, clock \in Nat, file \in Seq(Alarm),
           Near(file), NEW cmd \in Commands
    PROVE  Near(Changed(ParseConfig(file), cmd, clock))
<1> DEFINE lst == ParseConfig(file)
<1>1. lst \in Seq(Alarm) /\ Near(lst)
  BY ParseConfigType, ParseConfigRows DEF Near
<1>2. Items(cmd, clock) \in Seq(Alarm) /\ Near(Items(cmd, clock))
  BY CommandsAssumption, ItemsType, ItemsNear
<1> HIDE DEF lst
<1>3. CASE cmd.op = "remove"
  BY <1>1, <1>3, TaskRemoveAllRows DEF Changed, lst, Near
<1>4. CASE cmd.op # "remove"
  BY <1>1, <1>2, <1>4, PushAllRows DEF Changed, lst, Near
<1> QED BY <1>3, <1>4

\* A command moves no alarm out of reach.
LEMMA CommandKeepsNear ==
    ASSUME Week < PollSpan, SoonCommands, TInv, SInv,
           NEW c \in Clients, CommandMoves(c) \/ KillDaemon(c)
    PROVE  Near(file)' /\ \A k \in Clients : Near(ctab[k])'
<1>1. /\ file \in Seq(Alarm) /\ clock \in Nat /\ clock' = clock
      /\ ctab \in [Clients -> Seq(Alarm)]
  BY DEF TInv, IInv, TypeOK, CInv, CliTypeOK, CommandMoves, KillDaemon, Begin,
         Open, Flush, Interrupt, Kill, world
<1>2. Near(file) /\ \A k \in Clients : Near(ctab[k])
  BY DEF SInv
<1>3. Near(<<>>)
  BY DEF Near, ToSet
<1>4. SUFFICES Near(file') /\ \A k \in Clients : Near(ctab'[k])
  BY <1>1 DEF Near
<1>5. CASE Begin(c)
  <2>1. PICK cmd \in Commands : Invoke(c, cmd)
    BY <1>5 DEF Begin
  <2>2. \/ ctab' = ctab
        \/ ctab' = [ctab EXCEPT ![c] = Changed(ParseConfig(file), cmd, clock)]
    BY <2>1 DEF Invoke
  <2>3. Near(Changed(ParseConfig(file), cmd, clock))
    BY <1>1, <1>2, ChangedNear
  <2>4. UNCHANGED file
    BY <1>5 DEF Begin, world
  <2> QED BY <1>1, <1>2, <2>2, <2>3, <2>4
<1>6. CASE Open(c)
  BY <1>2, <1>3, <1>6 DEF Open, TruncateConfig
<1>7. CASE Flush(c)
  BY <1>1, <1>2, <1>7, WriteRowsRows DEF Flush, Near
<1>8. CASE Interrupt(c) \/ Kill(c)
  <2>1. UNCHANGED file /\ ctab' = [ctab EXCEPT ![c] = <<>>]
    BY <1>8 DEF Interrupt, Kill, world
  <2> QED BY <1>1, <1>2, <1>3, <2>1
<1> QED BY <1>5, <1>6, <1>7, <1>8 DEF CommandMoves, KillDaemon

\* A command leaves the time the daemon sleeps for.
LEMMA CommandKeepsTime ==
    ASSUME PInv, NEW c \in Clients, CommandMoves(c) \/ KillDaemon(c)
    PROVE  PInv'
<1>1. CASE CommandMoves(c)
  <2>1. UNCHANGED <<clock, proc>>
    BY <1>1 DEF CommandMoves, Begin, Open, Flush, Interrupt, world
  <2> QED BY <2>1 DEF PInv, Arming, Near, proc
<1>2. CASE KillDaemon(c)
  <2>1. UNCHANGED clock
    BY <1>2 DEF KillDaemon, Kill, world
  <2>2. CASE UNCHANGED proc
    BY <2>1, <2>2 DEF PInv, Arming, Near, proc
  <2>3. CASE OnReload /\ UNCHANGED <<after, pid, mem, now, next, deadline, log>>
    BY <2>1, <2>3, SignalKeepsTime
  <2> QED BY <1>2, <2>2, <2>3 DEF KillDaemon, ReachDaemon
<1> QED BY <1>1, <1>2

\* The whole system keeps it.
LEMMA PromptSystemStep ==
    ASSUME Prompt, Week < PollSpan, SoonCommands
    PROVE  TInv /\ SInv /\ [TodoxNext]_allVars => SInv'
<1> SUFFICES ASSUME TInv, SInv, [TodoxNext]_allVars PROVE SInv'
  OBVIOUS
<1>1. /\ IInv /\ PInv /\ Near(file) /\ \A c \in Clients : Near(ctab[c])
      /\ clock \in Nat /\ file \in Seq(Alarm)
      /\ \A c \in Clients : ctab[c] \in Seq(Alarm)
  BY DEF TInv, SInv, IInv, TypeOK, CInv, CliTypeOK
<1>2. CASE DaemonMoves
  <2>1. Create \/ Crash \/ DaemonStep
    BY <1>2 DEF DaemonMoves
  <2>2. PInv' /\ Near(file)'
    BY <1>1, <2>1, DaemonKeepsTime, DaemonKeepsNear
  <2>3. UNCHANGED <<clock, ctab>>
    BY <1>2 DEF DaemonMoves, cliVars, Create, Crash, DaemonStep, OpenPidFile,
         WritePidFile, ReloadAlarms, Purge, OpenConfig, FlushConfig, KillSelf,
         ArmTimer, SpinWithoutAlarm, PollEvent, PollTimeout, Wake, NotifyDone, world
  <2>4. \A c \in Clients : Near(ctab[c])'
    BY <1>1, <2>3 DEF Near
  <2> QED BY <2>2, <2>4 DEF SInv
<1>3. ASSUME NEW c \in Clients, CommandMoves(c) \/ KillDaemon(c) PROVE SInv'
  BY <1>1, <1>3, CommandKeepsNear, CommandKeepsTime DEF SInv
<1>4. CASE Passing
  <2>1. Time /\ UNCHANGED <<file, ctab>> /\ clock' = clock + 1
    BY <1>4 DEF Passing, Time, Tick, cliVars
  <2>2. PInv'
    BY <1>1, <2>1, TimeKeepsTime
  <2>3. clock' \in Nat /\ clock <= clock'
    BY <1>1, <2>1
  <2>4. Near(file)'
    BY <1>1, <2>1, <2>3, NearLater DEF Near
  <2>5. ASSUME NEW c \in Clients PROVE Near(ctab[c])'
    <3>1. ctab[c] \in Seq(Alarm) /\ Near(ctab[c])
      BY <1>1
    <3> QED BY <1>1, <2>1, <2>3, <3>1, NearLater DEF Near
  <2> QED BY <2>2, <2>4, <2>5 DEF SInv
<1>5. CASE UNCHANGED allVars
  BY <1>1, <1>5 DEF allVars, world, proc, cliVars, SInv, PInv, Arming, Near
<1> QED BY <1>2, <1>3, <1>4, <1>5 DEF TodoxNext

\* It holds throughout.
LEMMA PromptSystem ==
    ASSUME Prompt, Week < PollSpan, SoonTables, SoonCommands
    PROVE  TodoxSpec => []SInv
<1>1. TodoxInit => SInv
  <2> SUFFICES ASSUME TodoxInit PROVE SInv
    OBVIOUS
  <2>1. PInv /\ Near(file)
    BY PromptInit DEF TodoxInit, SoonTables
  <2>2. \A c \in Clients : ctab[c] = <<>>
    BY DEF TodoxInit, CliInit
  <2> QED BY <2>1, <2>2 DEF SInv, Near, ToSet
<1>2. TInv /\ SInv /\ [TodoxNext]_allVars => SInv'
  BY PromptSystemStep
<1> QED BY <1>1, <1>2, SystemInvariance, PTL DEF TodoxSpec

\* In the whole system, too, a daemon whose steps take no time does not sleep
\* past its alarm: no command makes it, whenever it writes and signals, and
\* whichever faults there are.
THEOREM SystemNeverOversleeps ==
    ASSUME Prompt, Week < PollSpan, SoonTables, SoonCommands
    PROVE  TodoxSpec => []NeverOversleeps
<1>1. SInv => NeverOversleeps
  BY DEF SInv, PInv, NeverOversleeps
<1> QED BY <1>1, PromptSystem, PTL

\* And every notification comes in the very clock unit of its alarm.
THEOREM SystemNotifiesOnTime ==
    ASSUME Prompt, Week < PollSpan, SoonTables, SoonCommands
    PROVE  TodoxSpec => NotifiedOnTime
<1>1. TInv /\ SInv /\ [TodoxNext]_allVars
          => [log' # log => log'[Len(log')].ts = clock]_vars
  <2> SUFFICES ASSUME TInv, SInv, [TodoxNext]_allVars, log' # log
               PROVE  log'[Len(log')].ts = clock
    OBVIOUS
  <2>1. NotifyDone
    BY DEF TodoxNext, DaemonMoves, DaemonStep, Create, Crash, OpenPidFile,
           WritePidFile, ReloadAlarms, Purge, OpenConfig, FlushConfig, KillSelf,
           ArmTimer, SpinWithoutAlarm, PollEvent, PollTimeout, Wake,
           CommandMoves, KillDaemon, ReachDaemon, Passing, allVars, proc
  <2> QED BY <2>1, NotifiesAtTheTime DEF TInv, SInv
<1> QED BY <1>1, PromptSystem, SystemInvariance, PTL DEF TodoxSpec, NotifiedOnTime

-----------------------------------------------------------------------------
(* On an idle machine nothing is purged that was not notified              *)

\* The machine is idle: the daemon's steps take no time, others act only while
\* it sleeps, nothing fails but a write that stops short, and the daemon may
\* be started.
Idle == /\ Prompt /\ Calm
        /\ Faults \subseteq {"write"}
        /\ MaxStarts > 0

\* Two alarms that may ever meet in a table have different times.
OwnTimes == \A r, s \in Alarm : HasOrigin(r) /\ HasOrigin(s) /\ r.ts = s.ts => r = s

\* Nothing is due when the daemon is started first.
NothingDue == \A f \in InitTables : \A r \in ToSet(f) : r.ts > 0

Armed == pc \in {"poll", "wake", "notify"}

\* A row is still to come, or was notified, or is the armed one.
Said(r) == \/ r.ts > clock
           \/ r \in ToSet(log)
           \/ Armed /\ r = mem[next]

AllSaid(lst) == \A r \in ToSet(lst) : Said(r)

\* Somebody has emptied the file and not written it yet.
Flushing == pc = "flush" \/ \E c \in Clients : cpc[c] = "flush"

\* Every row that is read is said, and every row in the file when a writer is
\* about to write over it.  Rows beyond MaxRows, which nobody reads, need not
\* be: but they are gone once the file is opened for writing.  When the armed
\* row is due no command runs and nothing is in the pipe that could take the
\* daemon back to its purge before it notifies.
QInv ==
    /\ unsaid = FALSE
    /\ pc = "down" => pid = NoPid
    /\ pc # "down" => pipe # NoPipe
    /\ pc \notin {"down", "pidopen", "pidwrite"} => pidFile = pid
    /\ now <= clock
    /\ Armed => \A j \in 1..next-1 : mem[j].ts <= clock
    /\ Armed /\ mem[next].ts <= clock => Quiet /\ pipe = 0
    /\ AllSaid(mem)
    /\ AllSaid(ParseConfig(file))
    /\ Flushing => AllSaid(file)
    /\ \A c \in Clients : cpc[c] # "idle" => AllSaid(ctab[c])

\* What is said stays said while the daemon moves.
LEMMA DaemonKeepsSaid ==
    ASSUME Idle, IInv, QInv, Create \/ DaemonStep, NEW r, Said(r)
    PROVE  Said(r)'
<1>1. /\ mem \in Seq(Alarm) /\ log \in Seq(Alarm) /\ clock \in Nat
      /\ Armed => next \in DOMAIN mem
  BY DEF IInv, TypeOK, ArmedRow, Armed
<1>2. clock' = clock
  BY DEF Create, DaemonStep, OpenPidFile, WritePidFile,
         ReloadAlarms, Purge, OpenConfig, FlushConfig, KillSelf, ArmTimer,
         SpinWithoutAlarm, PollEvent, PollTimeout, Wake, NotifyDone, world
<1>3. Armed => mem[next] \in Alarm /\ mem[next].ts \in Int
  BY <1>1, RowType
<1>4. CASE NotifyDone
  <2>1. Armed /\ log' = Append(log, mem[next])
    BY <1>4 DEF NotifyDone, Idle, Armed
  <2>2. ToSet(log') = ToSet(log) \cup {mem[next]}
    BY <1>1, <1>3, <2>1, AppendRows
  <2> QED BY <1>2, <2>2 DEF Said
<1>5. CASE PollEvent
  <2>1. Armed /\ pipe > 0 /\ log' = log
    BY <1>5 DEF PollEvent, Armed
  <2>2. ~ (mem[next].ts <= clock)
    BY <2>1 DEF QInv
  <2>3. mem[next].ts > clock
    BY <1>1, <1>3, <2>1, <2>2
  <2> QED BY <1>2, <2>1, <2>3 DEF Said
<1>6. CASE PollTimeout
  BY <1>2, <1>6 DEF PollTimeout, Said, Armed
<1>7. CASE Wake
  <2>1. Armed /\ UNCHANGED <<mem, next, log>>
    BY <1>7 DEF Wake, Armed
  <2>2. CASE mem[next].ts <= clock
    BY <1>2, <1>7, <2>1, <2>2 DEF Wake, Said, Armed
  <2>3. CASE ~ (mem[next].ts <= clock)
    <3>1. mem[next].ts > clock
      BY <1>1, <1>3, <2>1, <2>3
    <3> QED BY <1>2, <2>1, <3>1 DEF Said
  <2> QED BY <2>2, <2>3
<1>8. CASE \/ Create \/ OpenPidFile \/ WritePidFile \/ ReloadAlarms \/ Purge
           \/ OpenConfig \/ FlushConfig \/ KillSelf \/ ArmTimer \/ SpinWithoutAlarm
  <2>1. ~ Armed /\ log' = log
    BY <1>8 DEF Armed, Create, OpenPidFile, WritePidFile, ReloadAlarms, Purge,
           OpenConfig, FlushConfig, KillSelf, ArmTimer, SpinWithoutAlarm, world
  <2> QED BY <1>2, <2>1 DEF Said
<1> QED BY <1>4, <1>5, <1>6, <1>7, <1>8 DEF DaemonStep

\* The processes: what is up, whose pid the file has, and that the pipe works.
LEMMA DaemonKeepsOwner ==
    ASSUME Idle, IInv, QInv, Create \/ DaemonStep
    PROVE  /\ pc' # "down"
           /\ pc' # "down" => pipe' # NoPipe
           /\ pc' \notin {"down", "pidopen", "pidwrite"} => pidFile' = pid'
           /\ now' <= clock'
<1>1. /\ pipe \in Nat \cup {NoPipe} /\ clock \in Nat /\ now \in Nat
      /\ now <= clock /\ (pc # "down" => pipe \in Nat)
      /\ after \in {"arm", "reload"}
      /\ pc \notin {"down", "pidopen", "pidwrite"} => pidFile = pid
  BY DEF IInv, TypeOK, QInv
<1>2. "pipe" \notin Faults /\ "pidfile" \notin Faults /\ ~ OpenMayFail
  BY DEF Idle, OpenMayFail
<1>3. CASE Create
  BY <1>1, <1>2, <1>3 DEF Create, NoPipe, world
<1>4. CASE OpenPidFile \/ WritePidFile
  BY <1>1, <1>2, <1>4 DEF OpenPidFile, WritePidFile, NoPipe
<1>5. CASE ReloadAlarms \/ Purge \/ OpenConfig \/ FlushConfig
  BY <1>1, <1>2, <1>5
     DEF ReloadAlarms, Purge, OpenConfig, FlushConfig, NoPipe, world
<1>6. CASE KillSelf
  BY <1>1, <1>6 DEF KillSelf, ByteAdded, NoPipe, world
<1>7. CASE ArmTimer \/ SpinWithoutAlarm \/ PollTimeout \/ Wake \/ NotifyDone
  BY <1>1, <1>7
     DEF ArmTimer, SpinWithoutAlarm, PollTimeout, Wake, NotifyDone, NoPipe, world
<1>8. CASE PollEvent
  BY <1>1, <1>8, PipeAssumption DEF PollEvent, NoPipe, world
<1> QED BY <1>3, <1>4, <1>5, <1>6, <1>7, <1>8 DEF DaemonStep

\* The armed row: it is the first after now, and once it is due nothing but
\* its notification happens.
LEMMA DaemonKeepsArmed ==
    ASSUME Idle, IInv, PInv, QInv, Create \/ DaemonStep, UNCHANGED cpc
    PROVE  /\ Armed' => \A j \in 1..next'-1 : mem'[j].ts <= clock'
           /\ Armed' /\ mem'[next'].ts <= clock' => Quiet' /\ pipe' = 0
<1>1. CASE ArmTimer
  <2>1. PICK i \in DOMAIN mem : IsNextAlarm(mem, now, i) /\ next' = i
    BY <1>1 DEF ArmTimer
  <2>2. pc = "arm" /\ UNCHANGED <<clock, mem>>
    BY <1>1 DEF ArmTimer, world
  <2>3. /\ mem[i].ts \in Int /\ mem[i].ts > now /\ i \in Future(mem, now)
        /\ clock \in Nat
    BY <2>1, RowType DEF IsNextAlarm, Future, IInv, TypeOK
  <2>4. now = clock
    BY <2>2, <2>3 DEF PInv, Arming
  <2>5. ~ (mem[i].ts <= clock)
    BY <2>3, <2>4
  <2> QED BY <2>1, <2>2, <2>4, <2>5 DEF IsNextAlarm
<1>2. CASE PollTimeout \/ Wake
  <2>1. Armed /\ UNCHANGED <<clock, mem, next, pipe>>
    BY <1>2 DEF PollTimeout, Wake, Armed, world
  <2> QED BY <2>1 DEF QInv, Quiet
<1>3. CASE ~ (ArmTimer \/ PollTimeout \/ Wake)
  <2>1. ~ Armed'
    BY <1>3 DEF Armed, Create, DaemonStep, OpenPidFile, WritePidFile,
         ReloadAlarms, Purge, OpenConfig, FlushConfig, KillSelf,
         SpinWithoutAlarm, PollEvent, NotifyDone, IInv, TypeOK
  <2> QED BY <2>1
<1> QED BY <1>1, <1>2, <1>3

\* The table in memory.
LEMMA DaemonKeepsMem ==
    ASSUME Idle, IInv, PInv, QInv, Create \/ DaemonStep
    PROVE  AllSaid(mem)'
<1>1. /\ mem \in Seq(Alarm) /\ file \in Seq(Alarm) /\ clock \in Nat
  BY DEF IInv, TypeOK
<1>2. SUFFICES ASSUME NEW r \in ToSet(mem') PROVE Said(r)'
  BY DEF AllSaid
<1>3. CASE r \in ToSet(mem)
  BY <1>3, DaemonKeepsSaid DEF QInv, AllSaid
<1>4. CASE Create
  BY <1>4 DEF Create, ToSet
<1>5. CASE ReloadAlarms
  <2>1. r \in ToSet(ParseConfig(file))
    BY <1>5 DEF ReloadAlarms
  <2> QED BY <2>1, DaemonKeepsSaid DEF QInv, AllSaid
<1>6. CASE Purge
  <2>1. r \in ToSet(PurgePastAlarms(mem, clock)) /\ clock' = clock
    BY <1>6 DEF Purge, world
  <2>2. r.ts > clock
    BY <1>1, <2>1, PurgeRows
  <2> QED BY <2>1, <2>2 DEF Said
<1>7. CASE NotifyDone
  <2>1. /\ next \in DOMAIN mem /\ clock <= mem[next].ts /\ clock' = clock
        /\ mem' = mem \/ mem' = AdvanceRepeatAlarm(mem, next)
    BY <1>7 DEF NotifyDone, world, IInv, ArmedRow, PInv
  <2>2. mem[next] \in Alarm /\ mem[next].ts \in Int
    BY <1>1, <2>1, RowType
  <2>3. CASE r = [mem[next] EXCEPT !.ts = mem[next].ts + Week]
    <3>1. mem[next].ts + Week \in Int /\ mem[next].ts + Week > clock
      BY <1>1, <2>1, <2>2, WeekAssumption
    <3>2. r.ts > clock'
      BY <2>1, <2>2, <2>3, <3>1, MovedRow
    <3> QED BY <3>2 DEF Said
  <2> QED BY <1>1, <1>3, <2>1, <2>3, AdvanceRows
<1>8. CASE ~ (Create \/ ReloadAlarms \/ Purge \/ NotifyDone)
  <2>1. mem' = mem
    BY <1>8 DEF DaemonStep, OpenPidFile, WritePidFile,
         OpenConfig, FlushConfig, KillSelf, ArmTimer,
         SpinWithoutAlarm, PollEvent, PollTimeout, Wake
  <2> QED BY <1>3, <2>1
<1> QED BY <1>4, <1>5, <1>6, <1>7, <1>8

\* An empty file says all there is to say.
LEMMA EmptySaid == AllSaid(<<>>) /\ AllSaid(ParseConfig(<<>>))
<1>1. <<>> \in Seq(Alarm) /\ ToSet(<<>>) = {}
  BY EmptySeq DEF ToSet
<1>2. ToSet(ParseConfig(<<>>)) \subseteq {}
  BY <1>1, ParseConfigRows
<1> QED BY <1>1, <1>2 DEF AllSaid

\* The file, when the daemon empties it, writes it, or leaves it alone.
LEMMA DaemonKeepsFile ==
    ASSUME Idle, IInv, QInv, Create \/ DaemonStep, UNCHANGED cpc
    PROVE  /\ AllSaid(ParseConfig(file))'
           /\ Flushing' => AllSaid(file)'
<1>1. /\ mem \in Seq(Alarm) /\ file \in Seq(Alarm)
      /\ \A r \in ToSet(mem) : Said(r)
      /\ \A r \in ToSet(ParseConfig(file)) : Said(r)
      /\ Flushing => \A r \in ToSet(file) : Said(r)
  BY DEF IInv, TypeOK, QInv, AllSaid
<1>2. CASE OpenConfig
  <2>1. file' = <<>>
    BY <1>2 DEF OpenConfig, TruncateConfig, OpenMayFail, Idle
  <2>2. <<>> \in Seq(Alarm) /\ ToSet(<<>>) = {}
    BY EmptySeq DEF ToSet
  <2>3. ToSet(ParseConfig(file')) = {}
    BY <2>1, <2>2, ParseConfigRows
  <2> QED BY <2>1, <2>2, <2>3 DEF AllSaid, ParseConfig
<1>3. CASE FlushConfig
  <2>1. Flushing /\ WriteRows(mem)
    BY <1>3 DEF FlushConfig, Flushing
  <2>2. ToSet(file') \subseteq ToSet(mem) \cup ToSet(file) /\ file' \in Seq(Alarm)
    BY <1>1, <2>1, WriteRowsRows, WriteRowsType
  <2>3. ToSet(ParseConfig(file')) \subseteq ToSet(file')
    BY <2>2, ParseConfigRows
  <2>4. \A r \in ToSet(file') : Said(r)'
    BY <1>1, <2>1, <2>2, DaemonKeepsSaid
  <2>5. \A r \in ToSet(ParseConfig(file')) : Said(r)'
    BY <2>3, <2>4
  <2> QED BY <2>4, <2>5 DEF AllSaid, ParseConfig
<1>4. CASE ~ OpenConfig /\ ~ FlushConfig
  <2>1. file' = file /\ pc' # "flush"
    BY <1>4 DEF Create, DaemonStep, OpenPidFile, WritePidFile,
         ReloadAlarms, Purge, KillSelf, ArmTimer, SpinWithoutAlarm, PollEvent,
         PollTimeout, Wake, NotifyDone, world, IInv, TypeOK
  <2>2. Flushing' => Flushing
    BY <2>1 DEF Flushing
  <2>3. \A r \in ToSet(ParseConfig(file)) : Said(r)'
    BY <1>1, DaemonKeepsSaid
  <2>4. Flushing => \A r \in ToSet(file) : Said(r)'
    BY <1>1, DaemonKeepsSaid
  <2> QED BY <2>1, <2>2, <2>3, <2>4 DEF AllSaid, ParseConfig
<1> QED BY <1>2, <1>3, <1>4

\* A step of the daemon on an idle machine.
LEMMA DaemonKeepsQInv ==
    ASSUME Idle, IInv, PInv, QInv, DaemonMoves
    PROVE  QInv'
<1>1. Create \/ DaemonStep
  BY DEF DaemonMoves, Crash, Idle
<1>2. UNCHANGED <<cpc, ctab, unsaid>>
  BY DEF DaemonMoves, cliVars
<1>3. \A c \in Clients : cpc'[c] # "idle" => AllSaid(ctab[c])'
  <2>1. SUFFICES ASSUME NEW c \in Clients, cpc[c] # "idle", NEW r \in ToSet(ctab[c])
                 PROVE  Said(r)'
    BY <1>2 DEF AllSaid
  <2>2. Said(r)
    BY <2>1 DEF QInv, AllSaid
  <2> QED BY <1>1, <2>2, DaemonKeepsSaid
<1>4. /\ pc' # "down" => pipe' # NoPipe
      /\ pc' # "down"
      /\ pc' \notin {"down", "pidopen", "pidwrite"} => pidFile' = pid'
      /\ now' <= clock'
  BY <1>1, DaemonKeepsOwner
<1>5. /\ Armed' => \A j \in 1..next'-1 : mem'[j].ts <= clock'
      /\ Armed' /\ mem'[next'].ts <= clock' => Quiet' /\ pipe' = 0
  BY <1>1, <1>2, DaemonKeepsArmed
<1>6. AllSaid(mem)'
  BY <1>1, DaemonKeepsMem
<1>7. AllSaid(ParseConfig(file))' /\ (Flushing' => AllSaid(file)')
  BY <1>1, <1>2, DaemonKeepsFile
<1>8. unsaid' = FALSE
  BY <1>2 DEF QInv
<1> QED BY <1>2, <1>3, <1>4, <1>5, <1>6, <1>7, <1>8 DEF QInv

\* While the daemon is not busy its armed row is still to come.
LEMMA RestsAhead ==
    ASSUME IInv, PInv, QInv, ~ Busy, Armed
    PROVE  /\ pc = "poll" /\ pipe = 0
           /\ mem[next].ts \in Int /\ clock < mem[next].ts
<1>1. /\ mem \in Seq(Alarm) /\ next \in DOMAIN mem /\ clock \in Nat
      /\ pipe \in Nat \cup {NoPipe} /\ pc \in PCs
  BY DEF IInv, TypeOK, ArmedRow, Armed
<1>2. mem[next].ts \in Int
  BY <1>1, RowType
<1>3. pc = "poll" /\ ~ (pipe > 0)
  BY DEF Busy, Armed, PCs
<1>4. deadline = mem[next].ts /\ clock <= mem[next].ts
  BY <1>3 DEF PInv
<1>5. ~ (deadline # Forever /\ clock >= deadline)
  BY <1>3 DEF Busy
<1>6. pipe # NoPipe
  BY <1>3 DEF QInv
<1> QED BY <1>1, <1>2, <1>3, <1>4, <1>5, <1>6 DEF Forever, NoPipe

\* A command that starts has a table to write all of which is said.
LEMMA BeginKeepsQInv ==
    ASSUME Idle, TInv, PInv, QInv, NEW c \in Clients, CommandMoves(c), Begin(c)
    PROVE  QInv'
<1>1. /\ file \in Seq(Alarm) /\ clock \in Nat
      /\ ctab \in [Clients -> Seq(Alarm)]
      /\ cpc \in [Clients -> {"idle", "open", "flush", "kill"}]
      /\ asked \in [Clients -> [removes: SUBSET Tasks, adds: Seq(Alarm)]]
  BY DEF TInv, IInv, TypeOK, CInv, CliTypeOK
<1>2. /\ UNCHANGED <<world, proc, unsaid>> /\ ~ Busy /\ cpc[c] = "idle"
      /\ \A r \in ToSet(asked'[c].adds) : r.ts > clock
  BY DEF CommandMoves, Begin, Open, Flush, Interrupt, Idle
<1>3. PICK cmd \in Commands : Invoke(c, cmd)
  BY DEF Begin
<1>4. Armed' /\ mem'[next'].ts <= clock' => FALSE
  <2>1. SUFFICES ASSUME Armed, mem[next].ts <= clock PROVE FALSE
    BY <1>2 DEF Armed, world, proc
  <2>2. IInv /\ ~ Busy
    BY <1>2 DEF TInv
  <2>3. mem[next].ts \in Int /\ clock < mem[next].ts
    BY <2>1, <2>2, RestsAhead
  <2> QED BY <1>1, <2>1, <2>3
<1>5. \A r : Said(r)' <=> Said(r)
  BY <1>2 DEF Said, Armed, world, proc
<1>6. \A k \in Clients : cpc'[k] # "idle" =>
         \/ cpc[k] # "idle" /\ ctab'[k] = ctab[k]
         \/ k = c /\ \A r \in ToSet(ctab'[c]) : Said(r)
  <2>1. CASE Refused(ParseConfig(file), cmd)
    BY <1>3, <2>1 DEF Invoke
  <2>2. CASE ~ Refused(ParseConfig(file), cmd)
    <3> DEFINE lst == ParseConfig(file)
               new == Changed(lst, cmd, clock)
    <3>1. /\ ctab' = [ctab EXCEPT ![c] = new]
          /\ cpc' = [cpc EXCEPT ![c] = "open"]
          /\ asked' = [asked EXCEPT ![c] =
                IF cmd.op = "remove"
                THEN [removes |-> {cmd.task}, adds |-> <<>>]
                ELSE [removes |-> {}, adds |-> Items(cmd, clock)]]
      BY <1>3, <2>2 DEF Invoke
    <3>2. lst \in Seq(Alarm) /\ \A r \in ToSet(lst) : Said(r)
      BY <1>1, ParseConfigType DEF QInv, AllSaid
    <3>3. \A r \in ToSet(new) : Said(r)
      <4> HIDE DEF lst
      <4>1. CASE cmd.op = "remove"
        <5>1. ToSet(new) \subseteq ToSet(lst)
          BY <3>2, <4>1, TaskRemoveAllRows DEF Changed
        <5> QED BY <3>2, <5>1
      <4>2. CASE cmd.op # "remove"
        <5>1. Items(cmd, clock) \in Seq(Alarm)
          BY <1>1, CommandsAssumption, ItemsType
        <5>2. asked'[c].adds = Items(cmd, clock)
          BY <1>1, <3>1, <4>2
        <5>3. \A r \in ToSet(Items(cmd, clock)) : Said(r)
          BY <1>2, <5>2 DEF Said
        <5>4. new = PushAll(lst, Items(cmd, clock))
          BY <4>2 DEF Changed
        <5>5. ToSet(new) \subseteq ToSet(lst) \cup ToSet(Items(cmd, clock))
          BY <3>2, <5>1, <5>4, PushAllRows
        <5> QED BY <3>2, <5>3, <5>5
      <4> QED BY <4>1, <4>2
    <3> HIDE DEF new, lst
    <3>4. ctab'[c] = new
      BY <1>1, <3>1
    <3>5. \A k \in Clients : k # c => ctab'[k] = ctab[k] /\ cpc'[k] = cpc[k]
      BY <1>1, <3>1
    <3> QED BY <3>3, <3>4, <3>5
  <2> QED BY <2>1, <2>2
<1>7. \A k \in Clients : cpc'[k] # "idle" => AllSaid(ctab[k])'
  <2>1. SUFFICES ASSUME NEW k \in Clients, cpc'[k] # "idle", NEW r \in ToSet(ctab'[k])
                 PROVE  Said(r)
    BY <1>5 DEF AllSaid
  <2> QED BY <1>6, <2>1 DEF QInv, AllSaid
<1>8. AllSaid(mem)' /\ AllSaid(ParseConfig(file))'
  BY <1>2, <1>5 DEF QInv, AllSaid, world, proc, ParseConfig
<1>9. Flushing' => AllSaid(file)'
  <2>1. cpc' = cpc \/ cpc' = [cpc EXCEPT ![c] = "open"]
    BY <1>3 DEF Invoke
  <2>2. Flushing' => Flushing
    BY <1>1, <1>2, <2>1 DEF Flushing, proc
  <2> QED BY <1>2, <1>5, <2>2 DEF QInv, AllSaid, world
<1> QED BY <1>2, <1>4, <1>7, <1>8, <1>9 DEF QInv, world, proc, Armed

\* A command that runs: when the armed row is due there is none.
LEMMA CommandKeepsQInv ==
    ASSUME Idle, TInv, PInv, QInv, NEW c \in Clients,
           Open(c) \/ Flush(c), UNCHANGED proc
    PROVE  QInv'
<1>1. /\ file \in Seq(Alarm) /\ clock \in Nat
      /\ ctab \in [Clients -> Seq(Alarm)]
      /\ cpc \in [Clients -> {"idle", "open", "flush", "kill"}]
  BY DEF TInv, IInv, TypeOK, CInv, CliTypeOK
<1>2. /\ UNCHANGED <<clock, pidFile, ctab, unsaid>> /\ cpc[c] # "idle"
  BY DEF Open, Flush
<1>3. \A r : Said(r)' <=> Said(r)
  BY <1>2 DEF Said, Armed, proc
<1>4. ~ (Armed' /\ mem'[next'].ts <= clock')
  BY <1>2 DEF Armed, proc, QInv, Quiet
<1>5. \A k \in Clients : cpc'[k] # "idle" => cpc[k] # "idle"
  BY <1>1, <1>2 DEF Open, Flush
<1>6. \A r \in ToSet(ctab[c]) : Said(r)
  BY <1>2 DEF QInv, AllSaid
<1>7. \A r \in ToSet(file') : Said(r)
  <2>1. CASE Open(c)
    BY <2>1 DEF Open, TruncateConfig, OpenMayFail, Idle, ToSet
  <2>2. CASE Flush(c)
    <3>1. Flushing /\ WriteRows(ctab[c])
      BY <2>2 DEF Flush, Flushing
    <3>2. ToSet(file') \subseteq ToSet(ctab[c]) \cup ToSet(file)
      BY <1>1, <3>1, WriteRowsRows
    <3> QED BY <1>6, <3>1, <3>2 DEF QInv, AllSaid
  <2> QED BY <2>1, <2>2
<1>8. \A r \in ToSet(ParseConfig(file')) : Said(r)
  <2>1. file' \in Seq(Alarm)
    BY FileType
  <2> QED BY <1>7, <2>1, ParseConfigRows
<1>9. AllSaid(mem)' /\ AllSaid(ParseConfig(file))' /\ AllSaid(file)'
  BY <1>3, <1>7, <1>8 DEF QInv, AllSaid, proc, ParseConfig
<1>10. \A k \in Clients : cpc'[k] # "idle" => AllSaid(ctab[k])'
  BY <1>2, <1>3, <1>5 DEF QInv, AllSaid
<1> QED BY <1>2, <1>4, <1>9, <1>10 DEF QInv, proc, Armed

\* A command that signals and ends.
LEMMA KillKeepsQInv ==
    ASSUME Idle, TInv, PInv, QInv, NEW c \in Clients, KillDaemon(c)
    PROVE  QInv'
<1>1. /\ cpc \in [Clients -> {"idle", "open", "flush", "kill"}]
      /\ ctab \in [Clients -> Seq(Alarm)]
      /\ pipe \in Nat \cup {NoPipe}
  BY DEF TInv, IInv, TypeOK, CInv, CliTypeOK
<1>2. /\ UNCHANGED world /\ cpc[c] = "kill" /\ unsaid' = FALSE
      /\ cpc' = [cpc EXCEPT ![c] = "idle"]
      /\ ctab' = [ctab EXCEPT ![c] = <<>>]
  BY DEF KillDaemon, Kill
<1>3. /\ UNCHANGED <<pid, mem, now, next, log>>
      /\ Armed' <=> Armed
      /\ pc' = "flush" <=> pc = "flush"
      /\ pc' = "down" <=> pc = "down"
      /\ pc' \in {"down", "pidopen", "pidwrite"} <=> pc \in {"down", "pidopen", "pidwrite"}
      /\ pipe # NoPipe => pipe' # NoPipe
  BY <1>1 DEF KillDaemon, ReachDaemon, OnReload, proc, Armed, ByteAdded, NoPipe
<1>4. \A r : Said(r)' <=> Said(r)
  BY <1>2, <1>3 DEF Said, world
<1>5. ~ (Armed' /\ mem'[next'].ts <= clock')
  BY <1>2, <1>3 DEF world, QInv, Quiet
<1>6. \A k \in Clients : cpc'[k] # "idle" =>
         cpc'[k] = cpc[k] /\ ctab'[k] = ctab[k]
  BY <1>1, <1>2
<1>7. AllSaid(mem)' /\ AllSaid(ParseConfig(file))'
  BY <1>2, <1>3, <1>4 DEF QInv, AllSaid, world, ParseConfig
<1>8. Flushing' => AllSaid(file)'
  <2>1. Flushing' => Flushing
    BY <1>3, <1>6 DEF Flushing
  <2> QED BY <1>2, <1>4, <2>1 DEF QInv, AllSaid, world
<1>9. \A k \in Clients : cpc'[k] # "idle" => AllSaid(ctab[k])'
  BY <1>4, <1>6 DEF QInv, AllSaid
<1>10. Armed' => \A j \in 1..next'-1 : mem'[j].ts <= clock'
  BY <1>2, <1>3 DEF QInv, world
<1> QED BY <1>2, <1>3, <1>5, <1>7, <1>8, <1>9, <1>10 DEF QInv, world

\* When the clock goes on the table in memory is that of the file, and a row
\* that becomes due is the armed one.
LEMMA PassingKeepsQInv ==
    ASSUME Idle, OwnTimes, TInv, WInv, OInv, PInv, QInv, Passing
    PROVE  QInv'
<1>1. /\ clock \in Nat /\ now \in Nat /\ mem \in Seq(Alarm) /\ file \in Seq(Alarm)
      /\ pc \in PCs /\ IInv /\ pid \in Nat /\ log \in Seq(Alarm)
  BY DEF TInv, IInv, TypeOK
<1>2. /\ ~ Busy /\ Quiet /\ clock' = clock + 1
      /\ UNCHANGED <<file, pidFile, proc, cliVars>>
  BY DEF Passing, Tick, Idle
<1>3. pc = "arm" \/ pc = "poll"
  <2>1. pc \in {"down", "arm", "poll"}
    BY <1>1, <1>2 DEF Busy
  <2>2. pc # "down"
    BY <1>1, <1>2, StartsAssumption DEF Busy, QInv, NoPid, Idle
  <2> QED BY <2>1, <2>2
<1>4. mem = ParseConfig(file)
  <2>1. CASE pc = "arm"
    BY <1>2, <2>1 DEF Busy
  <2>2. CASE pc = "poll"
    <3>1. pipe = 0 /\ pidFile = pid /\ ~ unsaid
      BY <1>1, <1>2, <2>2, RestsAhead DEF Armed, QInv
    <3>2. ~ Upcoming
      BY <1>2 DEF Quiet, Upcoming
    <3> QED BY <2>2, <3>1, <3>2 DEF WInv, Settled
  <2> QED BY <1>3, <2>1, <2>2
<1>5. ASSUME NEW r \in ToSet(mem) PROVE Said(r)'
  <2>1. r \in Alarm /\ r.ts \in Int /\ Said(r)
    BY <1>1, RowType DEF ToSet, QInv, AllSaid
  <2>2. CASE r \in ToSet(log)
    BY <1>2, <2>2 DEF Said, proc
  <2>3. CASE Armed /\ r = mem[next]
    BY <1>2, <2>3 DEF Said, Armed, proc
  <2>4. CASE r.ts > clock
    <3>1. CASE pc = "arm"
      <4>1. Future(mem, now) = {} /\ now <= clock
        BY <1>2, <3>1 DEF Busy, QInv
      <4>2. ~ (r.ts > now)
        BY <4>1 DEF Future, ToSet
      <4> QED BY <1>1, <2>1, <2>4, <4>1, <4>2
    <3>2. CASE pc = "poll"
      <4>1. /\ Armed /\ next \in DOMAIN mem
            /\ mem[next].ts \in Int /\ clock < mem[next].ts
        BY <1>1, <1>2, <3>2, RestsAhead DEF Armed, IInv, ArmedRow
      <4>2. PICK k \in DOMAIN mem : r = mem[k]
        BY DEF ToSet
      <4>3. k \in Nat /\ next \in Nat /\ k \in 1..Len(mem)
        BY <1>1, <4>1, RowType
      <4>4. ~ (k \in 1..next-1)
        BY <1>1, <2>1, <2>4, <4>1, <4>2 DEF QInv
      <4>5. k = next \/ next < k
        BY <4>3, <4>4
      <4>6. mem[next].ts <= r.ts
        <5>1. IsSortedByTime(mem)
          BY <1>1, <1>4, ParseConfigType
        <5> QED BY <2>1, <4>1, <4>2, <4>5, <5>1 DEF IsSortedByTime
      <4>7. CASE r.ts > clock + 1
        BY <1>2, <4>7 DEF Said
      <4>8. CASE r.ts = clock + 1
        <5>1. r.ts = mem[next].ts
          BY <1>1, <4>1, <4>6, <4>8
        <5>2. HasOrigin(r) /\ HasOrigin(mem[next]) /\ mem[next] \in Alarm
          BY <1>1, <4>1, RowType DEF OInv, Known, ToSet
        <5>3. r = mem[next]
          BY <2>1, <5>1, <5>2 DEF OwnTimes
        <5> QED BY <1>2, <4>1, <5>3 DEF Said, Armed, proc
      <4> QED BY <1>1, <2>1, <2>4, <4>7, <4>8
    <3> QED BY <1>3, <3>1, <3>2
  <2> QED BY <2>1, <2>2, <2>3, <2>4 DEF Said
<1>6. ~ Flushing' /\ \A c \in Clients : cpc'[c] = "idle"
  BY <1>2, <1>3 DEF Quiet, Flushing, proc, cliVars
<1>7. now' <= clock'
  BY <1>1, <1>2 DEF QInv, proc
<1>8. Armed' => \A j \in 1..next'-1 : mem'[j].ts <= clock'
  <2>1. SUFFICES ASSUME Armed, NEW j \in 1..next-1 PROVE mem[j].ts <= clock + 1
    BY <1>2 DEF Armed, proc
  <2>2. j \in DOMAIN mem
    <3>1. next \in 1..Len(mem) /\ Len(mem) \in Nat /\ DOMAIN mem = 1..Len(mem)
      BY <1>1, <2>1, LenProperties DEF IInv, ArmedRow, Armed
    <3> QED BY <3>1
  <2>3. mem[j].ts \in Int /\ mem[j].ts <= clock
    BY <1>1, <2>1, <2>2, RowType DEF QInv
  <2> QED BY <1>1, <2>3
<1>9. Armed' => Quiet' /\ pipe' = 0
  <2>1. Quiet'
    BY <1>6 DEF Quiet
  <2>2. Armed => pipe = 0
    BY <1>1, <1>2, RestsAhead
  <2> QED BY <1>2, <2>1, <2>2 DEF Armed, proc
<1>10. AllSaid(mem)' /\ AllSaid(ParseConfig(file))'
  BY <1>2, <1>4, <1>5 DEF AllSaid, proc, ParseConfig
<1> QED BY <1>2, <1>6, <1>7, <1>8, <1>9, <1>10 DEF QInv, proc, cliVars

\* At first all is still to come.
LEMMA InitQInv ==
    ASSUME NothingDue
    PROVE  TodoxInit => QInv
<1> SUFFICES ASSUME TodoxInit PROVE QInv
  OBVIOUS
<1>1. /\ clock = 0 /\ pc = "down" /\ pid = NoPid /\ now = 0 /\ mem = <<>>
      /\ unsaid = FALSE /\ file \in InitTables
      /\ \A c \in Clients : cpc[c] = "idle"
  BY DEF TodoxInit, Init, CliInit
<1>2. \A r \in ToSet(file) : r.ts > 0
  BY <1>1 DEF NothingDue
<1>3. ToSet(ParseConfig(file)) \subseteq ToSet(file)
  BY <1>1, TablesAssumption, ParseConfigRows
<1> QED BY <1>1, <1>2, <1>3 DEF QInv, Armed, AllSaid, Said, Flushing, ToSet

\* On an idle machine whose alarms all have times of their own no alarm is
\* dropped silently: what the daemon finds due when it purges has been
\* notified, whatever the commands add and remove while it sleeps.
THEOREM PurgedOnlyNotified ==
    ASSUME Idle, Week < PollSpan, SoonTables, SoonCommands, NothingDue, OwnTimes
    PROVE  TodoxSpec => []PurgedWereNotified
<1>1. TodoxInit => QInv
  BY InitQInv
<1>2. TInv /\ WInv /\ OInv /\ SInv /\ QInv /\ [TodoxNext]_allVars => QInv'
  <2> SUFFICES ASSUME TInv, WInv, OInv, SInv, QInv, [TodoxNext]_allVars PROVE QInv'
    OBVIOUS
  <2>1. IInv /\ PInv
    BY DEF TInv, SInv
  <2>2. CASE DaemonMoves
    BY <2>1, <2>2, DaemonKeepsQInv
  <2>3. ASSUME NEW c \in Clients, CommandMoves(c) PROVE QInv'
    <3>1. CASE Begin(c)
      BY <2>1, <2>3, <3>1, BeginKeepsQInv
    <3>2. CASE Open(c) \/ Flush(c)
      BY <2>1, <2>3, <3>2, CommandKeepsQInv DEF CommandMoves
    <3>3. CASE Interrupt(c)
      BY <3>3 DEF Interrupt, Idle
    <3> QED BY <2>3, <3>1, <3>2, <3>3 DEF CommandMoves
  <2>4. ASSUME NEW c \in Clients, KillDaemon(c) PROVE QInv'
    BY <2>1, <2>4, KillKeepsQInv
  <2>5. CASE Passing
    BY <2>1, <2>5, PassingKeepsQInv
  <2>6. CASE UNCHANGED allVars
    BY <2>6 DEF allVars, world, proc, cliVars, QInv, Armed, AllSaid, Said,
                Flushing, Quiet, ParseConfig
  <2> QED BY <2>2, <2>3, <2>4, <2>5, <2>6 DEF TodoxNext
<1>3. IInv /\ QInv => PurgedWereNotified
  <2> SUFFICES ASSUME IInv, QInv, pc = "purge", NEW i \in Due(mem, clock)
               PROVE  mem[i] \in ToSet(log)
    BY DEF PurgedWereNotified
  <2>1. i \in DOMAIN mem /\ mem[i].ts <= clock /\ mem \in Seq(Alarm) /\ clock \in Nat
    BY DEF Due, IInv, TypeOK
  <2>2. mem[i].ts \in Int /\ Said(mem[i])
    BY <2>1, RowType DEF QInv, AllSaid, ToSet
  <2> QED BY <2>1, <2>2 DEF Said, Armed
<1>4. Prompt
  BY DEF Idle
<1>5. TodoxSpec => []SInv
  BY <1>4, PromptSystem
<1>6. TInv => IInv
  BY DEF TInv
<1> QED BY <1>1, <1>2, <1>3, <1>5, <1>6, SystemInvariance, WakeInvariance,
           OriginInvariance, PTL DEF TodoxSpec
=============================================================================
