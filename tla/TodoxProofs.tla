---------------------------- MODULE TodoxProofs ----------------------------
(***************************************************************************)
(* Theorems about the whole system, for any number of commands at once and *)
(* for every set of faults: the commands keep to tables, and the daemon,   *)
(* with the commands as its environment, is the one of DaemonProofs; no    *)
(* wake-up is lost; and no interleaving, and no failed write, makes up an  *)
(* alarm or moves one but by whole weeks.                                  *)
(***************************************************************************)
EXTENDS Todox, DaemonProofs

-----------------------------------------------------------------------------
(* What a command makes of a table                                         *)

\* The rows an add brings are rows.
LEMMA ItemsType ==
    ASSUME NEW cmd \in Command, NEW t \in Int
    PROVE  Items(cmd, t) \in Seq(Alarm)
<1>1. /\ cmd.op \in {"add", "weekly", "remove"} /\ cmd.task \in Tasks
      /\ cmd.comment \in Comments /\ cmd.does_repeat \in BOOLEAN
      /\ cmd.times \in Seq(Int)
  BY DEF Command
<1>2. /\ Len(cmd.times) \in Nat /\ DOMAIN cmd.times = 1..Len(cmd.times)
      /\ \A i \in DOMAIN cmd.times : cmd.times[i] \in Int
  BY <1>1, LenProperties, ElementOfSeq
<1>3. ASSUME NEW i \in DOMAIN cmd.times
      PROVE  Items(cmd, t)[i] \in Alarm
  <2> DEFINE u == IF cmd.op = "weekly"
                  THEN NextWeekdayTimestamp(cmd.times[i], t) ELSE cmd.times[i]
  <2>1. u \in Int
    BY <1>2, AdvanceIsNextOccurrence DEF NextWeekdayTimestamp
  <2>2. (cmd.op = "weekly" \/ cmd.does_repeat) \in BOOLEAN
    BY <1>1
  <2>3. Items(cmd, t)[i] =
            [task |-> cmd.task, comment |-> cmd.comment, ts |-> u,
             does_repeat |-> cmd.op = "weekly" \/ cmd.does_repeat]
    BY DEF Items
  <2> HIDE DEF u
  <2> QED BY <1>1, <2>1, <2>2, <2>3 DEF Alarm
<1>4. Items(cmd, t) \in [1..Len(cmd.times) -> Alarm]
  BY <1>2, <1>3 DEF Items
<1> QED BY <1>2, <1>4, SeqDef

\* A removal leaves no more rows than there were.
LEMMA TaskRemoveAllLength ==
    ASSUME NEW lst \in Seq(Alarm), NEW t \in Tasks
    PROVE  Len(TaskRemoveAll(lst, t)) <= Len(lst)
<1> DEFINE K == DOMAIN lst \ RowsOf(lst, t)
<1>1. Len(lst) \in Nat /\ DOMAIN lst = 1..Len(lst) /\ K \subseteq DOMAIN lst
  BY LenProperties
<1>2. Len(TaskRemoveAll(lst, t)) = Cardinality(K)
  BY <1>1, ByTimeProperties DEF TaskRemoveAll
<1>3. IsFiniteSet(1..Len(lst)) /\ Cardinality(1..Len(lst)) = Len(lst)
  <2>1. /\ IsFiniteSet(1..Len(lst))
        /\ Cardinality(1..Len(lst)) = IF 1 > Len(lst) THEN 0 ELSE Len(lst) - 1 + 1
    BY <1>1, FS_Interval
  <2>2. (IF 1 > Len(lst) THEN 0 ELSE Len(lst) - 1 + 1) = Len(lst)
    BY <1>1
  <2> QED BY <2>1, <2>2
<1>4. Cardinality(K) <= Cardinality(1..Len(lst))
  BY <1>1, <1>3, FS_Subset
<1> QED BY <1>2, <1>3, <1>4

\* What a command is about to write is a sorted table that fits.
LEMMA ChangedProperties ==
    ASSUME file \in Seq(Alarm), clock \in Nat, NEW cmd \in Command
    PROVE  LET t == Changed(ParseConfig(file), cmd, clock)
           IN  t \in Seq(Alarm) /\ IsSortedByTime(t) /\ Len(t) <= MaxRows
<1> DEFINE lst == ParseConfig(file)
<1>1. <<>> \in Seq(Alarm)
  BY EmptySeq
<1>2. lst \in Seq(Alarm) /\ Len(lst) <= MaxRows
  BY <1>1, PushAllProperties DEF ParseConfig
<1> HIDE DEF lst
<1>3. CASE cmd.op = "remove"
  <2>1. cmd.task \in Tasks
    BY DEF Command
  <2>2. Len(TaskRemoveAll(lst, cmd.task)) <= Len(lst)
    BY <1>2, <2>1, TaskRemoveAllLength
  <2>3. /\ TaskRemoveAll(lst, cmd.task) \in Seq(Alarm)
        /\ IsSortedByTime(TaskRemoveAll(lst, cmd.task))
    BY <1>2, <2>1, TaskRemoveAllProperties
  <2>4. Len(lst) \in Nat /\ Len(TaskRemoveAll(lst, cmd.task)) \in Nat
    BY <1>2, <2>3, LenProperties
  <2>5. Len(TaskRemoveAll(lst, cmd.task)) <= MaxRows
    BY <1>2, <2>2, <2>4, MaxRowsAssumption
  <2> QED BY <1>3, <2>3, <2>5 DEF Changed, lst
<1>4. CASE cmd.op # "remove"
  <2>1. Items(cmd, clock) \in Seq(Alarm)
    BY ItemsType
  <2> QED BY <1>2, <1>4, <2>1, PushAllProperties DEF Changed, lst
<1> QED BY <1>3, <1>4

-----------------------------------------------------------------------------
(* The commands                                                            *)

CInv == CliTypeOK /\ WritesSorted

\* At first no command runs.
LEMMA InitCommands == CliInit => CInv
<1> SUFFICES ASSUME CliInit PROVE CInv
  OBVIOUS
<1>1. <<>> \in Seq(Alarm)
  BY EmptySeq
<1>2. Nothing \in [removes: SUBSET Tasks, adds: Seq(Alarm)]
  BY <1>1 DEF Nothing
<1>3. MaxCommands \in 0..MaxCommands
  BY CommandsAssumption
<1>4. CliTypeOK
  BY <1>1, <1>2, <1>3 DEF CliInit, CliTypeOK
<1>5. \A c \in Clients : cpc[c] = "idle"
  BY DEF CliInit
<1> QED BY <1>4, <1>5 DEF CInv, WritesSorted

\* Every command that is started has a sorted table to write, or is refused.
LEMMA InvokeKeeps ==
    ASSUME CInv, file \in Seq(Alarm), clock \in Nat,
           NEW c \in Clients, NEW cmd \in Command, Invoke(c, cmd)
    PROVE  /\ cpc' \in [Clients -> {"idle", "open", "flush", "kill"}]
           /\ ctab' \in [Clients -> Seq(Alarm)]
           /\ asked' \in [Clients -> [removes: SUBSET Tasks, adds: Seq(Alarm)]]
           /\ WritesSorted'
<1> USE DEF CInv, CliTypeOK
<1> DEFINE lst == ParseConfig(file)
           t   == Changed(lst, cmd, clock)
           ask == IF cmd.op = "remove"
                  THEN [removes |-> {cmd.task}, adds |-> <<>>]
                  ELSE [removes |-> {}, adds |-> Items(cmd, clock)]
<1>2. CASE Refused(lst, cmd)
  BY <1>2 DEF Invoke, WritesSorted
<1>3. CASE ~ Refused(lst, cmd)
  <2>1. t \in Seq(Alarm) /\ IsSortedByTime(t) /\ Len(t) <= MaxRows
    BY ChangedProperties
  <2>2. ask \in [removes: SUBSET Tasks, adds: Seq(Alarm)]
    <3>1. <<>> \in Seq(Alarm) /\ Items(cmd, clock) \in Seq(Alarm)
      BY ItemsType, EmptySeq
    <3>2. cmd.task \in Tasks
      BY DEF Command
    <3> QED BY <3>1, <3>2
  <2>3. /\ ctab' = [ctab EXCEPT ![c] = t]
        /\ asked' = [asked EXCEPT ![c] = ask]
        /\ cpc' = [cpc EXCEPT ![c] = "open"]
    BY <1>3 DEF Invoke
  <2> HIDE DEF t, ask, lst
  <2>4. \A k \in Clients : /\ k = c => ctab'[k] = t
                           /\ k # c => ctab'[k] = ctab[k] /\ cpc'[k] = cpc[k]
    BY <2>3
  <2>5. WritesSorted'
    BY <2>1, <2>4 DEF WritesSorted
  <2> QED BY <2>1, <2>2, <2>3, <2>5
<1> QED BY <1>2, <1>3

\* Starting a command keeps the invariant of the commands.
LEMMA BeginKeeps ==
    ASSUME CInv, file \in Seq(Alarm), clock \in Nat, NEW c \in Clients, Begin(c)
    PROVE  CInv'
<1>1. PICK cmd \in Command : Invoke(c, cmd)
  BY CommandsAssumption DEF Begin
<1>2. left' \in [Clients -> 0..MaxCommands]
  <2>1. left[c] \in 0..MaxCommands /\ left[c] > 0 /\ MaxCommands \in Nat
    BY CommandsAssumption DEF Begin, CInv, CliTypeOK
  <2>2. left[c] - 1 \in 0..MaxCommands
    BY <2>1
  <2> QED BY <2>2 DEF Begin, CInv, CliTypeOK
<1>3. UNCHANGED <<acked, gone, unsaid>>
  BY DEF Begin
<1> QED BY <1>1, <1>2, <1>3, InvokeKeeps DEF CInv, CliTypeOK

\* The steps that only move on, or end, a command.
LEMMA MoveKeeps ==
    ASSUME CInv, NEW c \in Clients, NEW where \in {"idle", "flush", "kill"},
           cpc[c] # "idle", cpc' = [cpc EXCEPT ![c] = where],
           ctab' \in {ctab, [ctab EXCEPT ![c] = <<>>]},
           ctab' = ctab \/ where = "idle",
           asked' \in {asked, [asked EXCEPT ![c] = Nothing]},
           left' = left, acked' \subseteq Alarm, gone' \subseteq Tasks,
           unsaid' \in BOOLEAN
    PROVE  CInv'
<1>1. <<>> \in Seq(Alarm)
  BY EmptySeq
<1>2. Nothing \in [removes: SUBSET Tasks, adds: Seq(Alarm)]
  BY <1>1 DEF Nothing
<1>3. CliTypeOK'
  <2>1. cpc' \in [Clients -> {"idle", "open", "flush", "kill"}]
    BY DEF CInv, CliTypeOK
  <2>2. ctab' \in [Clients -> Seq(Alarm)]
    BY <1>1 DEF CInv, CliTypeOK
  <2>3. asked' \in [Clients -> [removes: SUBSET Tasks, adds: Seq(Alarm)]]
    BY <1>2 DEF CInv, CliTypeOK
  <2>4. left' \in [Clients -> 0..MaxCommands]
    BY DEF CInv, CliTypeOK
  <2> QED BY <2>1, <2>2, <2>3, <2>4, Zenon DEF CliTypeOK
<1>4. WritesSorted'
  <2> SUFFICES ASSUME NEW k \in Clients, cpc'[k] # "idle"
               PROVE  (IsSortedByTime(ctab[k]) /\ Len(ctab[k]) <= MaxRows)'
    BY DEF WritesSorted
  <2>1. cpc[k] # "idle" /\ ctab'[k] = ctab[k]
    BY DEF CInv, CliTypeOK
  <2> QED BY <2>1 DEF CInv, WritesSorted
<1> QED BY <1>3, <1>4 DEF CInv

\* Open, Flush and Interrupt.
LEMMA RunningKeeps ==
    ASSUME CInv, NEW c \in Clients, Open(c) \/ Flush(c) \/ Interrupt(c)
    PROVE  CInv'
<1>1. acked \subseteq Alarm /\ gone \subseteq Tasks /\ unsaid \in BOOLEAN
  BY DEF CInv, CliTypeOK
<1>2. CASE Open(c)
  BY <1>1, <1>2, MoveKeeps DEF Open
<1>3. CASE Flush(c)
  BY <1>1, <1>3, MoveKeeps DEF Flush
<1>4. CASE Interrupt(c)
  <2>1. unsaid' \in BOOLEAN
    BY <1>1, <1>4, Zenon DEF Interrupt
  <2> QED BY <1>1, <1>4, <2>1, MoveKeeps DEF Interrupt
<1> QED BY <1>2, <1>3, <1>4

\* A command that has signalled the daemon and ends.
LEMMA KillKeeps ==
    ASSUME CInv, NEW c \in Clients, Kill(c)
    PROVE  CInv'
<1>1. /\ acked \subseteq Alarm /\ gone \subseteq Tasks
      /\ asked[c] \in [removes: SUBSET Tasks, adds: Seq(Alarm)]
  BY DEF CInv, CliTypeOK
<1>2. ToSet(asked[c].adds) \subseteq Alarm
  BY <1>1, RowType DEF ToSet
<1>3. \A r \in ToSet(asked[c].adds) : r.task \in Tasks
  BY <1>2 DEF Alarm
<1>4. acked' \subseteq Alarm /\ gone' \subseteq Tasks
  BY <1>1, <1>2, <1>3 DEF Kill
<1> QED BY <1>4, MoveKeeps DEF Kill

-----------------------------------------------------------------------------
(* The whole system                                                        *)

TInv == IInv /\ CInv

\* What the commands leave in the file is a table.
LEMMA FileType ==
    ASSUME TInv, NEW c \in Clients, Open(c) \/ Flush(c) \/ Interrupt(c)
    PROVE  file' \in Seq(Alarm) /\ UNCHANGED <<clock, pidFile>>
<1>1. /\ file \in Seq(Alarm) /\ ctab[c] \in Seq(Alarm)
      /\ <<>> \in Seq(Alarm)
  BY EmptySeq DEF TInv, IInv, TypeOK, CInv, CliTypeOK
<1>2. CASE Open(c)
  BY <1>1, <1>2 DEF Open, TruncateConfig
<1>3. CASE Flush(c)
  BY <1>1, <1>3, WriteRowsType DEF Flush
<1>4. CASE Interrupt(c)
  BY <1>1, <1>4 DEF Interrupt, world
<1> QED BY <1>2, <1>3, <1>4

\* The daemon does not depend on what is in the file while it stands still.
LEMMA FileChanges ==
    ASSUME IInv, UNCHANGED <<clock, pidFile, proc>>, file' \in Seq(Alarm)
    PROVE  IInv'
<1>1. clock \in Nat /\ clock <= clock /\ pidFile \in Nat
  BY DEF IInv, TypeOK
<1> QED BY <1>1, WorldMoves

\* A signal keeps the invariant of the daemon, whenever it comes.
LEMMA SignalKeeps ==
    ASSUME IInv, UNCHANGED world, ReachDaemon
    PROVE  IInv'
<1>1. CASE UNCHANGED proc
  BY <1>1, FileChanges DEF world, IInv, TypeOK
<1>2. CASE OnReload /\ UNCHANGED <<after, pid, mem, now, next, deadline, log>>
  BY <1>2, SignalArrives
<1> QED BY <1>1, <1>2 DEF ReachDaemon

\* The commands do not change while only the daemon or the clock moves.
LEMMA CommandsUnchanged ==
    ASSUME CInv, UNCHANGED cliVars
    PROVE  CInv'
<1>1. CliTypeOK'
  BY Zenon DEF CInv, CliTypeOK, cliVars
<1>2. WritesSorted'
  BY DEF CInv, WritesSorted, cliVars
<1> QED BY <1>1, <1>2 DEF CInv

\* Every step of the whole system keeps both invariants.
LEMMA StepSystem == TInv /\ [TodoxNext]_allVars => TInv'
<1> SUFFICES ASSUME TInv, [TodoxNext]_allVars PROVE TInv'
  OBVIOUS
<1> USE DEF TInv
<1>1. CASE DaemonMoves
  <2>1. [Next]_vars
    BY <1>1 DEF DaemonMoves, Next
  <2> QED BY <1>1, <2>1, StepInv, CommandsUnchanged DEF DaemonMoves
<1>2. ASSUME NEW c \in Clients, CommandMoves(c) PROVE TInv'
  <2>1. file \in Seq(Alarm) /\ clock \in Nat /\ UNCHANGED proc
    BY <1>2 DEF CommandMoves, IInv, TypeOK
  <2>2. CASE Begin(c)
    BY <2>1, <2>2, BeginKeeps, FileChanges DEF Begin, world
  <2>3. CASE Open(c) \/ Flush(c) \/ Interrupt(c)
    BY <2>1, <2>3, RunningKeeps, FileType, FileChanges
  <2> QED BY <1>2, <2>2, <2>3 DEF CommandMoves
<1>3. ASSUME NEW c \in Clients, KillDaemon(c) PROVE TInv'
  BY <1>3, KillKeeps, SignalKeeps DEF KillDaemon, Kill
<1>4. CASE Passing
  <2>1. Time
    BY <1>4 DEF Passing, Time
  <2>2. [Next]_vars
    BY <2>1 DEF Next
  <2> QED BY <1>4, <2>2, StepInv, CommandsUnchanged DEF Passing
<1>5. CASE UNCHANGED allVars
  <2>1. UNCHANGED <<clock, pidFile, proc>> /\ file' = file /\ UNCHANGED cliVars
    BY <1>5 DEF allVars, world
  <2> QED BY <2>1, FileChanges, CommandsUnchanged DEF IInv, TypeOK
<1> QED BY <1>1, <1>2, <1>3, <1>4, <1>5 DEF TodoxNext

\* Both invariants hold throughout.
LEMMA SystemInvariance == TodoxSpec => []TInv
<1>1. TodoxInit => TInv
  BY InitInv, InitCommands DEF TodoxInit, TInv
<1>2. TInv /\ [TodoxNext]_allVars => TInv'
  BY StepSystem
<1> QED BY <1>1, <1>2, PTL DEF TodoxSpec

\* Every variable of the commands keeps its type.
THEOREM CommandsTyped == TodoxSpec => []CliTypeOK
<1>1. TInv => CliTypeOK
  BY DEF TInv, CInv
<1> QED BY <1>1, SystemInvariance, PTL

\* A command that runs has a sorted table to write, and one that fits.
THEOREM CommandsWriteSorted == TodoxSpec => []WritesSorted
<1>1. TInv => WritesSorted
  BY DEF TInv, CInv
<1> QED BY <1>1, SystemInvariance, PTL

\* In the whole system notifications come in the strict order of their times.
THEOREM SystemNotifiesInOrder == TodoxSpec => []LogOrdered
<1>1. TInv => LogOrdered
  BY DEF TInv, IInv
<1> QED BY <1>1, SystemInvariance, PTL

\* In the whole system no notification comes before its time.
THEOREM SystemNeverEarly == TodoxSpec => []NeverEarly
<1>1. TInv => NeverEarly
  BY DEF TInv, IInv
<1> QED BY <1>1, SystemInvariance, PTL

-----------------------------------------------------------------------------
(* The commands are an environment of the daemon                           *)

\* What the daemon does is a step of Daemon with any edits.
LEMMA DaemonSteps ==
    Create \/ Crash \/ DaemonStep => D!Next
<1>1. Create => D!Create
  BY DEF Create, D!Create, world, D!world, NoPipe, D!NoPipe, Forever, D!Forever
<1>2. Crash => D!Crash
  BY DEF Crash, D!Crash, world, D!world
<1>3. DaemonStep => D!DaemonStep
  <2>1. OpenPidFile => D!OpenPidFile
    BY Zenon DEF OpenPidFile, D!OpenPidFile, NoPid, D!NoPid
  <2>2. WritePidFile => D!WritePidFile
    BY Zenon DEF WritePidFile, D!WritePidFile
  <2>3. ReloadAlarms => D!ReloadAlarms
    BY Zenon DEF ReloadAlarms, D!ReloadAlarms, world, D!world, ParseConfig,
                 D!ParseConfig, PushAll, D!PushAll, ByTime, D!ByTime, Rank,
                 D!Rank, Precedes, D!Precedes, Cardinality, D!Cardinality
  <2>4. Purge => D!Purge
    BY Zenon DEF Purge, D!Purge, world, D!world, Due, D!Due,
                 PurgePastAlarms, D!PurgePastAlarms, Advanced, D!Advanced,
                 AdvanceRepeatToFuture, D!AdvanceRepeatToFuture, Future,
                 D!Future, ByTime, D!ByTime, Rank, D!Rank, Precedes,
                 D!Precedes, Cardinality, D!Cardinality
  <2>5. OpenConfig => D!OpenConfig
    BY Zenon DEF OpenConfig, D!OpenConfig, OpenMaySucceed, D!OpenMaySucceed,
                 OpenMayFail, D!OpenMayFail, TruncateConfig,
                 D!TruncateConfig
  <2>6. FlushConfig => D!FlushConfig
    BY Zenon DEF FlushConfig, D!FlushConfig, WriteRows, D!WriteRows,
                 Overlays, D!Overlays
  <2>7. KillSelf => D!KillSelf
    BY Zenon DEF KillSelf, D!KillSelf, world, D!world, ByteAdded,
                 D!ByteAdded, NoPipe, D!NoPipe
  <2>8. ArmTimer => D!ArmTimer
    BY Zenon DEF ArmTimer, D!ArmTimer, world, D!world, IsNextAlarm,
                 D!IsNextAlarm, Future, D!Future, Timeout, D!Timeout,
                 Forever, D!Forever
  <2>9. SpinWithoutAlarm => D!SpinWithoutAlarm
    BY Zenon DEF SpinWithoutAlarm, D!SpinWithoutAlarm, world, D!world,
                 Future, D!Future
  <2>10. PollEvent => D!PollEvent
    BY Zenon DEF PollEvent, D!PollEvent, world, D!world
  <2>11. PollTimeout => D!PollTimeout
    BY Zenon DEF PollTimeout, D!PollTimeout, world, D!world, Forever,
                 D!Forever
  <2>12. Wake => D!Wake
    BY Zenon DEF Wake, D!Wake, world, D!world
  <2>13. NotifyDone => D!NotifyDone
    BY Zenon DEF NotifyDone, D!NotifyDone, world, D!world,
                 AdvanceRepeatAlarm, D!AdvanceRepeatAlarm,
                 NextWeeklyOccurrence, D!NextWeeklyOccurrence, InsertAt,
                 D!InsertAt, RemoveAt, D!RemoveAt
  <2> QED BY <2>1, <2>2, <2>3, <2>4, <2>5, <2>6, <2>7, <2>8, <2>9, <2>10,
             <2>11, <2>12, <2>13
          DEF DaemonStep, D!DaemonStep
<1> QED BY <1>1, <1>2, <1>3 DEF D!Next

\* Seen from the daemon every step is one of its own, an edit, a signal, the
\* clock, or nothing.
LEMMA SystemSteps ==
    ASSUME ~ Calm, TInv, [TodoxNext]_allVars
    PROVE  [D!Next]_(D!vars)
<1> USE DEF D!vars, D!world, D!proc
<1>1. CASE DaemonMoves
  BY <1>1, DaemonSteps DEF DaemonMoves
<1>2. ASSUME NEW c \in Clients, CommandMoves(c) PROVE [D!Next]_(D!vars)
  <2>1. UNCHANGED proc
    BY <1>2 DEF CommandMoves
  <2>2. CASE Begin(c)
    BY <2>1, <2>2 DEF Begin, world, proc
  <2>3. CASE Open(c) \/ Flush(c) \/ Interrupt(c)
    <3>1. D!Edit
      BY <2>1, <2>3, FileType DEF D!Edit, proc
    <3> QED BY <3>1 DEF D!Next
  <2> QED BY <1>2, <2>2, <2>3 DEF CommandMoves
<1>3. ASSUME NEW c \in Clients, KillDaemon(c) PROVE [D!Next]_(D!vars)
  <2>1. UNCHANGED world /\ ReachDaemon
    BY <1>3 DEF KillDaemon, Kill
  <2>2. CASE UNCHANGED proc
    BY <2>1, <2>2 DEF world, proc
  <2>3. CASE pc # "down" /\ OnReload
                /\ UNCHANGED <<after, pid, mem, now, next, deadline, log>>
    <3>1. D!Signal
      BY <2>1, <2>3 DEF D!Signal, D!OnReload, D!ByteAdded, D!NoPipe, OnReload,
                        ByteAdded, NoPipe, world
    <3> QED BY <3>1 DEF D!Next
  <2> QED BY <2>1, <2>2, <2>3 DEF ReachDaemon
<1>4. CASE Passing
  <2>1. D!Busy <=> Busy
    BY DEF Busy, D!Busy, PCs, D!PCs, Future, D!Future, ParseConfig,
           D!ParseConfig, PushAll, D!PushAll, ByTime, D!ByTime, Rank, D!Rank,
           Precedes, D!Precedes, Cardinality, D!Cardinality, Forever, D!Forever,
           Zenon
  <2>2. D!Time
    BY <1>4, <2>1 DEF Passing, Tick, proc, D!Time, D!Tick
  <2> QED BY <2>2 DEF D!Next
<1>5. CASE UNCHANGED allVars
  BY <1>5 DEF allVars, world, proc
<1> QED BY <1>1, <1>2, <1>3, <1>4, <1>5 DEF TodoxNext

\* The whole system implements the daemon in its open environment (unless the
\* commands are held back, as on an idle machine).
THEOREM TodoxImplementsDaemon ==
    ASSUME ~ Calm
    PROVE  TodoxSpec => ImplementsDaemon
<1>1. TodoxInit => D!Init
  BY DEF TodoxInit, Init, D!Init, NoPid, D!NoPid, NoPipe, D!NoPipe,
         Forever, D!Forever
<1>2. TInv /\ [TodoxNext]_allVars => [D!Next]_(D!vars)
  BY SystemSteps
<1> QED BY <1>1, <1>2, SystemInvariance, PTL DEF TodoxSpec, ImplementsDaemon, D!Spec

-----------------------------------------------------------------------------
(* No wake-up is lost                                                      *)

\* Between a reload and the sleep the daemon has the table of the file, or
\* there is a byte in the pipe, or a command is about to signal.
Upcoming == \E c \in Clients : cpc[c] \in {"flush", "kill"}

WInv == Settled /\ ~unsaid => mem = ParseConfig(file) \/ Upcoming

\* A step of the daemon keeps it: before the daemon sleeps it reads the file,
\* or writes it and signals itself.
LEMMA DaemonKeepsWInv ==
    ASSUME TInv, WInv, DaemonMoves
    PROVE  WInv'
<1>1. UNCHANGED <<cpc, unsaid>>
  BY DEF DaemonMoves, cliVars
<1>2. Settled' => mem' = ParseConfig(file') \/ (Settled /\ UNCHANGED <<mem, file>>)
  BY SettlesWithTable DEF DaemonMoves, TInv, IInv
<1> QED BY <1>1, <1>2 DEF WInv, Upcoming, ParseConfig

\* A command that empties the file goes on to signal, or is killed.
LEMMA CommandsAnnounce ==
    ASSUME CInv, NEW c \in Clients, CommandMoves(c), ~ Upcoming', ~ unsaid'
    PROVE  ~ Upcoming /\ ~ unsaid /\ UNCHANGED <<file, pidFile, proc>>
<1> USE DEF Upcoming
<1>1. UNCHANGED <<pidFile, proc>> /\ cpc \in [Clients -> {"idle", "open", "flush", "kill"}]
  BY DEF CommandMoves, Begin, Open, Flush, Interrupt, world, CInv, CliTypeOK
<1>2. CASE Begin(c)
  <2>1. UNCHANGED <<file, unsaid>> /\ cpc[c] = "idle"
    BY <1>2 DEF Begin, world
  <2>2. \A k \in Clients : cpc[k] # "idle" => cpc'[k] = cpc[k]
    <3>1. PICK cmd \in Commands : Invoke(c, cmd)
      BY <1>2 DEF Begin
    <3> QED BY <1>1, <2>1, <3>1 DEF Invoke
  <2> QED BY <1>1, <2>1, <2>2
<1>3. CASE Open(c)
  <2>1. cpc' # [cpc EXCEPT ![c] = "flush"]
    BY <1>1
  <2>2. /\ cpc' = [cpc EXCEPT ![c] = "idle"] /\ UNCHANGED file
        /\ unsaid' = unsaid /\ cpc[c] = "open"
    BY <1>3, <2>1 DEF Open
  <2>3. \A k \in Clients : cpc[k] \in {"flush", "kill"} => cpc'[k] = cpc[k]
    BY <1>1, <2>2
  <2> QED BY <1>1, <2>2, <2>3
<1>4. CASE Flush(c)
  BY <1>1, <1>4 DEF Flush
<1>5. CASE Interrupt(c)
  <2>1. /\ UNCHANGED file
        /\ cpc' = [cpc EXCEPT ![c] = "idle"]
        /\ unsaid' = (unsaid \/ cpc[c] # "open")
    BY <1>5 DEF Interrupt, world
  <2>2. ~ unsaid /\ cpc[c] = "open"
    BY <2>1
  <2>3. \A k \in Clients : cpc[k] \in {"flush", "kill"} => cpc'[k] = cpc[k]
    BY <1>1, <2>1, <2>2
  <2> QED BY <1>1, <2>1, <2>2, <2>3
<1> QED BY <1>2, <1>3, <1>4, <1>5 DEF CommandMoves

\* The signal reaches a daemon whose pid is in the file.
LEMMA SignalReaches ==
    ASSUME TypeOK, ReachDaemon, UNCHANGED world
    PROVE  ~ Settled'
<1>1. CASE pc # "down" /\ pidFile = pid
  <2>1. OnReload
    BY <1>1 DEF ReachDaemon
  <2> QED BY <2>1, SignalIsHeard
<1>2. CASE ~ (pc # "down" /\ pidFile = pid)
  <2>1. UNCHANGED <<pc, pid, pidFile>>
    BY <1>2 DEF ReachDaemon, proc, world
  <2> QED BY <1>2, <2>1 DEF Settled
<1> QED BY <1>1, <1>2

\* The commands keep it: who empties the file signals, or is killed.
LEMMA CommandsKeepWInv ==
    ASSUME TInv, WInv, NEW c \in Clients, CommandMoves(c) \/ KillDaemon(c)
    PROVE  WInv'
<1>1. CASE CommandMoves(c)
  BY <1>1, CommandsAnnounce DEF WInv, TInv, Settled, proc, ParseConfig
<1>2. CASE KillDaemon(c)
  BY <1>2, SignalReaches DEF KillDaemon, Kill, WInv, TInv, IInv
<1> QED BY <1>1, <1>2

\* It holds throughout.
LEMMA WakeInvariance == TodoxSpec => []WInv
<1>1. TodoxInit => WInv
  BY DEF TodoxInit, Init, WInv, Settled
<1>2. TInv /\ WInv /\ [TodoxNext]_allVars => WInv'
  <2> SUFFICES ASSUME TInv, WInv, [TodoxNext]_allVars PROVE WInv'
    OBVIOUS
  <2>1. CASE DaemonMoves
    BY <2>1, DaemonKeepsWInv
  <2>2. ASSUME NEW c \in Clients, CommandMoves(c) \/ KillDaemon(c) PROVE WInv'
    BY <2>2, CommandsKeepWInv
  <2>3. CASE Passing \/ UNCHANGED allVars
    <3>1. UNCHANGED <<file, pidFile, proc, cpc, unsaid>>
      BY <2>3 DEF Passing, allVars, cliVars, world
    <3> QED BY <3>1 DEF WInv, Upcoming, Settled, proc, ParseConfig
  <2> QED BY <2>1, <2>2, <2>3 DEF TodoxNext
<1> QED BY <1>1, <1>2, SystemInvariance, PTL DEF TodoxSpec

\* No wake-up is lost: a daemon that sleeps with an empty pipe, and whose pid
\* is in the file, has the current table.
THEOREM NoWakeupLost == TodoxSpec => []NoLostWakeup
<1>1. WInv => NoLostWakeup
  BY DEF WInv, Upcoming, Settled, NoLostWakeup
<1> QED BY <1>1, WakeInvariance, PTL

-----------------------------------------------------------------------------
(* Rows with an origin                                                     *)

\* A number of whole weeks leaves no remainder.
LEMMA WholeWeeks ==
    ASSUME NEW d \in Nat, NEW w \in Nat \ {0}
    PROVE  d % w = 0 <=> \E m \in Nat : d = w * m
<1>1. ASSUME NEW m \in Nat, d = w * m PROVE d % w = 0
  <2> DEFINE q == d \div w
             r == d % w
  <2>1. q \in Int /\ r \in 0..w-1 /\ d = w * q + r
    OBVIOUS
  <2> HIDE DEF q, r
  <2>2. r = w * (m - q)
    BY <1>1, <2>1
  <2>3. CASE m - q >= 1
    <3>1. w * (m - q) >= w
      BY <2>1, <2>3
    <3> QED BY <2>1, <2>2, <3>1
  <2>4. CASE m - q <= -1
    <3>1. w * (m - q) <= - w
      BY <2>1, <2>4
    <3> QED BY <2>1, <2>2, <3>1
  <2>5. CASE m - q = 0
    BY <2>1, <2>2, <2>5 DEF r
  <2> QED BY <2>1, <2>3, <2>4, <2>5
<1>2. ASSUME d % w = 0 PROVE \E m \in Nat : d = w * m
  <2> DEFINE q == d \div w
  <2>1. q \in Nat /\ d = w * q
    BY <1>2
  <2> QED BY <2>1
<1> QED BY <1>1, <1>2

\* An origin is a row, and the origin of itself.
LEMMA OriginOfItself ==
    ASSUME NEW o \in Origins, o \in Alarm
    PROVE  HasOrigin(o)
<1>1. o = [o EXCEPT !.ts = o.ts]
  BY DEF Alarm
<1> QED BY <1>1 DEF HasOrigin

\* A weekly row keeps its origin when it moves by whole weeks.
LEMMA MovedKeepsOrigin ==
    ASSUME NEW r \in Alarm, HasOrigin(r), r.does_repeat,
           NEW k \in Nat, NEW u, u = r.ts + Week * k, Origins \subseteq Alarm
    PROVE  HasOrigin([r EXCEPT !.ts = u])
<1>1. PICK o \in Origins :
         /\ r = [o EXCEPT !.ts = r.ts]
         /\ r.ts = o.ts \/ (o.does_repeat /\ r.ts > o.ts
                               /\ (r.ts - o.ts) % Week = 0)
  BY DEF HasOrigin
<1> DEFINE v == [r EXCEPT !.ts = u]
<1>2. o \in Alarm /\ o.ts \in Int /\ r.ts \in Int /\ Week \in Nat \ {0}
  BY WeekAssumption DEF Alarm
<1>3. v.ts = u /\ v = [o EXCEPT !.ts = u] /\ o.does_repeat
  BY <1>1, <1>2 DEF Alarm
<1>4. \E m \in Nat : r.ts - o.ts = Week * m
  <2>1. CASE r.ts = o.ts
    <3>1. r.ts - o.ts = Week * 0 /\ 0 \in Nat
      BY <1>2, <2>1
    <3> QED BY <3>1, Zenon
  <2>2. CASE r.ts > o.ts /\ (r.ts - o.ts) % Week = 0
    <3>1. r.ts - o.ts \in Nat
      BY <1>2, <2>2
    <3> QED BY <1>2, <2>2, <3>1, WholeWeeks
  <2> QED BY <1>1, <2>1, <2>2
<1>5. PICK m \in Nat : r.ts - o.ts = Week * m
  BY <1>4
<1>6. u - o.ts = Week * (m + k) /\ m + k \in Nat
  BY <1>2, <1>5
<1>7. u \in Int /\ u >= o.ts
  BY <1>2, <1>6
<1>8. u = o.ts \/ (u > o.ts /\ (u - o.ts) % Week = 0)
  <2>1. u - o.ts \in Nat
    BY <1>2, <1>7
  <2>2. (u - o.ts) % Week = 0
    BY <1>2, <1>6, <2>1, WholeWeeks
  <2> QED BY <1>2, <1>7, <2>2
<1> HIDE DEF v
<1> QED BY <1>3, <1>8 DEF HasOrigin, v

\* Every row of a table has an origin.
Known(lst) == \A r \in ToSet(lst) : HasOrigin(r)

\* Purging moves weekly rows by weeks, drops rows, and sorts.
LEMMA PurgeKnown ==
    ASSUME NEW lst \in Seq(Alarm), Known(lst), NEW t \in Int, Origins \subseteq Alarm
    PROVE  Known(PurgePastAlarms(lst, t))
<1>1. SUFFICES ASSUME NEW r \in ToSet(PurgePastAlarms(lst, t)) PROVE HasOrigin(r)
  BY DEF Known
<1>2. CASE r \in ToSet(lst)
  BY <1>2 DEF Known
<1>3. ASSUME NEW o \in ToSet(lst), o \in Alarm, o.does_repeat,
             r = [o EXCEPT !.ts = AdvanceRepeatToFuture(o.ts, t)]
      PROVE  HasOrigin(r)
  <2>1. o.ts \in Int /\ HasOrigin(o)
    BY <1>3 DEF Alarm, Known
  <2>2. PICK k \in Nat : AdvanceRepeatToFuture(o.ts, t) = o.ts + Week * k
    BY <2>1, AdvanceIsNextOccurrence
  <2> QED BY <1>3, <2>1, <2>2, MovedKeepsOrigin
<1> QED BY <1>2, <1>3, PurgeRows

\* Advancing a weekly alarm moves it one week and closes the gap.
LEMMA AdvanceKnown ==
    ASSUME NEW lst \in Seq(Alarm), Known(lst), NEW idx \in DOMAIN lst,
           lst[idx].does_repeat, Origins \subseteq Alarm
    PROVE  Known(AdvanceRepeatAlarm(lst, idx))
<1> DEFINE moved == [lst[idx] EXCEPT !.ts = lst[idx].ts + Week]
<1>1. lst[idx] \in Alarm /\ lst[idx].ts \in Int /\ HasOrigin(lst[idx])
  BY RowType DEF Known, ToSet
<1>2. lst[idx].ts + Week = lst[idx].ts + Week * 1 /\ 1 \in Nat
  BY <1>1, WeekAssumption
<1>3. HasOrigin(moved)
  BY <1>1, <1>2, MovedKeepsOrigin
<1>4. ToSet(AdvanceRepeatAlarm(lst, idx)) \subseteq ToSet(lst) \cup {moved}
  BY AdvanceRows
<1> HIDE DEF moved
<1> QED BY <1>3, <1>4 DEF Known

-----------------------------------------------------------------------------
(* The system                                                              *)

\* Where rows come from there are rows.
LEMMA OriginsType == Origins \subseteq Alarm
<1>1. ASSUME NEW f \in InitTables PROVE ToSet(f) \subseteq Alarm
  BY TablesAssumption, RowType DEF ToSet
<1>2. ASSUME NEW cmd \in Commands, NEW t \in 0..Horizon
      PROVE  ToSet(Items(cmd, t)) \subseteq Alarm
  BY CommandsAssumption, ItemsType, RowType DEF ToSet
<1> QED BY <1>1, <1>2 DEF Origins

\* The rows of an add are origins.
LEMMA ItemsKnown ==
    ASSUME NEW cmd \in Commands, cmd.op # "remove", NEW t \in 0..Horizon
    PROVE  Items(cmd, t) \in Seq(Alarm) /\ Known(Items(cmd, t))
<1>1. Items(cmd, t) \in Seq(Alarm)
  BY CommandsAssumption, ItemsType
<1>2. ToSet(Items(cmd, t)) \subseteq Origins
  BY DEF Origins
<1> QED BY <1>1, <1>2, OriginsType, OriginOfItself DEF Known

\* What a command is about to write has an origin.
LEMMA ChangedKnown ==
    ASSUME file \in Seq(Alarm), Known(file), NEW cmd \in Commands,
           clock \in 0..Horizon
    PROVE  Known(Changed(ParseConfig(file), cmd, clock))
<1> DEFINE lst == ParseConfig(file)
<1>1. lst \in Seq(Alarm) /\ Known(lst)
  BY ParseConfigType, ParseConfigRows DEF Known
<1> HIDE DEF lst
<1>2. CASE cmd.op = "remove"
  BY <1>1, <1>2, TaskRemoveAllRows DEF Changed, lst, Known
<1>3. CASE cmd.op # "remove"
  BY <1>1, <1>3, ItemsKnown, PushAllRows DEF Changed, lst, Known
<1> QED BY <1>2, <1>3

OInv == /\ clock <= Horizon
        /\ Known(file) /\ Known(mem) /\ Known(log)
        /\ \A c \in Clients : Known(ctab[c])

\* At first there is only a file somebody had.
LEMMA InitOrigin == TodoxInit => OInv
<1> SUFFICES ASSUME TodoxInit PROVE OInv
  OBVIOUS
<1>1. Known(<<>>)
  BY DEF Known, ToSet
<1>2. Known(file)
  <2>1. file \in InitTables
    BY DEF TodoxInit, Init
  <2>2. ToSet(file) \subseteq Origins
    BY <2>1 DEF Origins
  <2> QED BY <2>2, OriginsType, OriginOfItself DEF Known
<1> QED BY <1>1, <1>2, HorizonAssumption DEF TodoxInit, Init, CliInit, OInv

\* A step of the daemon moves weekly rows by weeks.
LEMMA DaemonKeepsOrigins ==
    ASSUME TInv, OInv, DaemonMoves
    PROVE  OInv'
<1>1. /\ file \in Seq(Alarm) /\ mem \in Seq(Alarm) /\ log \in Seq(Alarm)
      /\ clock \in Nat
  BY DEF TInv, IInv, TypeOK
<1>2. /\ UNCHANGED <<clock, ctab>> /\ clock <= Horizon
      /\ Known(file) /\ Known(mem) /\ Known(log)
      /\ \A c \in Clients : Known(ctab'[c])
  BY DEF DaemonMoves, cliVars, OInv, Create, Crash, DaemonStep, OpenPidFile,
         WritePidFile, ReloadAlarms, Purge, OpenConfig, FlushConfig, KillSelf,
         ArmTimer, SpinWithoutAlarm, PollEvent, PollTimeout, Wake, NotifyDone, world
<1>3. SUFFICES Known(file') /\ Known(mem') /\ Known(log')
  BY <1>2 DEF OInv
<1>4. Known(<<>>)
  BY DEF Known, ToSet
<1>5. CASE Create
  BY <1>2, <1>4, <1>5 DEF Create, world
<1>6. CASE ReloadAlarms
  BY <1>1, <1>2, <1>6, ParseConfigRows DEF ReloadAlarms, world, Known
<1>7. CASE Purge
  BY <1>1, <1>2, <1>7, PurgeKnown, OriginsType DEF Purge, world
<1>8. CASE OpenConfig
  BY <1>2, <1>4, <1>8 DEF OpenConfig, TruncateConfig
<1>9. CASE FlushConfig
  BY <1>1, <1>2, <1>9, WriteRowsRows DEF FlushConfig, Known
<1>10. CASE NotifyDone
  <2>1. next \in DOMAIN mem /\ UNCHANGED file
    BY <1>10 DEF NotifyDone, world, TInv, IInv, ArmedRow
  <2>2. Known(mem')
    <3>1. CASE mem[next].does_repeat
      BY <1>1, <1>2, <1>10, <2>1, <3>1, AdvanceKnown, OriginsType DEF NotifyDone
    <3>2. CASE ~ mem[next].does_repeat
      BY <1>2, <1>10, <3>2 DEF NotifyDone
    <3> QED BY <3>1, <3>2
  <2>3. Known(log')
    <3>1. HasOrigin(mem[next]) /\ mem[next] \in Alarm
      BY <1>1, <1>2, <2>1, RowType DEF Known, ToSet
    <3>2. ToSet(Append(log, mem[next])) = ToSet(log) \cup {mem[next]}
      BY <1>1, <3>1, AppendRows
    <3>4. Known(Append(log, mem[next]))
      BY <1>2, <3>1, <3>2 DEF Known
    <3> QED BY <1>2, <1>10, <3>4 DEF NotifyDone
  <2> QED BY <1>2, <2>1, <2>2, <2>3
<1>11. CASE Crash \/ OpenPidFile \/ WritePidFile \/ KillSelf \/ ArmTimer
            \/ SpinWithoutAlarm \/ PollEvent \/ PollTimeout \/ Wake
  BY <1>2, <1>11 DEF Crash, OpenPidFile, WritePidFile, KillSelf, ArmTimer,
     SpinWithoutAlarm, PollEvent, PollTimeout, Wake, world
<1> QED BY <1>5, <1>6, <1>7, <1>8, <1>9, <1>10, <1>11 DEF DaemonMoves, DaemonStep

\* A command writes rows it has read, and those it was asked to add.
LEMMA CommandKeepsOrigins ==
    ASSUME TInv, OInv, NEW c \in Clients, CommandMoves(c) \/ KillDaemon(c)
    PROVE  OInv'
<1>1. /\ file \in Seq(Alarm) /\ clock \in 0..Horizon
      /\ ctab \in [Clients -> Seq(Alarm)]
  BY HorizonAssumption DEF TInv, IInv, TypeOK, CInv, CliTypeOK, OInv
<1>2. UNCHANGED <<clock, mem, log>>
  BY DEF CommandMoves, KillDaemon, ReachDaemon, Begin, Open, Flush, Interrupt,
         Kill, world, proc
<1>3. /\ clock <= Horizon /\ Known(file) /\ Known(mem) /\ Known(log)
      /\ \A k \in Clients : Known(ctab[k])
  BY DEF OInv
<1>4. Known(<<>>)
  BY DEF Known, ToSet
<1>5. SUFFICES Known(file') /\ \A k \in Clients : Known(ctab'[k])
  BY <1>2, <1>3 DEF OInv
<1>6. CASE Begin(c)
  <2>1. PICK cmd \in Commands : Invoke(c, cmd)
    BY <1>6 DEF Begin
  <2>2. \/ ctab' = ctab
        \/ ctab' = [ctab EXCEPT ![c] = Changed(ParseConfig(file), cmd, clock)]
    BY <2>1 DEF Invoke
  <2>3. Known(Changed(ParseConfig(file), cmd, clock))
    BY <1>1, <1>3, ChangedKnown
  <2>4. UNCHANGED file
    BY <1>6 DEF Begin, world
  <2> QED BY <1>1, <1>3, <2>2, <2>3, <2>4
<1>7. CASE Open(c)
  BY <1>3, <1>4, <1>7 DEF Open, TruncateConfig
<1>8. CASE Flush(c)
  BY <1>1, <1>3, <1>8, WriteRowsRows DEF Flush, Known
<1>9. CASE Interrupt(c) \/ Kill(c)
  <2>1. UNCHANGED file /\ ctab' = [ctab EXCEPT ![c] = <<>>]
    BY <1>9 DEF Interrupt, Kill, world
  <2> QED BY <1>1, <1>3, <1>4, <2>1
<1> QED BY <1>6, <1>7, <1>8, <1>9 DEF CommandMoves, KillDaemon

\* The clock does not touch them.
LEMMA PassingKeepsOrigins ==
    ASSUME TInv, OInv, Passing \/ UNCHANGED allVars
    PROVE  OInv'
<1>1. UNCHANGED <<file, mem, log, ctab>>
  BY DEF Passing, allVars, cliVars, world, proc
<1>2. clock' <= Horizon
  <2>1. clock \in Nat /\ clock <= Horizon
    BY DEF TInv, IInv, TypeOK, OInv
  <2>2. clock' = clock \/ (clock < Horizon /\ clock' = clock + 1)
    BY DEF Passing, Tick, allVars, world
  <2> QED BY <2>1, <2>2, HorizonAssumption
<1> QED BY <1>1, <1>2 DEF OInv

\* It holds throughout.
LEMMA OriginInvariance == TodoxSpec => []OInv
<1>1. TInv /\ OInv /\ [TodoxNext]_allVars => OInv'
  BY DaemonKeepsOrigins, CommandKeepsOrigins, PassingKeepsOrigins DEF TodoxNext
<1> QED BY <1>1, InitOrigin, SystemInvariance, PTL DEF TodoxSpec

\* No interleaving of the daemon and any number of commands, and no failed
\* write or kill, makes up an alarm, or moves one but by whole weeks.
THEOREM RowsKeepOrigin == TodoxSpec => []RowsHaveOrigin
<1>1. OInv => RowsHaveOrigin
  BY DEF OInv, Known, RowsHaveOrigin
<1> QED BY <1>1, OriginInvariance, PTL
=============================================================================
