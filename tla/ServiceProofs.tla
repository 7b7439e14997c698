--------------------------- MODULE ServiceProofs ---------------------------
(***************************************************************************)
(* Two daemons on one alarm file: what is proved of one daemon holds of    *)
(* each of them, and what they write over each other is no new alarm.      *)
(*                                                                         *)
(* The lemmas about the daemon are used twice, for the first as they are   *)
(* and for the second through P2, the same modules on its variables.       *)
(***************************************************************************)
EXTENDS Service, TodoxProofs

P2 == INSTANCE TodoxProofs WITH
        Edits <- Seq(Alarm), OtherPids <- Nat,
        pc <- pc2, after <- after2, pid <- pid2, mem <- mem2, now <- now2,
        next <- next2, deadline <- deadline2, pipe <- pipe2, log <- log2

-----------------------------------------------------------------------------
(* The second daemon                                                       *)

\* The instances that Service and this module make of one daemon agree.
LEMMA SameTable ==
    /\ P2!Alarm = Alarm /\ P2!FaultKinds = FaultKinds /\ P2!Command = Command
    /\ \A rows : P2!ParseConfig(rows) = ParseConfig(rows)
BY Zenon DEF P2!Alarm, Alarm, P2!FaultKinds, FaultKinds, P2!Command, Command,
     P2!ParseConfig, ParseConfig, P2!PushAll, PushAll, P2!ByTime, ByTime,
     P2!Rank, Rank, P2!Precedes, Precedes, P2!Cardinality, Cardinality

LEMMA SameActions ==
    /\ Second!Create => P2!Create
    /\ Second!Crash => P2!Crash
    /\ Second!DaemonStep => P2!DaemonStep
    /\ Second!KillSelf => P2!KillSelf
    /\ ReachSecond => P2!ReachDaemon
<1> USE DEF Second!world, P2!world, Second!NoPipe, P2!NoPipe, Second!Forever,
            P2!Forever, Second!NoPid, P2!NoPid
<1>1. Second!Create => P2!Create
  BY Zenon DEF Second!Create, P2!Create
<1>2. Second!Crash => P2!Crash
  BY Zenon DEF Second!Crash, P2!Crash
<1>3. Second!DaemonStep => P2!DaemonStep
  BY Zenon DEF
     Second!DaemonStep, P2!DaemonStep, Second!OpenPidFile, P2!OpenPidFile,
     Second!WritePidFile, P2!WritePidFile, Second!ReloadAlarms, P2!ReloadAlarms,
     Second!Purge, P2!Purge, Second!OpenConfig, P2!OpenConfig,
     Second!FlushConfig, P2!FlushConfig, Second!KillSelf, P2!KillSelf,
     Second!ArmTimer, P2!ArmTimer, Second!SpinWithoutAlarm, P2!SpinWithoutAlarm,
     Second!PollEvent, P2!PollEvent, Second!PollTimeout, P2!PollTimeout,
     Second!Wake, P2!Wake, Second!NotifyDone, P2!NotifyDone,
     Second!ParseConfig, P2!ParseConfig, Second!PushAll, P2!PushAll,
     Second!ByTime, P2!ByTime, Second!Rank, P2!Rank, Second!Precedes,
     P2!Precedes, Second!Cardinality, P2!Cardinality, Second!Due, P2!Due,
     Second!Future, P2!Future, Second!PurgePastAlarms, P2!PurgePastAlarms,
     Second!Advanced, P2!Advanced, Second!AdvanceRepeatToFuture,
     P2!AdvanceRepeatToFuture, Second!OpenMayFail, P2!OpenMayFail,
     Second!OpenMaySucceed, P2!OpenMaySucceed, Second!TruncateConfig,
     P2!TruncateConfig, Second!WriteRows, P2!WriteRows, Second!Overlays,
     P2!Overlays, Second!ByteAdded, P2!ByteAdded, Second!IsNextAlarm,
     P2!IsNextAlarm, Second!Timeout, P2!Timeout, Second!AdvanceRepeatAlarm,
     P2!AdvanceRepeatAlarm, Second!NextWeeklyOccurrence,
     P2!NextWeeklyOccurrence, Second!InsertAt, P2!InsertAt, Second!RemoveAt,
     P2!RemoveAt
<1>4. Second!KillSelf => P2!KillSelf
  BY Zenon DEF Second!KillSelf, P2!KillSelf, Second!ByteAdded, P2!ByteAdded
<1>5. ReachSecond => P2!ReachDaemon
  BY Zenon DEF ReachSecond, P2!ReachDaemon, Second!OnReload, P2!OnReload,
     Second!ByteAdded, P2!ByteAdded, proc2, P2!proc
<1> QED BY <1>1, <1>2, <1>3, <1>4, <1>5

\* What is assumed of the constants holds for the second daemon as well.
LEMMA SameConstants ==
    /\ InitTables \subseteq Seq(P2!Alarm) /\ Seq(Alarm) \subseteq Seq(P2!Alarm)
    /\ Nat \subseteq Nat
    /\ Faults \subseteq P2!FaultKinds
    /\ Commands \subseteq P2!Command
    /\ \A cmd \in Commands : cmd.op = "add" => Len(cmd.times) = 1
    /\ NoComment \in Comments /\ MaxCommands \in Nat
    /\ PipeCap \in Nat \ {0} /\ ReadChunk \in Nat \ {0} /\ PollSpan \in Nat \ {0}
    /\ MaxStarts \in Nat /\ Prompt \in BOOLEAN /\ Calm \in BOOLEAN
    /\ MaxRows \in Nat \ {0} /\ Week \in Nat \ {0} /\ Horizon \in Nat
BY SameTable, TablesAssumption, FaultsAssumption, CommandsAssumption,
   PipeAssumption, PollAssumption, StartsAssumption, PaceAssumption,
   MaxRowsAssumption, WeekAssumption, HorizonAssumption

\* The second daemon keeps its invariant by its own steps,
LEMMA SecondKeeps ==
    ASSUME P2!IInv, P2!Create \/ P2!Crash \/ P2!DaemonStep
    PROVE  P2!IInv'
<1>1. P2!IInv /\ [P2!Next]_(P2!vars) => P2!IInv'
  BY P2!StepInv, SameConstants
<1> QED BY <1>1 DEF P2!Next

\* by what the others do,
LEMMA SecondStandsBy ==
    ASSUME P2!IInv, UNCHANGED proc2, clock' \in Nat, clock <= clock',
           file' \in Seq(Alarm), pidFile' \in Nat
    PROVE  P2!IInv'
<1>1. UNCHANGED P2!proc /\ file' \in Seq(P2!Alarm)
  BY SameTable DEF proc2, P2!proc
<1> QED
  BY <1>1, P2!WorldMoves, SameConstants

\* and when it is signalled.
LEMMA SecondSignalled ==
    ASSUME P2!IInv, UNCHANGED world, ReachSecond
    PROVE  P2!IInv'
<1>1. UNCHANGED P2!world /\ P2!ReachDaemon
  BY SameActions DEF world, P2!world
<1> QED
  BY <1>1, P2!SignalKeeps, SameConstants

\* At first it has not started.
LEMMA SecondInit == ServiceInit => P2!IInv
<1>1. Second!Init => P2!Init
  BY Zenon DEF Second!Init, P2!Init, Second!NoPid, P2!NoPid, Second!NoPipe,
               P2!NoPipe, Second!Forever, P2!Forever
<1>2. P2!Init => P2!IInv
  BY P2!InitInv, SameConstants
<1> QED BY <1>1, <1>2 DEF ServiceInit

-----------------------------------------------------------------------------
(* Both daemons keep their types, their order and their pids               *)

\* A daemon's step, as the other one sees it.
LEMMA FirstSteps ==
    ASSUME FirstMoves
    PROVE  /\ DaemonMoves
           /\ UNCHANGED proc2 \/ (UNCHANGED world /\ ReachSecond)
BY DEF FirstMoves, DaemonMoves, DaemonStep, KillSelf

LEMMA SecondSteps ==
    ASSUME SecondMoves
    PROVE  /\ P2!DaemonMoves /\ UNCHANGED cliVars
           /\ UNCHANGED proc \/ (UNCHANGED world /\ ReachDaemon)
<1>1. P2!Create \/ P2!Crash \/ P2!DaemonStep
  BY SameActions DEF SecondMoves, P2!DaemonStep
<1>2. UNCHANGED P2!cliVars /\ UNCHANGED cliVars
  BY DEF SecondMoves, cliVars, P2!cliVars
<1>3. UNCHANGED proc \/ (P2!KillSelf /\ ReachDaemon)
  BY SameActions DEF SecondMoves
<1>4. P2!KillSelf => UNCHANGED world
  BY DEF P2!KillSelf, P2!world, world
<1> QED BY <1>1, <1>2, <1>3, <1>4 DEF P2!DaemonMoves

\* No two daemons, and no two starts, have the same process id.
PidsDiffer ==
    /\ pc # "down" => pid # NoPid
    /\ pc2 # "down" => pid2 # NoPid
    /\ pid = pid2 => pid = NoPid

BInv == TInv /\ P2!IInv /\ PidsDiffer

LEMMA FirstKeepsBInv ==
    ASSUME BInv, FirstMoves
    PROVE  BInv'
<1>1. TInv /\ P2!IInv /\ DaemonMoves
  BY FirstSteps DEF BInv
<1>2. TInv'
  BY <1>1, StepSystem DEF TodoxNext
<1>3. /\ clock' \in Nat /\ file' \in Seq(Alarm) /\ pidFile' \in Nat
      /\ clock <= clock'
  <2>1. clock' = clock
    BY <1>1, OneFileAtATime DEF DaemonMoves
  <2> QED BY <1>2, <2>1 DEF TInv, IInv, TypeOK
<1>4. P2!IInv'
  BY <1>1, <1>3, FirstSteps, SecondStandsBy, SecondSignalled
<1>5. PidsDiffer'
  <2>1. UNCHANGED pid2 /\ (pc2' # "down" => pc2 # "down")
    BY FirstSteps DEF proc2, ReachSecond, Second!OnReload
  <2>2. CASE UNCHANGED pid /\ (pc' # "down" => pc # "down")
    BY <2>1, <2>2 DEF BInv, PidsDiffer, NoPid
  <2>3. CASE Create
    <3>1. pid' > pid2
      BY <2>3 DEF FirstMoves, Create, DaemonStep, OpenPidFile, WritePidFile,
             ReloadAlarms, Purge, OpenConfig, FlushConfig, KillSelf, ArmTimer,
             SpinWithoutAlarm, PollEvent, PollTimeout, Wake, NotifyDone, Crash
    <3>2. pid' \in Nat /\ pid2 \in Nat
      BY <1>1, <1>2 DEF TInv, IInv, TypeOK, P2!IInv, P2!TypeOK
    <3>3. pid' # NoPid /\ pid' # pid2
      BY <3>1, <3>2 DEF NoPid
    <3> QED BY <2>1, <3>3 DEF BInv, PidsDiffer, NoPid
  <2> QED BY <1>1, <2>2, <2>3, PidStays DEF DaemonMoves
<1> QED BY <1>2, <1>4, <1>5 DEF BInv

LEMMA SecondKeepsBInv ==
    ASSUME BInv, SecondMoves
    PROVE  BInv'
<1>1. TInv /\ IInv /\ CInv /\ P2!IInv /\ P2!DaemonMoves /\ UNCHANGED cliVars
  BY SecondSteps DEF BInv, TInv
<1>2. P2!IInv'
  BY <1>1, SecondKeeps DEF P2!DaemonMoves
<1>3. /\ clock' \in Nat /\ file' \in Seq(Alarm) /\ pidFile' \in Nat
      /\ clock <= clock'
  <2>1. clock' = clock
    BY <1>1, P2!OneFileAtATime, SameConstants DEF P2!DaemonMoves
  <2> QED BY <1>1, <1>2, <2>1, SameTable DEF IInv, TypeOK, P2!IInv, P2!TypeOK
<1>4. IInv'
  BY <1>1, <1>3, SecondSteps, WorldMoves, SignalKeeps
<1>5. CInv'
  BY <1>1, CommandsUnchanged
<1>6. PidsDiffer'
  <2>1. UNCHANGED pid /\ (pc' # "down" => pc # "down")
    BY SecondSteps DEF proc, ReachDaemon, OnReload
  <2>2. CASE UNCHANGED pid2 /\ (pc2' # "down" => pc2 # "down")
    BY <2>1, <2>2 DEF BInv, PidsDiffer, NoPid
  <2>3. CASE P2!Create
    <3>1. pid2' > pid
      BY <2>3 DEF SecondMoves, P2!Create, Second!DaemonStep, Second!OpenPidFile,
             Second!WritePidFile, Second!ReloadAlarms, Second!Purge,
             Second!OpenConfig, Second!FlushConfig, Second!KillSelf,
             Second!ArmTimer, Second!SpinWithoutAlarm, Second!PollEvent,
             Second!PollTimeout, Second!Wake, Second!NotifyDone, Second!Crash
    <3>2. pid2' \in Nat /\ pid \in Nat
      BY <1>1, <1>2 DEF IInv, TypeOK, P2!IInv, P2!TypeOK
    <3>3. pid2' # NoPid /\ pid2' # pid
      BY <3>1, <3>2 DEF NoPid
    <3> QED BY <2>1, <3>3 DEF BInv, PidsDiffer, NoPid
  <2> QED BY <1>1, <2>2, <2>3, P2!PidStays, SameConstants DEF P2!DaemonMoves
<1> QED BY <1>2, <1>4, <1>5, <1>6 DEF BInv, TInv

\* A command keeps it, also when it signals one of the daemons.
LEMMA CommandKeepsBInv ==
    ASSUME BInv, NEW c \in Clients,
           (CommandMoves(c) /\ UNCHANGED proc2) \/ KillOwner(c)
    PROVE  BInv'
<1>1. TInv /\ P2!IInv /\ (CommandMoves(c) \/ KillDaemon(c))
  BY DEF BInv, KillOwner
<1>2. TInv'
  BY <1>1, StepSystem DEF TodoxNext
<1>3. clock' = clock
  BY <1>1 DEF CommandMoves, KillDaemon, Begin, Open, Flush, Interrupt, Kill, world
<1>4. /\ clock' \in Nat /\ file' \in Seq(Alarm) /\ pidFile' \in Nat
      /\ clock <= clock'
  BY <1>2, <1>3 DEF TInv, IInv, TypeOK
<1>5. UNCHANGED proc2 \/ (UNCHANGED world /\ ReachSecond)
  BY DEF KillOwner, KillDaemon, Kill
<1>6. P2!IInv'
  BY <1>1, <1>4, <1>5, SecondStandsBy, SecondSignalled
<1>7. PidsDiffer'
  <2>1. /\ UNCHANGED <<pid, pid2>>
        /\ pc' # "down" => pc # "down"
        /\ pc2' # "down" => pc2 # "down"
    BY <1>1, <1>5 DEF CommandMoves, KillDaemon, ReachDaemon, OnReload, proc,
                      ReachSecond, Second!OnReload, proc2
  <2> QED BY <2>1 DEF BInv, PidsDiffer, NoPid
<1> QED BY <1>2, <1>6, <1>7 DEF BInv

LEMMA BothInvariance == ServiceSpec => []BInv
<1>1. ServiceInit => BInv
  BY InitInv, InitCommands, SecondInit
     DEF ServiceInit, TodoxInit, Init, Second!Init, BInv, TInv, PidsDiffer, NoPid
<1>2. BInv /\ [ServiceNext]_serviceVars => BInv'
  <2> SUFFICES ASSUME BInv, [ServiceNext]_serviceVars PROVE BInv'
    OBVIOUS
  <2>1. CASE FirstMoves
    BY <2>1, FirstKeepsBInv
  <2>2. CASE SecondMoves
    BY <2>2, SecondKeepsBInv
  <2>3. ASSUME NEW c \in Clients,
               (CommandMoves(c) /\ UNCHANGED proc2) \/ KillOwner(c)
        PROVE  BInv'
    BY <2>3, CommandKeepsBInv
  <2>4. CASE (Passing /\ UNCHANGED proc2) \/ UNCHANGED serviceVars
    <3>1. /\ [TodoxNext]_allVars
          /\ UNCHANGED <<proc, proc2>> /\ (clock' = clock \/ clock' = clock + 1)
      BY <2>4 DEF TodoxNext, serviceVars, allVars, Passing, Tick, world
    <3>2. TInv'
      BY <3>1, StepSystem DEF BInv
    <3>3. /\ clock' \in Nat /\ file' \in Seq(Alarm) /\ pidFile' \in Nat
          /\ clock <= clock'
      BY <3>1, <3>2 DEF BInv, TInv, IInv, TypeOK
    <3>4. P2!IInv'
      BY <3>1, <3>3, SecondStandsBy DEF BInv
    <3> QED BY <3>1, <3>2, <3>4 DEF BInv, PidsDiffer, proc, proc2
  <2> QED BY <2>1, <2>2, <2>3, <2>4 DEF ServiceNext
<1> QED BY <1>1, <1>2, PTL DEF ServiceSpec

\* Each daemon keeps its types, and shows no alarm early, twice or out of
\* order, whatever the other one writes meanwhile.
THEOREM BothStayInOrder ==
    ServiceSpec => [](/\ TypeOK /\ LogOrdered /\ NeverEarly
                      /\ Second!LogOrdered /\ Second!NeverEarly)
<1>1. BInv => /\ TypeOK /\ LogOrdered /\ NeverEarly
              /\ Second!LogOrdered /\ Second!NeverEarly
  BY DEF BInv, TInv, IInv, P2!IInv, P2!LogOrdered, Second!LogOrdered,
         P2!NeverEarly, Second!NeverEarly
<1> QED BY <1>1, BothInvariance, PTL

-----------------------------------------------------------------------------
(* The rows                                                                *)

\* Both daemons mean the same by a row with an origin.
LEMMA SameKnown == \A lst : P2!Known(lst) <=> Known(lst)
<1>1. \A cmd, t : P2!Items(cmd, t) = Items(cmd, t)
  BY Zenon DEF P2!Items, Items, P2!NextWeekdayTimestamp,
     NextWeekdayTimestamp, P2!AdvanceRepeatToFuture, AdvanceRepeatToFuture
<1>2. \A s : P2!ToSet(s) = ToSet(s)
  BY Zenon DEF P2!ToSet, ToSet
<1>3. P2!Origins = Origins
  BY <1>1, <1>2 DEF P2!Origins, Origins
<1>4. \A r : P2!HasOrigin(r) <=> HasOrigin(r)
  BY <1>3, Zenon DEF P2!HasOrigin, HasOrigin
<1> QED BY <1>2, <1>4, Zenon DEF P2!Known, Known

RInv == OInv /\ Known(mem2) /\ Known(log2)

\* The second daemon keeps them as the first does.
LEMMA SecondKeepsOrigins ==
    ASSUME BInv, RInv, SecondMoves
    PROVE  RInv'
<1>1. P2!OInv
  BY SameKnown DEF RInv, OInv, P2!OInv
<1>2. P2!TInv
  <2>1. P2!CInv
    BY Zenon DEF BInv, TInv, CInv, P2!CInv, CliTypeOK, P2!CliTypeOK, Alarm, P2!Alarm,
           WritesSorted, P2!WritesSorted, IsSortedByTime, P2!IsSortedByTime
  <2> QED BY <2>1 DEF BInv, P2!TInv
<1>3. P2!OInv'
  BY <1>1, <1>2, SecondSteps, P2!DaemonKeepsOrigins, SameConstants
<1>4. UNCHANGED <<mem, log>>
  BY SecondSteps DEF proc, ReachDaemon
<1>5. Known(mem) /\ Known(log)
  BY DEF RInv, OInv
<1> QED BY <1>3, <1>4, <1>5, SameKnown DEF P2!OInv, RInv, OInv

\* Two daemons and the commands, over each other, make up no alarm and move
\* none but by weeks.
THEOREM BothDaemonsKeepRows == ServiceSpec => []BothKeepRows
<1>1. ServiceInit => RInv
  <2> SUFFICES ASSUME ServiceInit PROVE RInv
    OBVIOUS
  <2>1. Known(<<>>)
    BY DEF Known, ToSet
  <2> QED BY <2>1, InitOrigin DEF ServiceInit, Second!Init, RInv
<1>2. BInv /\ RInv /\ [ServiceNext]_serviceVars => RInv'
  <2> SUFFICES ASSUME BInv, RInv, [ServiceNext]_serviceVars PROVE RInv'
    OBVIOUS
  <2>1. TInv /\ OInv /\ Known(mem2) /\ Known(log2)
    BY DEF BInv, RInv
  <2>2. CASE SecondMoves
    BY <2>2, SecondKeepsOrigins
  <2>3. CASE FirstMoves
    <3>1. UNCHANGED <<mem2, log2>>
      BY <2>3, FirstSteps DEF proc2, ReachSecond
    <3> QED BY <2>1, <2>3, <3>1, FirstSteps, DaemonKeepsOrigins DEF RInv
  <2>4. ASSUME NEW c \in Clients,
               (CommandMoves(c) /\ UNCHANGED proc2) \/ KillOwner(c)
        PROVE  RInv'
    <3>1. UNCHANGED <<mem2, log2>>
      BY <2>4 DEF proc2, KillOwner, ReachSecond
    <3> QED BY <2>1, <2>4, <3>1, CommandKeepsOrigins DEF RInv, KillOwner
  <2>5. CASE (Passing /\ UNCHANGED proc2) \/ UNCHANGED serviceVars
    <3>1. UNCHANGED <<mem2, log2>> /\ (Passing \/ UNCHANGED allVars)
      BY <2>5 DEF proc2, serviceVars
    <3>2. OInv'
      BY <2>1, <3>1, PassingKeepsOrigins
    <3> QED BY <2>1, <3>1, <3>2 DEF RInv
  <2> QED BY <2>2, <2>3, <2>4, <2>5 DEF ServiceNext
<1>3. RInv => BothKeepRows
  BY DEF RInv, OInv, Known, BothKeepRows
<1> QED BY <1>1, <1>2, <1>3, BothInvariance, PTL DEF ServiceSpec

-----------------------------------------------------------------------------
(* Wake-ups                                                                *)

\* Unless somebody is writing, a daemon that is in the pid file and about to
\* sleep has the table of the file.
HInv == ~ Writing => /\ Settled => mem = ParseConfig(file)
                     /\ P2!Settled => mem2 = ParseConfig(file)

\* Writing, as the lemmas about one daemon have it.
LEMMA WritingParts == Writing <=> Upcoming \/ unsaid \/ Midway \/ P2!Midway
BY DEF Writing, Upcoming, Midway, P2!Midway

\* A daemon that stands still and finds the pid file changed is not in it.
LEMMA FirstKeepsHInv ==
    ASSUME "pidfile" \notin Faults, BInv, HInv, FirstMoves
    PROVE  HInv'
<1>1. SUFFICES ASSUME ~ Writing'
               PROVE  /\ Settled' => mem' = ParseConfig(file')
                      /\ P2!Settled' => mem2' = ParseConfig(file')
  BY DEF HInv, ParseConfig
<1>2. /\ TypeOK /\ P2!TypeOK /\ UNCHANGED <<cpc, unsaid>>
      /\ Create \/ Crash \/ DaemonStep
  BY FirstSteps DEF BInv, TInv, IInv, P2!IInv, DaemonMoves, cliVars
<1>3. ~ Upcoming /\ ~ unsaid /\ ~ Midway' /\ ~ P2!Midway'
  BY <1>1, <1>2 DEF Writing, Upcoming, Midway, P2!Midway
<1>4. ~ P2!Midway
  BY <1>3, FirstSteps DEF proc2, ReachSecond, Second!OnReload, P2!Midway
<1>5. ASSUME Settled' PROVE mem' = ParseConfig(file')
  <2>1. CASE mem' = ParseConfig(file')
    BY <2>1
  <2>2. CASE Settled /\ UNCHANGED <<mem, file>>
    <3>1. ~ Midway
      BY <2>2 DEF Settled, Midway
    <3> QED BY <1>3, <1>4, <2>2, <3>1, WritingParts DEF HInv, ParseConfig
  <2> QED BY <1>2, <1>5, <2>1, <2>2, SettlesWithTable
<1>6. ASSUME P2!Settled' PROVE mem2' = ParseConfig(file')
  <2>1. CASE UNCHANGED world /\ ReachSecond
    <3>1. UNCHANGED P2!world /\ P2!ReachDaemon
      BY <2>1, SameActions DEF world, P2!world
    <3> QED BY <1>2, <1>6, <3>1, P2!SignalReaches, SameConstants
  <2>2. CASE UNCHANGED proc2 /\ (Create \/ Crash \/ (pc # "kill" /\ DaemonStep))
    <3>1. pc2 # "down" /\ pidFile' = pid2 /\ pid2 # NoPid /\ pid # pid2
      BY <1>6, <2>2 DEF P2!Settled, proc2, BInv, PidsDiffer
    <3>2. ~ Midway /\ UNCHANGED file /\ pidFile' = pidFile
      BY <1>3, <2>2, <3>1, ComesOut
    <3>3. P2!Settled /\ mem2' = mem2
      BY <1>6, <2>2, <3>2 DEF P2!Settled, proc2
    <3> QED BY <1>3, <1>4, <3>2, <3>3, WritingParts DEF HInv, ParseConfig
  <2> QED BY <2>1, <2>2, FirstSteps DEF FirstMoves, KillSelf
<1> QED BY <1>5, <1>6

LEMMA SecondKeepsHInv ==
    ASSUME "pidfile" \notin Faults, BInv, HInv, SecondMoves
    PROVE  HInv'
<1>1. SUFFICES ASSUME ~ Writing'
               PROVE  /\ Settled' => mem' = ParseConfig(file')
                      /\ P2!Settled' => mem2' = ParseConfig(file')
  BY DEF HInv, ParseConfig
<1>2. /\ TypeOK /\ P2!TypeOK /\ UNCHANGED <<cpc, unsaid>>
      /\ P2!Create \/ P2!Crash \/ P2!DaemonStep
  BY SecondSteps DEF BInv, TInv, IInv, P2!IInv, P2!DaemonMoves, cliVars
<1>3. ~ Upcoming /\ ~ unsaid /\ ~ Midway' /\ ~ P2!Midway'
  BY <1>1, <1>2 DEF Writing, Upcoming, Midway, P2!Midway
<1>4. ~ Midway
  BY <1>3, SecondSteps DEF proc, ReachDaemon, OnReload, Midway
<1>5. ASSUME P2!Settled' PROVE mem2' = ParseConfig(file')
  <2>1. CASE mem2' = P2!ParseConfig(file')
    BY <2>1, SameTable
  <2>2. CASE P2!Settled /\ UNCHANGED <<mem2, file>>
    <3>1. ~ P2!Midway
      BY <2>2 DEF P2!Settled, P2!Midway
    <3> QED BY <1>3, <1>4, <2>2, <3>1, WritingParts DEF HInv, ParseConfig
  <2> QED BY <1>2, <1>5, <2>1, <2>2, P2!SettlesWithTable, SameConstants
<1>6. ASSUME Settled' PROVE mem' = ParseConfig(file')
  <2>1. CASE UNCHANGED world /\ ReachDaemon
    BY <1>2, <1>6, <2>1, SignalReaches
  <2>2. CASE UNCHANGED proc /\ (P2!Create \/ P2!Crash
                                  \/ (pc2 # "kill" /\ P2!DaemonStep))
    <3>1. pc # "down" /\ pidFile' = pid /\ pid # NoPid /\ pid # pid2
      BY <1>6, <2>2 DEF Settled, proc, BInv, PidsDiffer
    <3>2. ~ P2!Midway /\ UNCHANGED file /\ pidFile' = pidFile
      BY <1>3, <2>2, <3>1, P2!ComesOut, SameConstants DEF NoPid, P2!NoPid
    <3>3. Settled /\ mem' = mem
      BY <1>6, <2>2, <3>2 DEF Settled, proc
    <3> QED BY <1>3, <1>4, <3>2, <3>3, WritingParts DEF HInv, ParseConfig
  <2> QED BY <2>1, <2>2, SecondSteps, SameActions
         DEF SecondMoves, Second!KillSelf, Second!world, world
<1> QED BY <1>5, <1>6

\* The commands announce what they write, to the daemon in the pid file.
LEMMA CommandKeepsHInv ==
    ASSUME BInv, HInv, NEW c \in Clients,
           (CommandMoves(c) /\ UNCHANGED proc2) \/ KillOwner(c)
    PROVE  HInv'
<1>1. TypeOK /\ P2!TypeOK /\ CInv
  BY DEF BInv, TInv, IInv, P2!IInv
<1>2. CASE CommandMoves(c) /\ UNCHANGED proc2
  <2>1. SUFFICES ASSUME ~ Writing' PROVE HInv'
    BY DEF HInv
  <2>2. ~ Upcoming' /\ ~ unsaid' /\ ~ Midway' /\ ~ P2!Midway'
    BY <2>1 DEF Writing, Upcoming, Midway, P2!Midway
  <2>3. ~ Upcoming /\ ~ unsaid /\ UNCHANGED <<file, pidFile, proc, proc2>>
    BY <1>1, <1>2, <2>2, CommandsAnnounce
  <2>4. ~ Writing
    BY <2>2, <2>3, WritingParts DEF Midway, P2!Midway, proc, proc2
  <2> QED BY <2>3, <2>4 DEF HInv, Settled, P2!Settled, ParseConfig, proc, proc2
<1>3. CASE KillOwner(c)
  <2>1. UNCHANGED world /\ UNCHANGED P2!world /\ ReachDaemon /\ P2!ReachDaemon
    BY <1>3, SameActions DEF KillOwner, KillDaemon, Kill, world, P2!world
  <2>2. ~ Settled' /\ ~ P2!Settled'
    BY <1>1, <2>1, SignalReaches, P2!SignalReaches, SameConstants
  <2> QED BY <2>2 DEF HInv
<1> QED BY <1>2, <1>3

\* Once all have written and signalled, the daemon that the pid file names
\* sleeps with the table of the file, whoever wrote it, provided a daemon can
\* create its pid file: one that cannot leaves the other's pid there, and may
\* start again after a crash in the middle of a write that the other was
\* never told of.
THEOREM OwnerWokenByAll ==
    ASSUME "pidfile" \notin Faults
    PROVE  ServiceSpec => []OwnerIsWoken
<1>1. ServiceInit => HInv
  BY DEF ServiceInit, TodoxInit, Init, HInv, Settled, Second!Init, P2!Settled
<1>2. BInv /\ HInv /\ [ServiceNext]_serviceVars => HInv'
  <2> SUFFICES ASSUME BInv, HInv, [ServiceNext]_serviceVars PROVE HInv'
    OBVIOUS
  <2>1. CASE (Passing /\ UNCHANGED proc2) \/ UNCHANGED serviceVars
    <3>1. UNCHANGED <<file, pidFile, proc, proc2, cpc, unsaid>>
      BY <2>1 DEF Passing, serviceVars, allVars, cliVars, world
    <3> QED BY <3>1 DEF HInv, Writing, Settled, P2!Settled, ParseConfig, proc, proc2
  <2> QED BY <2>1, FirstKeepsHInv, SecondKeepsHInv, CommandKeepsHInv DEF ServiceNext
<1>3. HInv => OwnerIsWoken
  BY DEF HInv, Settled, P2!Settled, OwnerIsWoken
<1> QED BY <1>1, <1>2, <1>3, BothInvariance, PTL DEF ServiceSpec

-----------------------------------------------------------------------------
(* Each of the two is the daemon of module Daemon                          *)

\* The first daemon, as the instance with any edits has it.
LEMMA FirstIsDaemon ==
    /\ Init => First!Init
    /\ Create \/ Crash \/ DaemonStep
          => First!Create \/ First!Crash \/ First!DaemonStep
    /\ OnReload => First!OnReload
BY Zenon DEF
     DaemonStep, First!DaemonStep, OpenPidFile, First!OpenPidFile,
     WritePidFile, First!WritePidFile, ReloadAlarms, First!ReloadAlarms, Purge,
     First!Purge, OpenConfig, First!OpenConfig, FlushConfig, First!FlushConfig,
     KillSelf, First!KillSelf, ArmTimer, First!ArmTimer, SpinWithoutAlarm,
     First!SpinWithoutAlarm, PollEvent, First!PollEvent, PollTimeout,
     First!PollTimeout, Wake, First!Wake, NotifyDone, First!NotifyDone,
     ParseConfig, First!ParseConfig, PushAll, First!PushAll, ByTime,
     First!ByTime, Rank, First!Rank, Precedes, First!Precedes, Cardinality,
     First!Cardinality, Due, First!Due, Future, First!Future, PurgePastAlarms,
     First!PurgePastAlarms, Advanced, First!Advanced, AdvanceRepeatToFuture,
     First!AdvanceRepeatToFuture, OpenMayFail, First!OpenMayFail,
     OpenMaySucceed, First!OpenMaySucceed, TruncateConfig,
     First!TruncateConfig, WriteRows, First!WriteRows, Overlays,
     First!Overlays, ByteAdded, First!ByteAdded, IsNextAlarm,
     First!IsNextAlarm, Timeout, First!Timeout, AdvanceRepeatAlarm,
     First!AdvanceRepeatAlarm, NextWeeklyOccurrence,
     First!NextWeeklyOccurrence, InsertAt, First!InsertAt, RemoveAt,
     First!RemoveAt, Create, First!Create, Crash, First!Crash, OnReload,
     First!OnReload, world, First!world, NoPipe, First!NoPipe, NoPid,
     First!NoPid, Forever, First!Forever, Init, First!Init

\* What the other processes do one at a time are edits of the file, or of the
\* pid file, and signals.
LEMMA OthersOfFirst ==
    ASSUME ~ Calm, BInv', clock' = clock, file' = file \/ pidFile' = pidFile,
           UNCHANGED proc \/ (UNCHANGED world /\ ReachDaemon)
    PROVE  [First!Next]_(First!vars)
<1> USE DEF First!vars, First!world, First!proc
<1>1. file' \in Seq(Alarm) /\ pidFile' \in Nat
  BY DEF BInv, TInv, IInv, TypeOK
<1>2. CASE UNCHANGED proc
  <2>1. CASE pidFile' = pidFile
    BY <1>1, <1>2, <2>1 DEF proc, First!Next, First!Edit
  <2>2. CASE file' = file
    BY <1>1, <1>2, <2>2 DEF proc, First!Next, First!TakeOver
  <2> QED BY <2>1, <2>2
<1>3. CASE UNCHANGED world /\ pc # "down" /\ OnReload
              /\ UNCHANGED <<after, pid, mem, now, next, deadline, log>>
  <2>1. First!Signal
    BY <1>3, FirstIsDaemon DEF First!Signal, world
  <2> QED BY <2>1 DEF First!Next
<1> QED BY <1>2, <1>3 DEF ReachDaemon

LEMMA OthersOfSecond ==
    ASSUME ~ Calm, BInv', clock' = clock, file' = file \/ pidFile' = pidFile,
           UNCHANGED proc2 \/ (UNCHANGED world /\ ReachSecond)
    PROVE  [Second!Next]_(Second!vars)
<1> USE DEF Second!vars, Second!world, Second!proc
<1>1. file' \in Seq(Alarm) /\ pidFile' \in Nat
  BY DEF BInv, TInv, IInv, TypeOK
<1>2. CASE UNCHANGED proc2
  <2>1. CASE pidFile' = pidFile
    BY <1>1, <1>2, <2>1 DEF proc2, Second!Next, Second!Edit
  <2>2. CASE file' = file
    BY <1>1, <1>2, <2>2 DEF proc2, Second!Next, Second!TakeOver
  <2> QED BY <2>1, <2>2
<1>3. CASE UNCHANGED world /\ pc2 # "down" /\ Second!OnReload
              /\ UNCHANGED <<after2, pid2, mem2, now2, next2, deadline2, log2>>
  <2>1. Second!Signal
    BY <1>3 DEF Second!Signal, world
  <2> QED BY <2>1 DEF Second!Next
<1> QED BY <1>2, <1>3 DEF ReachSecond

\* Every step of the service is a step of either daemon as module Daemon has
\* it, or leaves that daemon and its world alone.
LEMMA ServiceSteps ==
    ASSUME ~ Calm, ~ Prompt, BInv, BInv', [ServiceNext]_serviceVars
    PROVE  [First!Next]_(First!vars) /\ [Second!Next]_(Second!vars)
<1>1. CASE FirstMoves
  <2>1. Create \/ Crash \/ DaemonStep
    BY <1>1, FirstSteps DEF DaemonMoves
  <2>2. First!Next
    BY <2>1, FirstIsDaemon DEF First!Next
  <2>3. [Second!Next]_(Second!vars)
    BY <1>1, <2>1, FirstSteps, OneFileAtATime, OthersOfSecond
  <2> QED BY <2>2, <2>3
<1>2. CASE SecondMoves
  <2>1. P2!Create \/ P2!Crash \/ P2!DaemonStep
    BY <1>2, SecondSteps DEF P2!DaemonMoves
  <2>2. Second!Next
    BY <1>2 DEF SecondMoves, Second!Next, Second!DaemonStep
  <2>3. clock' = clock /\ (file' = file \/ pidFile' = pidFile)
    BY <2>1, P2!OneFileAtATime, SameConstants
  <2>4. [First!Next]_(First!vars)
    BY <1>2, <2>3, SecondSteps, OthersOfFirst
  <2> QED BY <2>2, <2>4
<1>3. ASSUME NEW c \in Clients,
             (CommandMoves(c) /\ UNCHANGED proc2) \/ KillOwner(c)
      PROVE  [First!Next]_(First!vars) /\ [Second!Next]_(Second!vars)
  <2>1. /\ clock' = clock /\ pidFile' = pidFile
        /\ UNCHANGED proc \/ (UNCHANGED world /\ ReachDaemon)
        /\ UNCHANGED proc2 \/ (UNCHANGED world /\ ReachSecond)
    BY <1>3 DEF CommandMoves, KillOwner, KillDaemon, Begin, Open, Flush,
                Interrupt, Kill, world
  <2> QED BY <2>1, OthersOfFirst, OthersOfSecond
<1>4. CASE Passing /\ UNCHANGED proc2
  <2>1. First!Time /\ Second!Time
    BY <1>4 DEF Passing, Tick, First!Time, First!Tick, First!proc, proc,
                Second!Time, Second!Tick, Second!proc, proc2
  <2> QED BY <2>1 DEF First!Next, Second!Next
<1>5. CASE UNCHANGED serviceVars
  BY <1>5 DEF serviceVars, allVars, world, proc, proc2, First!vars, First!world,
              First!proc, Second!vars, Second!world, Second!proc
<1> QED BY <1>1, <1>2, <1>3, <1>4, <1>5 DEF ServiceNext

\* Each of two daemons, with the commands and the other one as its environment,
\* is the daemon of module Daemon: two of them need no other rules.  (On an
\* idle machine the commands and the clock wait for the first only.)
THEOREM BothAreDaemons ==
    ASSUME ~ Calm, ~ Prompt
    PROVE  ServiceSpec => BothImplementDaemon
<1>1. ServiceInit => First!Init /\ Second!Init
  BY FirstIsDaemon DEF ServiceInit, TodoxInit
<1>2. BInv /\ BInv' /\ [ServiceNext]_serviceVars
          => [First!Next]_(First!vars) /\ [Second!Next]_(Second!vars)
  BY ServiceSteps
<1> QED BY <1>1, <1>2, BothInvariance, PTL
        DEF ServiceSpec, BothImplementDaemon, First!Spec, Second!Spec

=============================================================================
