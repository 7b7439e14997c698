# todox in TLA+

`todox` keeps alarms in one text file. Short-lived commands (`todox add`,
`todox remove`, and the shell function `todox replace`) rewrite the file; a daemon
(`todox --daemonize`) reads it, sleeps until the next alarm, shows a desktop
notification and writes the file back. There is no lock. The parts are tied
together by the file, a pid file beside it, `SIGUSR1` and a pipe the daemon writes
to itself from its signal handler.

This directory models that system in TLA+, model-checks it with TLC and proves
the main safety properties of the alarm table, the daemon, the commands, `todox
replace`, the whole system with one daemon and with two, the calendar, the row format and
the D-Bus call with TLAPS. Paths below are relative to the repository.

## 1. The system

| Component | Code | State | Operations |
|---|---|---|---|
| Alarm table | `src/list/list.c`, parts of `src/notify/notify.c` | a sorted array of at most 128 rows | push, find, remove_all; sort, purge, advance, find_next |
| Alarm file | `src/time/table.c` | rows of the file, the pid file | `todox_parse_config`, `todox_write_config` (open and truncate, flush, signal) |
| Daemon | `src/notify/notify.c` | table, `now`, next index, sleep, wake-up pipe | create, loop, `todox_msleep`, `on_reload` |
| Commands | `src/app/app.c` | a table per process | `cmd_add` (two forms), `cmd_remove`, list |
| Shell wrapper | `todox.sh` | the words of the coming `add` | `todox replace`: list, remove, add |
| Row format | `src/app/parse.c`, `src/repeat/repeat.c`, `src/time/table.c` | none | three forms of `add`; one line to a row and back |
| Weekday schedule | `src/repeat/repeat.c` | none | weekday expressions, next occurrence, weekly step |
| Civil time | `src/time/time.c`, `src/repeat/repeat.c` | none | time stamps, zones, a bare time, daylight saving time (DST) |
| D-Bus client | `src/notify/dbus.c` | the bus address in the environment | one blocking call, at most five seconds |
| Listing | `src/app/io.c` | none | prints the table |
| Errors, installation | `src/error/error.c`, `install.sh` | none | `CRITICAL` exits the process; service files, restart policy |

How they interact: a command parses the file, checks and changes the table in
memory, opens the file with truncation, flushes the rows on `fclose`, then reads
the pid file and sends `SIGUSR1`. The daemon does the same write when it purged a
due row or moved a weekly one, and then signals itself. The handler puts a byte
into the pipe that the daemon polls while it sleeps; a signal that interrupts a
blocked `poll` is reported by `todox_msleep` as a timeout, not as an event.

What is hard about it: three kinds of process on one file without a lock; a
truncated file that others can read; a sleep computed from an old reading of the
clock; a handler that runs between any two steps; signals that come while the pid
file is empty; a daemon that dies and is restarted by the service manager, or is
started twice; commands killed in the middle of a write; writes that fail or stop
short; comparisons `<` and `<=` against the same second in three functions that must
agree; text that is written and read back by every process again and again.

What makes each component correct:

- Table: the in-place loops stay within the array, come to their end, keep order, lose
  no row (but those beyond the capacity) and keep ties in their order.
- Daemon: a notification is never early; the notifications come in order of time
  and no time is notified twice; on an idle machine each comes on time and no
  alarm is dropped; the daemon never sleeps on a table that is out of date.
- Commands: one at a time they are atomic operations on a bag of alarms.
- Replace: what it says it did it has done, and nothing else.
- Whole: no interleaving makes up or moves an alarm; an alarm that was added is
  notified; rows that are due leave the file; the same with two daemons.
- Row format: which rows come back from the file as they were written.
- Weekdays and civil time: the first occurrence strictly in the future, in every
  zone; a moment is the one that was written on the wall clock.
- D-Bus: every object is released once, whichever call fails.

## 2. The modules

| Module | What it is |
|---|---|
| `AlarmList` | the operations on tables, by their results; no recursion |
| `AlarmTable` | what calls on a table promise: each an operation of `AlarmList` in one step |
| `AlarmLoops` | the C loops behind them, over one array, round by round; implements `AlarmTable` |
| `AlarmFile` | clock, file, pid file; parse, truncate, flush; the faults |
| `Daemon` | the daemon, one action per step, in an open environment |
| `Notifier` | what the daemon promises, abstractly |
| `Cli` | the commands of several users |
| `TaskBook` | what commands that run one at a time promise: a bounded bag of rows |
| `Replace` | `todox replace` around the commands of `Cli`, without a daemon |
| `Todox` | daemon and commands composed, with fairness |
| `Service` | a second daemon beside `Todox` |
| `Weekdays` | weekday expressions and the calendar arithmetic |
| `CivilTime` | what a time stamp means, in a zone with DST |
| `RowFormat` | the text of a row on its way into the file and back |
| `Dbus` | the objects of a notification call and the fallback of the bus address |
| `AlarmListProofs`, `DaemonProofs`, `TodoxProofs`, `IdleProofs`, `ServiceProofs`, `ReplaceProofs`, `LoopProofs`, `AlgorithmProofs` | the theorems; each of the first four builds on the one before it, `ServiceProofs` and `ReplaceProofs` on `TodoxProofs`, the last two on `AlarmListProofs` |
| `MCValues`, `MCDaemon`, `MCReplace`, `MCTodox`, `MCService`, `MCAlgorithms` | instances for TLC |

`AlarmFile`, `AlarmTable` and `AlarmLoops` extend `AlarmList`; `Daemon`, `Cli` and
`Weekdays` extend `AlarmFile`; `Todox` extends `Daemon` and `Cli`; `Service` extends `Todox` and
instantiates `Daemon` twice, as `First` on the same variables and as `Second` on
variables of its own, both in an environment that may edit anything; `CivilTime` extends
`Weekdays`; `Replace` extends `Cli` and instantiates `Weekdays`. `RowFormat` and `Dbus`
stand alone. Operators marked `Mutant` are deliberately wrong versions of the
definition that follows them. Nothing uses them: they document which mistake in
the code each property would catch.

### From code to state

In `AlarmLoops` `tasks` and `len` are the fields of a `todox_list`; `at` is the loop that
runs, `row`, `pos`, `cnt`, `key` and `changed` the locals of these functions (which of
them, the module says), `call` the arguments and, as history, the table the call found.
In the other modules a call on a table is one step, by `AlarmList`, since no other
process sees the array.

A value of `pc` in `Daemon` (of `cpc[c]` in `Cli`, `script[c].at` in `Replace`, `at` in
`Dbus`) is a point where another process, the handler or the clock can come between
two steps; the comment at the head of each module lists them. `mem` is
`proc->alarm_list`, `now` and `next` are the locals `now` and `next_idx` of
`todox_notify_process_run`, `deadline` is when the `poll` in progress ends, `pipe`
counts bytes in the wake-up pipe. `current_index` is left out: every loop round
resets it to 0 in `reload_alarms` before it is read. `log`, `asked`, `acked`, `gone`,
`unsaid`, `outcome` and `owned` are history: notifications shown, what commands
promised when they returned 0, whether a command was killed after it emptied the
file and before it signalled, the replace that has just ended, references held.

| Action | Code |
|---|---|
| `Create`, `OpenPidFile`, `WritePidFile` | `todox_notify_process_create` |
| `ReloadAlarms`, `Purge`, `ArmTimer`, `SpinWithoutAlarm`, `Wake`, `NotifyDone` | the loop of `todox_notify_process_run`, in its order |
| `OpenConfig`, `FlushConfig`, `KillSelf` | `todox_write_config`, called by purge and after a weekly alarm |
| `PollEvent`, `PollTimeout`, `Signal`/`OnReload` | `todox_msleep` and `on_reload` |
| `Begin`, `Open`, `Flush`, `Kill` | `cmd_add`, `cmd_remove` up to the write, and the write |
| `List`, `RunRemove`, `RunAdd`, `CommandRuns`, `CommandReturns` | the function in `todox.sh`, and the commands it starts |
| `Edit`, `Signal`, `TakeOver` | what other processes may do to the daemon |
| `Crash`, `Interrupt` | the daemon or a command is killed |
| `EnterText`, `Rewrite` | `add` of a text; a process reads the file and writes it back |
| `Push`, `Find`, `RemoveOne`, `RemoveAll`, `Purge`, `FindNext`, `Advance` of `AlarmLoops` | a call of the functions of `list.c`, and of those of `notify.c` that work on the table |
| `Feed`, `SiftDown`, `Settle` | the rows of a file or of an `add` are pushed, one after another: `todox_task_push`; the latter two are the inner loop of `sort_alarms_by_time` as well |
| `Look`, `Scan`, `CloseUp`, `Closed` | `todox_task_find`, `todox_task_remove`, `todox_task_remove_all` |
| `Round`, `Weeks`, `Sort` | `purge_past_alarms`, `todox_advance_repeat_to_future`, `sort_alarms_by_time` |
| `Rise`, `SearchNext` | `advance_repeat_alarm`, `find_next_alarm` |
| `SetDbusMessage` to `Cleanup` | `todox_send_desktop_notification`, up to each call of libdbus that may fail |

What is abstracted. In the modules with processes a task and a comment are model
values, and a row is read back as it was written, except the row at the seam of two
overlapping writes, which is taken as unreadable; `RowFormat` says for which rows
that is so (`Plain`). There a text is a sequence of tokens (separator halves, blanks, a
line break, a stamp, a weekday, `repeat`, any other word), and texts are shorter
than the line buffer of 1024 bytes. A table fits one stdio buffer (a flush is one
write; a short write keeps any prefix of the rows). A time is a number of clock
units; a week is a constant number of them, which `WeeklyStepIsAWeek` justifies:
`mktime`, as the C library of GNU has it, believes the `tm_isdst` it is given, so the
weekly step is a week of seconds in any zone (and the wall clock moves across a
change). `poll`'s int of milliseconds wraps after `2 * PollSpan` units, the upper half
being negative (which `poll` takes as no timeout). A pid stands for one daemon and is
not used again. Signals sent to a daemon that is gone vanish. `Overlays` covers two
writers that both truncated and then flush at offset 0. libdbus and the C library's
time functions are external.

## 3. The runs

| Run | Asks | Bounds |
|---|---|---|
| `faulty` | the daemon alone, every fault but a read-only file, foreign edits, foreign pids and signals at any point: `TypeOK`, `LogOrdered`, `NeverEarly`, `ArmedRow`, refinement of `Notifier` | 2 starts, clock to 3, weekly step 2, tables of 2 rows at capacity 2, pipe of 2 bytes read one at a time |
| `commands` | one user's commands and replaces: `CliTypeOK`, `WritesSorted`, `ReplaceTellsTruth`, refinement of `TaskBook` | three commands of eight kinds, replace of each title to each time of day and to a word that is none; nine files, among them weekly titles on every set of days the script knows, one it does not, and an unsorted file; days of two units, a zone half a day from UTC, capacity 7 (reached); 52 thousand states |
| `races` | two commands and the daemon, failing opens and writes, daemon and commands killed: `NoLostWakeup`, `RowsHaveOrigin`, refinement of `Daemon` with any edits | one command each, a weekly alarm that becomes due among them, 2 starts, clock to 2; 2 million states |
| `idle` | the idle machine: `PurgedWereNotified`, `NeverOversleeps`, `NotifiedOnTime`, and under fairness `AddedIsNotified`, `DueRowsLeave` | two commands of one user, two weekly periods among one-shot alarms, all times distinct, clock to 5 |
| `service` | two daemons and a command: `OwnerIsWoken`, `BothKeepRows`, each daemon refines `Daemon` | pids up to 2 in common, daemons and the command may be killed, a weekly alarm both notify and advance, clock to 1; 1 million states |
| `algorithms` | the sequential parts, see below | |

`algorithms` runs four machines that do not touch each other. `AlarmLoops` makes any
sequence of calls on one array of 3 slots, with rows of two tasks, one-shot and weekly,
pushed one by one or in a batch of four (one too many), and a clock up to two weekly
steps ahead: `LoopsTypeOK`, `TableSorted`, refinement of `AlarmTable`, `LoopsAdvance`, and
under fairness `EveryCallReturns`; 24 thousand states. `Weekdays` and `CivilTime` at every moment of more than four weeks, every zone within
a day, DST beginning and ending on the way: `NextIsFirst`, `StaysInPhase`,
`RangeCoversWeek` (the next occurrence against a direct definition),
`WeeklyStepIsAWeek`, `StampsReadBack`, `EnteredMeansWall`. `RowFormat` on 7 heads and 16
texts for each field, three or four fields, a field cut at 3 tokens, any number of
rewrites: `PlainSurvives`, `Settles`, `FormsAgree`. `Dbus` over two calls with every
step failing or not: `ReferencesBalanced`, `ConnectionIsUsed`.

Several of these say exactly when the code does what a user expects, so that the
other side of the equivalence is a statement about the code too:

- A row survives the file exactly if it is `Plain`; a weekly row with a separator in
  its comment or a `%` at its end, a task that ends in `%`, a line break, or a blank
  left by cutting does not. Rewriting can only shorten the line (`Settles`).
- The three forms of `add` agree unless a task or comment can be mistaken for a
  stamp, a weekday, a separator or padding.
- A stamp with a zone means the wall clock it shows exactly if the zone is spelt
  `+hhmm` or is zero: `strptime` takes `+09:00` and `Z` as well, `parse_tz_offset` does not.
  A bare time is an hour late if it falls into DST, since `tm_isdst` stays 0.
- One second at the turn of 1970 is taken for an error.

The bounds are small because the hazards are local: they need a second alarm, a
second week, one restart, one interleaved command, one failed write, one token out of
place. Each of these happens within the bounds, as the mutants and the violated runs
show: every property of these runs is violated when one definition is changed the
way a plausible mistake in the code would change it.

Six runs are expected to be violated. Each states what the repository says of
the program and shows that the code does otherwise.

| Run | Property | What happens |
|---|---|---|
| `sametime` | `PurgedWereNotified` | two alarms in one second: after the first notification the reload purges the second (`notify.c:142`) |
| `longsleep` | `NeverOversleeps` | more than 2^31 ms (24.8 days) ahead: the timeout wraps in `poll` (`notify.c:58`) |
| `readonly` | `DueHaveFired` | the daemon exits at its first purge (`table.c:50`, `error.c:25`); `install.sh:49` says alarms still fire |
| `writeback` | `CommandsLast` | the daemon writes a table it read before a command ran: the added row is gone, the removed one is back (`notify.c:157`, `notify.c:255`) |
| `replace` | `ReplaceKeepsTitle` | a title that is one-shot, or weekly on days that are no range, is removed and not added again (`todox.sh:73`) |
| `weeklylost` | `WeeklyStaysWeekly` | a weekly alarm with a separator in its comment, or a `%` at its end, is read back as a one-shot alarm (`parse.c:83`) |

Known besides these, from the same models:

- A wake-up byte in the pipe when the second of an alarm begins has the effect of
  `sametime` without a second alarm: the loop starts over and purges the alarm
  (`notify.c:229`); so has a notification call that blocks (`dbus.c:47`).
- Two commands at the same time lose one of two updates; `add` to a full table
  returns 0 (`list.c:13`); the weekday form of `add` does not apply the rule that a
  task has one comment (`app.c:180`). So `CommandsLast` and the capacity-free reading
  of `TaskBook` are not claimed.
- Of two daemons both show each alarm. The one whose pid was replaced is no longer
  signalled, sleeps with the table it has, and writes that table back at its next
  alarm, undoing what commands did meanwhile. `OwnerIsWoken` therefore speaks of the
  daemon that the pid file names, and only when nobody is about to write.

### Pace and fairness

`Prompt` says that the daemon's steps take no time compared with a clock unit (a
second), and the service manager's restart neither; `Calm` says that commands
start only while the daemon sleeps, and add only alarms still to come. Together they
are "the idle machine" and are assumed only where a run says so (`idle`, `sametime`,
`longsleep`, `readonly`); no property of `faulty`, `races` or `service` uses them, and
the theorems hold with and without them, except those of `IdleProofs`, which are about
such a machine, and the refinements `TodoxImplementsDaemon` and `BothAreDaemons`, which
take `~Calm` (under `Calm` the environment of `Daemon` may not move in the middle of a
command that has already started).

`FairLoops` (run `algorithms`): a process that is in a loop goes on running; weak fairness of
all rounds together, since one process runs them. No call has to be made.

`FairSpec` (run `idle`): weak fairness of the daemon's steps and of each step of a
command that runs, because the kernel schedules a process that can run and none of
these steps waits for another process; the daemon's loop has no step that is
enabled only now and then. `Create` is in it because the service manager restarts
the daemon. Starting a command is not fair. The clock is strongly fair because
`Prompt` disables it again and again; real time passes without being asked.
`CHECK_DEADLOCK FALSE` stands where the clock bound and the number of commands end
the behaviours.

## 4. The proofs

`AlarmListProofs`: for all tasks, comments, capacities and week lengths, the
stable order by time of any set of rows exists and is sorted and typed
(`ByTimeProperties`, from the lemma that every rank is taken by exactly one row),
`todox_task_push` keeps a sorted table sorted (`TaskPushKeepsOrder`), the weekly
step gives the least later time in phase (`AdvanceIsNextOccurrence`), and after a
purge every row is in the future (`PurgeLeavesFuture`).

`LoopProofs`: the C loops implement `AlarmTable` (`LoopsImplementTable`), for every
capacity, week, batch, clock and rows. `AlarmList` says in one expression what a
function gives; the code gets there by moving rows about in an array, one after another.
The bridge is `LInv`, which says for each loop what is still to be done: the operator of
`AlarmList`, applied to what is in the array now, gives what it gives on the table the
call has found.

- In an insertion (`SiftInv`) the array holds a row twice or `key` not at all; `Held` is
  the table with `key` where the hole is. The rows that key has passed are later than it,
  and ordering `Held` stably is what is left to do. A round swaps two rows of `Held` whose
  times differ, which changes nothing (`SortSwap`, `PushSwap`).
- While a task is removed (`CloseInv`) the table without the slot that is written over
  stays the same; when a row has gone, removing all rows of what is left gives the same
  table (`RemoveAllStep`).
- In the purge (`RoundInv`, `WeeksInv`) `Rest` is what was kept so far and what is still to
  be looked at, with the gap between the two indices left out. Dropping a row that is due, or
  moving a weekly one on by a week, leaves what the purge of `Rest` gives (`PurgeDrops`,
  `PurgeMoves`, `WeekByWeek`). When nothing changed, nothing was written elsewhere than it stood.
- In the move of a weekly row (`RiseInv`) all rows passed are earlier than it.

`StepLoops` has one lemma per action, each of which also says which step of `AlarmTable`
it is: the operation when the call returns, and nothing before. `LoopsStayInside` and
`LoopsLeaveOrder` are conjuncts of `LInv`: no index leaves the array, and a table that is
not being worked on is in order, without which the functions do not give the results
they promise (a push on a table out of order is no step of anything). `LoopsComeToEnd`
is `[][...]` that a pair of natural numbers, the rounds of the outer loop and those of the
inner one, decreases lexicographically; that a week is positive is what the weekly loop
needs. That each call then returns, under fairness, is `EveryCallReturns`, which TLC checks.

`DaemonProofs`: `Spec => []TypeOK`, `[]LogOrdered`, `[]NeverEarly`, `[]ArmedRow`
and `Spec => N!Spec` (the daemon implements `Notifier`), for every set of initial
tables, edits and foreign pids, all faults, all bounds. The assumptions are the named
ones of the modules, which say only what type each constant has.

`LogOrdered` is not inductive: what keeps the next notification later than all
before it is a chain of facts about where the daemon is. `IInv` adds it: at every
point everything notified is at or before the clock; from `arm` on, at or before
`now`; in `poll`, `wake` and `notify` the armed row exists and is strictly later
than everything notified (`ArmedRow`), because `find_next_alarm` looks only after
`now`; in `notify` its time has come. A step that appends to the log
therefore appends something later. `Arming` is the lemma for that step,
`LogUnchanged` disposes of all steps that leave log, table and index alone,
`StepInv` has one step per action.

`TodoxProofs`: the same for the whole system, any number of concurrent commands
included.

- The commands. `CInv` is `CliTypeOK` and `WritesSorted`: whatever `cmd_add` or
  `cmd_remove` make of a table that was parsed is typed, sorted and within the
  capacity (`ChangedProperties`, from the lemmas on push and sort), and a command
  keeps that table until it has written it (`CommandsTyped`, `CommandsWriteSorted`).
- The composition. `TInv` is `IInv` and `CInv`: neither is inductive alone, because the
  daemon reads what commands wrote, and is signalled by them. `StepSystem` has one
  step per kind of mover. It gives `SystemNotifiesInOrder` and `SystemNeverEarly`.
- The refinement. `TodoxImplementsDaemon`: seen from the daemon every step of the
  system is a step of its own, an edit, a signal, the clock, or nothing
  (`SystemSteps`), provided that commands are not held back (`~Calm`).
- The wake-up. `NoLostWakeup` speaks of a sleeping daemon; the fact that carries it,
  `WInv`, begins earlier: from the reload on (`purge`, `arm`, `poll`), a daemon with an
  empty pipe and its pid in the file is `Settled`, that is, has the table of the file,
  unless somebody is between truncation and signal or was killed there. The daemon
  keeps it since it either reads the file or signals itself after its write (`DaemonKeepsWInv`); a
  command keeps it since whoever empties the file becomes the one who has still to
  signal (`CommandsKeepWInv`) and the signal leaves a byte (`SignalKeepsWInv`).

`RowsKeepOrigin`, in the same module: `TodoxSpec => []RowsHaveOrigin`. The invariant, `OInv`, says of each table
anywhere (file, daemon, log, every command) that its rows have an origin, and that
the clock is within its bound, since the rows of a weekly `add` depend on when it
runs. One lemma per operation says that it brings no row of its own; the arithmetic
is in `MovedKeepsOrigin`: a row that moves by whole weeks keeps its origin (from
`WholeWeeks`, a number of weeks leaves no remainder, and `AdvanceIsNextOccurrence`). A
flush needs the old file too, because writers overlay each other
(`WriteRowsKnown`).

`IdleProofs`: what depends on how fast the daemon is. Its theorems have hypotheses,
because without them the properties are false, as three of the violated runs show.

- `NeverOversleeps` and `NotifiedOnTime`, for the daemon in its open environment and
  for the whole system, from `Prompt` (the daemon's steps take no time), a week and
  all alarms less than `PollSpan`, the 2^31 ms of `poll`, ahead (`SoonEdits`; or
  `SoonTables` and `SoonCommands`). Nothing is assumed of faults, crashes, signals or
  the number of commands. `PInv` carries it: while the daemon is between its purge and
  its sleep `now` is the clock, if there is an alarm to sleep for; in its sleep the
  deadline is the time of the armed row, and the clock does not pass that time before
  it is notified. `SInv` adds that the tables of the commands are as near as the file.
- `PurgedWereNotified` (`PurgedOnlyNotified`), from `Idle` (`Prompt` and `Calm`, no fault but a
  write that stops short), the bounds above, `NothingDue` (no row of the first file is
  due at the start) and `OwnTimes` (two rows that may ever be in one table have
  different times: `sametime` shows what happens otherwise). `QInv` says of each row that
  somebody may read (in the daemon's table, in what a parse of the file gives, in a
  command that runs) that it is to come, was notified, or is the armed one
  (`AllSaid`); that rows before the armed one are past; and that once the armed row is
  due no command runs and the pipe is empty, so that nothing takes the daemon back to
  its purge before it notifies. Rows of the file beyond the capacity, which nobody
  reads, may be past and unsaid; they matter only when a writer overlays them, and
  then the file was truncated first (`Flushing`). The step uses `IInv`, `WInv`, `OInv` and
  `SInv`: a table in memory is that of the file while nobody writes, and rows that meet
  at one time are one row.

All hypotheses hold of the instance of run `idle`. `QInv` was checked by TLC first, on
the bounds of `idle` with two users and writes that stop short.

`ServiceProofs`: two daemons and any number of commands. The lemmas about one daemon
are used twice, for the second one through an instance of `TodoxProofs` on its
variables (`P2`); to each daemon a step of the other is an edit, a signal or an entry in
the pid file (`WorldMoves`, `SignalArrives`).

- `BothStayInOrder` (`BInv`: `TInv` and the same for the second daemon, which never has
  the pid of the first) and `BothAreDaemons`, the refinement, step by step
  (`ServiceSteps`), under `~Calm` and `~Prompt`, since a daemon does not wait for another.
- `BothDaemonsKeepRows` (`RInv`: every row in any of the tables has an origin).
- `OwnerWokenByAll` (`HInv`: each daemon is `Settled` with what the other and the commands
  are about to write) assumes that pid files can be written, and needs it: a
  second daemon that could not create its pid file can be killed in the middle of a
  write and be restarted; then nobody is left to signal the first one, whose pid is
  still in the file. TLC shows this with the fault `pidfile` and three starts, and
  finds no other way without it. In `src/time/table.c:79` and `src/notify/notify.c:182`
  nothing notices it.

`AlgorithmProofs`, first part: the calendar arithmetic at every moment (any integer `clock`), for every
length of a day, any zone less than a day from UTC and any period of DST. From the
division lemmas (`Split`: a number is its day and its time of day), the next occurrence
of a weekday is a moment of that day and time within a week (`NextOccurs`), two
occurrences are whole weeks apart, hence `NextOccurrenceIsFirst`, `WeeksStayInPhase`,
`RangesCoverWeek`; `WeekIsAlwaysAWeek`, `StampsSurvive`, `TypedTimeOnTheWall` for `CivilTime`.
`ZoneAssumption` says what they use: summer time moves the clock forward, and no zone,
in winter or in summer, is a day away from UTC.

`ReplaceProofs`: `ReplaceDoesWhatItSays`, that is `[]ReplaceTellsTruth`, from `Undisturbed`
(one user, and a file that can be written: with a second writer one of two updates can be
lost, and a write that stops short loses rows). It holds for
every first file, also one that is longer than a table or not in order, every sequence of
commands and replaces, every zone and length of a day. `VInv` says, for each point of the
function, what the file or the table of the running command holds: what the list showed,
that table without the title (`Without`), that table with the title at its new time
(`Moved`). Three chains of lemmas carry it. The words of the `add` mean each of the listed
days once, if the script has a word for them, and otherwise nothing (`WordsMeanDays`,
`PayloadSays`: so the `add` is refused exactly then). Each phase becomes a moment of that
day at that time in the zone (`PhaseInWeek`, `AddedOnDay`), although the listing, the
script and the parser compute it in three places. And nothing is lost to the capacity:
there are no more days than there were rows of the title (`DaysAreFew`), so what is added
fits where these were (`RemovalLeaves`, `PushedWhole`, `ParsedWhole`).

`CommandsKeepBook` is the refinement: the same system implements `TaskBook`, for first
files that fit a table (of a longer one the first command drops rows, which is no step of
the book). The bag of rows changes when a command opens the file, before it has flushed
its rows: `Table` is then the table of that command, and `KInv` says that a command about
to open has a table that is the file without one task, or with rows pushed (`Ready`). So
the step is one of the book by what removal and pushing do to bags (`RemovalBag`,
`PushBag`: as many rows as there was room for, each copy counted; `SizeOfTable`: a bag is
as large as its table), and reading the file back loses no row (`ReadBag`). The
hypothesis `Undisturbed` is needed: with two writers a lost update is no step of the book.

`AlgorithmProofs`, second part: `DInv` says that the process owns exactly one reference to each local that is
not null (with `LocalsInv`, which locals these can be at each point, so that no object is
obtained twice), and that an error stands only where no connection was obtained. Both
properties of `Dbus` follow, for any number of calls.

`AlgorithmProofs`, third part: `TextInv` says that the rows of the file and the row that was
entered are rows whose two fields fit (`FieldRow`); all else is about one row of that kind, of
any length up to `FieldLen`. It gives `PlainRowsSurvive`, `RewritingSettles` and
`ThreeFormsAgree`, for every `FieldLen`, any texts that are typed and any number of rewrites.

- Separators. A text has one first separator (`FirstOnly`), is what is before it and what is
  after it (`SepSplit`), and two texts put around a separator are found again exactly if the first
  one neither has a separator nor ends in half of one (`SepJoin`, `SepFree`).
- Trimming and cutting. What is left is a prefix (or a suffix) of the text, and is
  the text itself if it is as long (`TrimIs`, `TrimOnly`, `LeftIs`, `CutIs`); trimming does not
  reach across a separator (`TrimJoin`, `LeftJoin`, `BothJoin`).
- The file. The rows that are read are those of the lines between two breaks (`LineAtIs`).
  The recursive function in `FlattenSeq` is met by its least counterexample: there is no first
  index at which what it gives is not what it should be (`FlattenIs`, `FlattenLast`).
- `PlainRowsSurvive` is then two implications: the line of a plain row gives the row
  (`PlainGives`); and a row that its line gives back is plain, since a field that was
  trimmed or split is shorter than it was (`GivesPlain`, by counting tokens).
- `RewritingSettles` is that count too (`LineSettles`): what is read from a line is not longer
  than the line, and is that line if it is as long.
- `ThreeFormsAgree` takes the forms one by one (`EnteredFirst`, `EnteredSecond`, `EnteredThird`).
  The interesting half is that a form which must not give the row does not: if the comment
  holds a separator, the second form gives a shorter comment or, read as the first form, a task
  and a comment that together are shorter than what was typed.

Only model-checked: liveness (`AddedIsNotified`, `DueRowsLeave`, `EveryCallReturns`), because
fairness and `ENABLED` are outside TLAPS.

## 5. Not modelled

Printing (`io.c`, but for the stamp it lists), error formatting, the words of the
notification and the D-Bus message, and installation, whose restart policy is the
restart in `Daemon`. `todox_task_remove` is called by a test only (it is in
`AlarmLoops`); `todox_notify_wakeup` and `todox_notify_process_destroy` are never called
by the program. A list of eight weekdays is stored before its length is compared
with seven (`repeat.c:97`): the lists of the model have no fixed size. Reuse of a pid by
another program is left out. `replace` is not composed with the daemon: what another
process does between its remove and its add is what it may do between two commands,
which `races` has.

## 6. Plan

1. A run of `Replace` beside the daemon, and larger instances of `Service`.
2. `NoLostWakeup` for a daemon and its successor as a liveness property: a change to
   the file is in the table of the daemon after a while.
