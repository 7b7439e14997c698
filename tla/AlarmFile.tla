---------------------------- MODULE AlarmFile ----------------------------
(***************************************************************************)
(* What the processes share: the alarm file, the pid file beside it and    *)
(* the clock (src/src/time/table.c).                                       *)
(*                                                                         *)
(* The file is a sequence of rows.  todox_write_config is three steps that *)
(* other processes can come between: fopen(.., "wt") empties the file, the *)
(* rows stay in the stdio buffer until fclose flushes them, and then the   *)
(* pid file is read and the daemon signalled.  A table is assumed to fit   *)
(* one stdio buffer, so it is flushed by one write.                        *)
(***************************************************************************)
EXTENDS AlarmList

CONSTANTS
    Faults,     \* which failures the environment may cause, see FaultKinds
    Horizon     \* bound: the clock stops here

(* "pipe", "pidfile": the daemon cannot create its pipe, its pid file;     *)
(* "open": opening the alarm file for writing may fail, "readonly": it     *)
(* always fails; "write": a flush may stop short (a full disk); "notify":  *)
(* the notification call may fail; "crash": the daemon may be killed at    *)
(* any step; "interrupt": a command may be killed at any step.             *)
FaultKinds == {"pipe", "pidfile", "open", "readonly", "write", "notify",
               "crash", "interrupt"}

ASSUME FaultsAssumption  == Faults \subseteq FaultKinds
ASSUME HorizonAssumption == Horizon \in Nat

VARIABLES
    clock,      \* time(nullptr)
    file,       \* rows of the alarm file
    pidFile     \* process id in <alarm file>.pid, NoPid if absent or empty

NoPid == 0

world == <<clock, file, pidFile>>

\* todox_parse_config: the rows are pushed in file order on an empty table.
ParseConfig(rows) == PushAll(<<>>, rows)

\* Mutant: the file is opened without truncating it.
KeepConfig == UNCHANGED file

\* fopen(config, "wt") has emptied the file.
TruncateConfig == file' = <<>>

OpenMayFail    == Faults \cap {"open", "readonly"} # {}
OpenMaySucceed == "readonly" \notin Faults

\* What the file can hold once lst is written over old from offset 0.  Old
\* rows survive only if another writer flushed after this one's fopen; the
\* row that straddles the end of lst becomes a line that does not parse.
Overlays(lst, old) ==
    IF lst = <<>> THEN {old}
    ELSE {lst \o SubSeq(old, k, Len(old)) : k \in 2..Len(old) + 2}

\* The fprintf loop and fclose.
WriteRows(lst) ==
    \/ file' \in Overlays(lst, file)
    \/ /\ "write" \in Faults
       /\ \E n \in 0..Len(lst) : file' \in Overlays(SubSeq(lst, 1, n), file)

Tick == /\ clock < Horizon
        /\ clock' = clock + 1
=============================================================================
