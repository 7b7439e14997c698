------------------------------- MODULE Dbus -------------------------------
(***************************************************************************)
(* todox_send_desktop_notification (src/src/notify/dbus.c), called by the  *)
(* daemon once for each alarm that is due.  Module Daemon has the call as  *)
(* one step that succeeds or fails; here are the objects it holds and the  *)
(* session bus address, which outlives the call in the environment.        *)
(*                                                                         *)
(* libdbus is external: each of its calls gives an object, or fails and    *)
(* sets the error that it was handed.  dpc is the next step of the call:   *)
(*   idle, bus, derive, check, call, cleanup, done (it has returned)       *)
(***************************************************************************)
EXTENDS Integers, FiniteSets

CONSTANTS
    SessionAddress, \* DBUS_SESSION_BUS_ADDRESS at the start: set or not
    RuntimeDir,     \* XDG_RUNTIME_DIR: set (and short enough for addr) or not
    MaxCalls        \* bound: notifications

ASSUME DbusAssumption == /\ {SessionAddress, RuntimeDir} \subseteq BOOLEAN
                         /\ MaxCalls \in Nat

VARIABLES
    dpc,
    address,    \* "unset", "given" or "derived": DBUS_SESSION_BUS_ADDRESS
    held,       \* msg, conn, reply: the locals that are not null
    owned,      \* references to each object this process owns (history)
    err,        \* the DBusError holds an error
    sent,       \* what the call returns
    calls       \* calls made (bound)

bus == <<dpc, address, held, owned, err, sent, calls>>

Objects == {"msg", "conn", "reply"}

DbusInit ==
    /\ dpc = "idle"
    /\ address = IF SessionAddress THEN "given" ELSE "unset"
    /\ held = {} /\ owned = [o \in Objects |-> 0]
    /\ err = FALSE /\ sent = -1 /\ calls = 0

Obtain(o) == held' = held \cup {o} /\ owned' = [owned EXCEPT ![o] = @ + 1]

\* The locals start as null, the error as initialised.
SetDbusMessage ==
    /\ dpc \in {"idle", "done"} /\ calls < MaxCalls
    /\ calls' = calls + 1 /\ sent' = -1 /\ err' = FALSE
    /\ \/ held' = {"msg"} /\ owned' = [owned EXCEPT !["msg"] = @ + 1] /\ dpc' = "bus"
       \/ held' = {} /\ dpc' = "cleanup" /\ UNCHANGED owned
    /\ UNCHANGED address

\* dbus_bus_get(DBUS_BUS_SESSION, &err)
BusGet ==
    /\ dpc = "bus"
    /\ \/ Obtain("conn") /\ dpc' = "check" /\ UNCHANGED err
       \/ /\ err' = TRUE
          /\ dpc' = IF address = "unset" /\ RuntimeDir THEN "derive" ELSE "check"
          /\ UNCHANGED <<held, owned>>
    /\ UNCHANGED <<address, sent, calls>>

\* Mutant: the error of the first attempt stays.
DeriveKeepingError ==
    /\ dpc = "derive"
    /\ address' = "derived"
    /\ \/ Obtain("conn") /\ UNCHANGED err
       \/ err' = TRUE /\ UNCHANGED <<held, owned>>
    /\ dpc' = "check"
    /\ UNCHANGED <<sent, calls>>

\* The address under XDG_RUNTIME_DIR, kept in the environment, with an error
\* initialised again, and the second dbus_bus_get.
DeriveAddress ==
    /\ dpc = "derive"
    /\ address' = "derived"
    /\ \/ Obtain("conn") /\ err' = FALSE
       \/ err' = TRUE /\ UNCHANGED <<held, owned>>
    /\ dpc' = "check"
    /\ UNCHANGED <<sent, calls>>

CheckConnection ==
    /\ dpc = "check"
    /\ dpc' = IF err \/ "conn" \notin held THEN "cleanup" ELSE "call"
    /\ UNCHANGED <<address, held, owned, err, sent, calls>>

\* Mutant: msg is not reset once it is released.
AppendForgetting ==
    /\ dpc = "call"
    /\ \/ /\ held' = held \cup {"reply"}
          /\ owned' = [owned EXCEPT !["msg"] = @ - 1, !["reply"] = @ + 1]
          /\ sent' = 0 /\ UNCHANGED err
       \/ /\ owned' = [owned EXCEPT !["msg"] = @ - 1]
          /\ err' = TRUE /\ UNCHANGED <<held, sent>>
    /\ dpc' = "cleanup"
    /\ UNCHANGED <<address, calls>>

\* append_message waits for the reply, five seconds at most; msg is released.
AppendMessage ==
    /\ dpc = "call"
    /\ \/ /\ held' = (held \ {"msg"}) \cup {"reply"}
          /\ owned' = [owned EXCEPT !["msg"] = @ - 1, !["reply"] = @ + 1]
          /\ sent' = 0 /\ UNCHANGED err
       \/ /\ held' = held \ {"msg"}
          /\ owned' = [owned EXCEPT !["msg"] = @ - 1]
          /\ err' = TRUE /\ UNCHANGED sent
    /\ dpc' = "cleanup"
    /\ UNCHANGED <<address, calls>>

\* cleanup: every local that is not null, and the error.
Cleanup ==
    /\ dpc = "cleanup"
    /\ owned' = [o \in Objects |-> owned[o] - IF o \in held THEN 1 ELSE 0]
    /\ held' = {} /\ err' = FALSE
    /\ dpc' = "done"
    /\ UNCHANGED <<address, sent, calls>>

DbusNext == SetDbusMessage \/ BusGet \/ DeriveAddress \/ CheckConnection
               \/ AppendMessage \/ Cleanup

DbusSpec == DbusInit /\ [][DbusNext]_bus

-----------------------------------------------------------------------------
(* Properties                                                              *)

\* Whichever call of libdbus fails, every object is released exactly once:
\* none is left when the function returns, and none is released twice.
ReferencesBalanced ==
    /\ \A o \in Objects : owned[o] \in {0, 1}
    /\ dpc = "done" => \A o \in Objects : owned[o] = 0

\* A connection that was obtained is used: the function gives up only without
\* a message or a connection, and an error of the first attempt does not make
\* it drop the connection of the second.
ConnectionIsUsed ==
    [][dpc = "check" /\ "conn" \in held => dpc' = "call"]_bus
=============================================================================
