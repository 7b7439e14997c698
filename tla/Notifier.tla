----------------------------- MODULE Notifier -----------------------------
(***************************************************************************)
(* What the notification daemon promises, whatever the commands do to the  *)
(* alarm file and however often the daemon is killed and started again: a  *)
(* notification never comes before its time, and notifications come in the *)
(* strict order of their times, so that no time is notified twice.         *)
(***************************************************************************)
EXTENDS Integers, Sequences

VARIABLES
    clock,      \* the time of day
    log         \* the notifications shown, oldest first

Init == clock \in Nat /\ log = <<>>

Tick == clock' = clock + 1 /\ UNCHANGED log

\* a is not early, and later than everything notified before it.
MayFollow(a) == /\ a.ts <= clock
                /\ \A i \in DOMAIN log : log[i].ts < a.ts

Notify == /\ Len(log') = Len(log) + 1
          /\ log' = Append(log, log'[Len(log')])
          /\ MayFollow(log'[Len(log')])
          /\ UNCHANGED clock

Next == Tick \/ Notify

Spec == Init /\ [][Next]_<<clock, log>>
=============================================================================
