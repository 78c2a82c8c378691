----------------------------- MODULE Supervisor ------------------------------
(***************************************************************************)
(* What the watcher of a service promises, whatever the service is made    *)
(* of: a service that is down is started by the watcher alone, who looks   *)
(* at it after each interval, doubles the interval after a start and makes *)
(* it the shortest again when it finds the service at work; and before     *)
(* each start whoever heard from the service is told that nothing is known *)
(* of it.  RestartWatcher over Live555Source implements it.                *)
(***************************************************************************)
EXTENDS Naturals

CONSTANTS
    Shortest,
    Longest

VARIABLES
    service,    \* "down", "connecting" or "up"
    told,       \* the last news of it: "none", "seen" or "unknown"
    interval,
    wait        \* until the watcher looks

Init ==
    /\ service \in {"down", "connecting"}
    /\ told = "none"
    /\ interval = Shortest /\ wait = Shortest

\* The service comes up or goes down by itself.
Moves ==
    /\ \/ service = "connecting" /\ service' = "up"
       \/ service # "down" /\ service' = "down"
    /\ UNCHANGED <<told, interval, wait>>

\* It is heard of, which may be the last thing it does.
Speaks ==
    /\ service # "down"
    /\ told' = "seen"
    /\ service' \in {service, "down"}
    /\ UNCHANGED <<interval, wait>>

FindsItWorking ==
    /\ wait = 0 /\ service # "down"
    /\ interval' = Shortest /\ wait' = Shortest
    /\ UNCHANGED <<service, told>>

\* The start may fail at once.
StartsIt ==
    /\ wait = 0 /\ service = "down"
    /\ told' = "unknown"
    /\ service' \in {"down", "connecting"}
    /\ interval' = IF 2 * interval < Longest THEN 2 * interval ELSE Longest
    /\ wait' = interval'

TimePasses ==
    /\ wait > 0 /\ wait' = wait - 1
    /\ UNCHANGED <<service, told, interval>>

Next == Moves \/ Speaks \/ FindsItWorking \/ StartsIt \/ TimePasses

Spec == Init /\ [][Next]_<<service, told, interval, wait>>

=============================================================================
