----------------------------- MODULE MultiSocket ----------------------------
(***************************************************************************)
(* What libcurl's multi_socket interface asks of the program around it,    *)
(* whatever that is made of: a handler's libcurl is called for a socket    *)
(* only while it is the one that wants events on it; and time does not     *)
(* pass by a timer it set: it is called when its timer is over, a tick     *)
(* later if it asked for a call at once.  A call for its timers may also   *)
(* come without need.  CurlSockets implements it.                          *)
(***************************************************************************)
EXTENDS Integers

CONSTANTS
    Handlers,
    Fds,
    MaxTimeout,
    Nobody,
    Null

VARIABLES
    wanted,     \* the handler whose libcurl wants events on a descriptor
    timer,      \* ticks until the timer it set is over, or Off
    left,       \* ticks until the program calls it for that, or Off
    calling,    \* the handler whose libcurl is at work
    event       \* the descriptor it was called for, or Null

vars == <<wanted, timer, left, calling, event>>

Off == -1

Init ==
    /\ wanted = [s \in Fds |-> Nobody]
    /\ timer = [h \in Handlers |-> Off]
    /\ left = [h \in Handlers |-> Off]
    /\ calling = Nobody /\ event = Null

\* A timer of zero is served a tick later.
Wait(timeout) == IF timeout = 0 THEN 1 ELSE timeout

-----------------------------------------------------------------------------
(* libcurl at work.                                                        *)

Want(h, s) ==
    /\ calling = h /\ wanted[s] \in {h, Nobody}
    /\ \E w \in {h, Nobody} : wanted' = [wanted EXCEPT ![s] = w]
    /\ UNCHANGED <<timer, left, calling, event>>

SetTimer(h, timeout) ==
    /\ calling = h
    /\ timer' = [timer EXCEPT ![h] = timeout]
    /\ left' = [left EXCEPT ![h] = Wait(timeout)]
    /\ UNCHANGED <<wanted, calling, event>>

\* It does not go without having told when it wants to be called.
Return(h) ==
    /\ calling = h
    /\ timer[h] # Off => left[h] # Off
    /\ calling' = Nobody /\ event' = Null
    /\ UNCHANGED <<wanted, timer, left>>

-----------------------------------------------------------------------------
(* The program.                                                            *)

Call(h, e) == calling = Nobody /\ calling' = h /\ event' = e

\* A transfer is added, and libcurl asks for a call at once.
AddHandle(h) ==
    /\ Call(h, Null)
    /\ timer' = [timer EXCEPT ![h] = 0]
    /\ left' = [left EXCEPT ![h] = IF timer[h] = 0 THEN @ ELSE Wait(0)]
    /\ UNCHANGED wanted

SocketReady(h, s) ==
    /\ Call(h, s)
    /\ wanted[s] = h
    /\ UNCHANGED <<wanted, timer, left>>

\* A call of libcurl for its timers ends the one that is over, if one is.
Timeout(h) ==
    /\ Call(h, Null)
    /\ left' = [left EXCEPT ![h] = IF timer[h] = 0 THEN Off ELSE @]
    /\ UNCHANGED <<wanted, timer>>

Less(n) == IF n > 0 THEN n - 1 ELSE n

Tick ==
    /\ calling = Nobody
    /\ \A h \in Handlers : left[h] # 0
    /\ timer' = [h \in Handlers |-> Less(timer[h])]
    /\ left' = [h \in Handlers |-> Less(left[h])]
    /\ UNCHANGED <<wanted, calling, event>>

Next ==
    \/ \E h \in Handlers :
          \/ \E s \in Fds : Want(h, s) \/ SocketReady(h, s)
          \/ \E timeout \in Off..MaxTimeout : SetTimer(h, timeout)
          \/ Return(h) \/ AddHandle(h) \/ Timeout(h)
    \/ Tick

Spec == Init /\ [][Next]_vars

=============================================================================
