---------------------------- MODULE RateLimiter -----------------------------
(***************************************************************************)
(* What a debounced client promises, whatever it is made of: an attempt at *)
(* a request opens a window, and the client makes no other until the       *)
(* window has ended.  AsyncHassHandler and AsyncFileSave implement it.     *)
(***************************************************************************)
CONSTANTS
    Clients,
    Requests

VARIABLES
    open,       \* the clients whose window is running
    sent        \* the requests each client has made

Init ==
    /\ open = {}
    /\ sent = [c \in Clients |-> {}]

Request(c) ==
    \E r \in Requests :
        /\ \A d \in Clients : r \notin sent[d]
        /\ sent' = [sent EXCEPT ![c] = @ \cup {r}]

\* The window also runs when the attempt comes to nothing.
Send(c) ==
    /\ c \notin open
    /\ open' = open \cup {c}
    /\ Request(c) \/ UNCHANGED sent

EndWindow(c) ==
    /\ c \in open
    /\ open' = open \ {c}
    /\ UNCHANGED sent

Next == \E c \in Clients : Send(c) \/ EndWindow(c)

Spec == Init /\ [][Next]_<<open, sent>>

=============================================================================
