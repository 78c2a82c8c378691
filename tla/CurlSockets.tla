----------------------------- MODULE CurlSockets ----------------------------
(***************************************************************************)
(* How libcurl gets its events: the part that AsyncHassHandler and         *)
(* AsyncFileSave have in common (SocketCallback, TimeoutCallback,          *)
(* BackgroundHandlerProc and TimeoutHandlerProc of both files).  libcurl   *)
(* asks, through callbacks, for sockets to be watched and for a timer; the *)
(* live555 scheduler, which all handlers and the RTSP client share, calls  *)
(* the procs, which call libcurl.                                          *)
(*                                                                         *)
(* All of it runs in the event loop's thread: while libcurl of one handler *)
(* is at work (calling) nothing but its callbacks happens.  Descriptors    *)
(* are the process's: one that a handler's libcurl closes may be opened    *)
(* next by another's.                                                      *)
(***************************************************************************)
EXTENDS Integers

CONSTANTS
    Handlers,       \* the AsyncHassHandler and AsyncFileSave objects
    Fds,            \* descriptors
    Contexts,       \* places in memory where a CurlSocketContext may be
    Tokens,         \* BOUND: timer tasks of a handler that may be pending
    MaxTimeout,     \* BOUND: the longest timer, in ticks
    Rtsp,           \* live555's own sockets
    Nobody,
    Null

ASSUME CurlSocketsAssumption ==
    /\ Rtsp \notin Handlers /\ Nobody \notin Handlers /\ Rtsp # Nobody
    /\ Rtsp \notin Contexts /\ Null \notin Contexts /\ Null \notin Tokens
    /\ Null # Rtsp
    /\ MaxTimeout \in Nat \ {0}

VARIABLES
    owner,          \* who has a descriptor open
    asked,          \* what libcurl asked for last on it
    socketp,        \* the pointer libcurl keeps for it (curl_multi_assign)
    context,        \* what each place in memory holds: sockfd, pHandler
    socketCtxs,     \* socketCtxs_ of each handler
    watch,          \* the scheduler's flags and clientData for a descriptor
    timer,          \* ticks until the timer libcurl asked for last, or Off
    tasks,          \* ticks until each pending timer task runs, or Off
    timeoutTaskToken, \* timeoutTaskToken_ (token_ in AsyncFileSave)
    calling,        \* the handler whose libcurl is at work
    event,          \* the descriptor it was called for, or Null
    expired         \* it has found its timer expired, and will set it anew

socketVars == <<owner, asked, socketp, context, socketCtxs, watch>>
timerVars == <<timer, tasks, timeoutTaskToken>>
callVars == <<calling, event, expired>>
vars == <<socketVars, timerVars, callVars>>

Off == -1
NoWatch == [flags |-> {}, clientData |-> Null]

\* After every Register, before the first request.
Init ==
    /\ owner = [s \in Fds |-> Nobody]
    /\ asked = [s \in Fds |-> "remove"]
    /\ socketp = [s \in Fds |-> Null]
    /\ context \in [Contexts -> [sockfd : Fds, pHandler : Handlers]]
    /\ \A c, d \in Contexts : context[c] = context[d]
    /\ socketCtxs = [h \in Handlers |-> [s \in Fds |-> Null]]
    /\ watch = [s \in Fds |-> NoWatch]
    /\ timer = [h \in Handlers |-> Off]
    /\ tasks = [h \in Handlers |-> [t \in Tokens |-> Off]]
    /\ timeoutTaskToken = [h \in Handlers |-> Null]
    /\ calling = Nobody /\ event = Null /\ expired = FALSE

-----------------------------------------------------------------------------
(* The callbacks.                                                          *)

Polls == {"in", "out", "inout"}

Flags(action) == (IF action # "in" THEN {"writable"} ELSE {})
                 \cup (IF action # "out" THEN {"readable"} ELSE {})

\* make_shared finds room where no context lives: none that a map holds.
Live(c) == \E h \in Handlers, s \in Fds : socketCtxs[h][s] = c

\* MUTANT: the scheduler is told of a descriptor only when its context is new.
WatchNewOnly(h, s, action) ==
    \E c \in Contexts :
        /\ IF socketp[s] # Null
           THEN c = socketp[s] /\ UNCHANGED <<context, socketCtxs, watch>>
           ELSE /\ ~Live(c)
                /\ context' = [context EXCEPT ![c] = [sockfd |-> s, pHandler |-> h]]
                /\ socketCtxs' = [socketCtxs EXCEPT ![h][s] = c]
                /\ watch' = [watch EXCEPT ![s] =
                                [flags |-> Flags(action), clientData |-> c]]
        /\ socketp' = [socketp EXCEPT ![s] = c]

\* SocketCallback for a descriptor that is to be watched. Its context is the one
\* libcurl passes, or else a new one.
Watch(h, s, action) ==
    \E c \in Contexts :
        /\ IF socketp[s] # Null
           THEN c = socketp[s] /\ UNCHANGED <<context, socketCtxs>>
           ELSE /\ ~Live(c)
                /\ context' = [context EXCEPT ![c] = [sockfd |-> s, pHandler |-> h]]
                /\ socketCtxs' = [socketCtxs EXCEPT ![h][s] = c]
        /\ socketp' = [socketp EXCEPT ![s] = c]
        /\ watch' = [watch EXCEPT ![s] = [flags |-> Flags(action), clientData |-> c]]

\* MUTANT: the scheduler goes on watching a descriptor that libcurl gave up.
UnwatchInMapsOnly(h, s) ==
    /\ socketp' = [socketp EXCEPT ![s] = Null]
    /\ socketCtxs' = [socketCtxs EXCEPT ![h][s] = Null]
    /\ UNCHANGED <<context, watch>>

\* SocketCallback with CURL_POLL_REMOVE.
Unwatch(h, s) ==
    /\ watch' = [watch EXCEPT ![s] = NoWatch]
    /\ socketp' = [socketp EXCEPT ![s] = Null]
    /\ socketCtxs' = [socketCtxs EXCEPT ![h][s] = Null]
    /\ UNCHANGED context

\* MUTANT: the delay is scaled twice.
TimeoutCallbackTwiceScaled(h, timeout) ==
    IF timeout < 0
    THEN /\ tasks' = [tasks EXCEPT ![h] = [t \in Tokens |->
                         IF t = timeoutTaskToken[h] THEN Off ELSE tasks[h][t]]]
         /\ timeoutTaskToken' = [timeoutTaskToken EXCEPT ![h] = Null]
    ELSE \E t \in Tokens :
            /\ tasks[h][t] = Off
            /\ tasks' = [tasks EXCEPT ![h][t] = IF timeout = 0 THEN 1 ELSE 2 * timeout]
            /\ timeoutTaskToken' = [timeoutTaskToken EXCEPT ![h] = t]

\* MUTANT: a timeout of zero counts as none.
TimeoutCallbackForPositive(h, timeout) ==
    IF timeout <= 0
    THEN /\ tasks' = [tasks EXCEPT ![h] = [t \in Tokens |->
                         IF t = timeoutTaskToken[h] THEN Off ELSE tasks[h][t]]]
         /\ timeoutTaskToken' = [timeoutTaskToken EXCEPT ![h] = Null]
    ELSE \E t \in Tokens :
            /\ tasks[h][t] = Off
            /\ tasks' = [tasks EXCEPT ![h][t] = timeout]
            /\ timeoutTaskToken' = [timeoutTaskToken EXCEPT ![h] = t]

\* TimeoutCallback: the last task is unscheduled, if it has not run, or one
\* more is scheduled.
TimeoutCallback(h, timeout) ==
    IF timeout < 0
    THEN /\ tasks' = [tasks EXCEPT ![h] = [t \in Tokens |->
                         IF t = timeoutTaskToken[h] THEN Off ELSE tasks[h][t]]]
         /\ timeoutTaskToken' = [timeoutTaskToken EXCEPT ![h] = Null]
    ELSE \E t \in Tokens :
            /\ tasks[h][t] = Off
            /\ tasks' = [tasks EXCEPT ![h][t] = IF timeout = 0 THEN 1 ELSE timeout]
            /\ timeoutTaskToken' = [timeoutTaskToken EXCEPT ![h] = t]

-----------------------------------------------------------------------------
(* libcurl at work.                                                        *)

OpenSocket(h, s) ==
    /\ calling = h /\ owner[s] = Nobody
    /\ owner' = [owner EXCEPT ![s] = h]
    /\ UNCHANGED <<asked, socketp, context, socketCtxs, watch, timerVars,
                   callVars>>

\* libcurl wants something else of a descriptor than it did.
Ask(h, s, action) ==
    /\ calling = h /\ owner[s] = h
    /\ action # asked[s]
    /\ asked' = [asked EXCEPT ![s] = action]
    /\ IF action = "remove" THEN Unwatch(h, s) ELSE Watch(h, s, action)
    /\ UNCHANGED <<owner, timerVars, callVars>>

\* libcurl has a descriptor removed before it closes it.
CloseSocket(h, s) ==
    /\ calling = h /\ owner[s] = h /\ asked[s] = "remove"
    /\ owner' = [owner EXCEPT ![s] = Nobody]
    /\ UNCHANGED <<asked, socketp, context, socketCtxs, watch, timerVars,
                   callVars>>

SetTimer(h, timeout) ==
    /\ calling = h
    /\ timeout # timer[h] \/ expired
    /\ timer' = [timer EXCEPT ![h] = timeout]
    /\ TimeoutCallback(h, timeout)
    /\ expired' = FALSE
    /\ UNCHANGED <<socketVars, calling, event>>

Return(h) ==
    /\ calling = h /\ ~expired
    /\ calling' = Nobody /\ event' = Null
    /\ UNCHANGED <<socketVars, timerVars, expired>>

-----------------------------------------------------------------------------
(* The event loop.                                                         *)

\* A new request: curl_multi_add_handle asks for a call at once.
AddHandle(h) ==
    /\ calling = Nobody
    /\ calling' = h /\ event' = Null
    /\ IF timer[h] = 0
       THEN UNCHANGED timerVars
       ELSE timer' = [timer EXCEPT ![h] = 0] /\ TimeoutCallback(h, 0)
    /\ UNCHANGED <<socketVars, expired>>

\* The scheduler finds a descriptor ready.
BackgroundHandlerProc(s) ==
    /\ calling = Nobody
    /\ watch[s].clientData \in Contexts
    /\ calling' = context[watch[s].clientData].pHandler
    /\ event' = context[watch[s].clientData].sockfd
    /\ UNCHANGED <<socketVars, timerVars, expired>>

\* The scheduler runs a timer task. One that is not the last, or comes when
\* libcurl has set no timer, is superfluous.
TimeoutHandlerProc(h) ==
    /\ calling = Nobody
    /\ \E t \in Tokens : /\ tasks[h][t] = 0
                         /\ tasks' = [tasks EXCEPT ![h][t] = Off]
    /\ calling' = h /\ event' = Null
    /\ expired' = (timer[h] = 0)
    /\ UNCHANGED <<socketVars, timer, timeoutTaskToken>>

\* The RTSP client's connection, and its end.
RtspOpens(s) ==
    /\ calling = Nobody /\ owner[s] = Nobody
    /\ owner' = [owner EXCEPT ![s] = Rtsp]
    /\ watch' = [watch EXCEPT ![s] = [flags |-> {"readable"}, clientData |-> Rtsp]]
    /\ UNCHANGED <<asked, socketp, context, socketCtxs, timerVars, callVars>>

RtspCloses(s) ==
    /\ calling = Nobody /\ owner[s] = Rtsp
    /\ owner' = [owner EXCEPT ![s] = Nobody]
    /\ watch' = [watch EXCEPT ![s] = NoWatch]
    /\ UNCHANGED <<asked, socketp, context, socketCtxs, timerVars, callVars>>

Less(n) == IF n > 0 THEN n - 1 ELSE n

\* A task that is due runs before time goes on.
Tick ==
    /\ calling = Nobody
    /\ \A h \in Handlers, t \in Tokens : tasks[h][t] # 0
    /\ tasks' = [h \in Handlers |-> [t \in Tokens |-> Less(tasks[h][t])]]
    /\ timer' = [h \in Handlers |-> Less(timer[h])]
    /\ UNCHANGED <<socketVars, timeoutTaskToken, callVars>>

Libcurl(h) ==
    \/ \E s \in Fds : OpenSocket(h, s) \/ CloseSocket(h, s)
    \/ \E s \in Fds, action \in Polls \cup {"remove"} : Ask(h, s, action)
    \/ \E timeout \in Off..MaxTimeout : SetTimer(h, timeout)
    \/ Return(h)

Next ==
    \/ \E h \in Handlers : Libcurl(h) \/ AddHandle(h) \/ TimeoutHandlerProc(h)
    \/ \E s \in Fds : BackgroundHandlerProc(s) \/ RtspOpens(s) \/ RtspCloses(s)
    \/ Tick

Spec == Init /\ [][Next]_vars

-----------------------------------------------------------------------------
(* Properties.                                                             *)

\* Type correctness.
TypeOK ==
    /\ owner \in [Fds -> Handlers \cup {Rtsp, Nobody}]
    /\ asked \in [Fds -> Polls \cup {"remove"}]
    /\ socketp \in [Fds -> Contexts \cup {Null}]
    /\ context \in [Contexts -> [sockfd : Fds, pHandler : Handlers]]
    /\ socketCtxs \in [Handlers -> [Fds -> Contexts \cup {Null}]]
    /\ watch \in [Fds -> [flags : SUBSET {"readable", "writable"},
                          clientData : Contexts \cup {Rtsp, Null}]]
    /\ timer \in [Handlers -> Off..MaxTimeout]
    /\ tasks \in [Handlers -> [Tokens -> Off..MaxTimeout]]
    /\ timeoutTaskToken \in [Handlers -> Tokens \cup {Null}]
    /\ calling \in Handlers \cup {Nobody}
    /\ event \in Fds \cup {Null}
    /\ expired \in BOOLEAN

\* What libcurl asked for last is what the scheduler watches, with a pointer to
\* a context that lives, is of this descriptor and of the handler whose libcurl
\* asked; nothing is watched for a handler that did not ask; and what a handler
\* keeps, and its destructor would disable, is its own (SocketCallback).
WatchesAgree ==
    /\ \A s \in Fds :
          IF asked[s] = "remove"
          THEN watch[s].clientData \notin Contexts
          ELSE /\ owner[s] \in Handlers
               /\ watch[s] = [flags |-> Flags(asked[s]),
                              clientData |-> socketCtxs[owner[s]][s]]
               /\ watch[s].clientData \in Contexts
               /\ context[watch[s].clientData] = [sockfd |-> s, pHandler |-> owner[s]]
    /\ \A h \in Handlers, s \in Fds :
          socketCtxs[h][s] # Null => owner[s] = h /\ asked[s] # "remove"

\* libcurl has found its timer expired, and is about to set it anew.
Answering(h) == expired /\ calling = h

\* libcurl is called when its timer expires, a tick later if it asked for a call
\* at once: some task is pending that is not later, whichever tasks were
\* scheduled, unscheduled and run meanwhile (TimeoutCallback).
TimerServed ==
    \A h \in Handlers :
        timer[h] # Off /\ ~Answering(h) =>
            \E t \in Tokens :
                tasks[h][t] \in 0..(IF timer[h] = 0 THEN 1 ELSE timer[h])

\* The handlers give their libcurls what the multi_socket interface asks for,
\* descriptors and timers together: none is called for a socket that it did not
\* ask for, or that has become another's, and time never passes by the last
\* task that its last timer scheduled (SocketCallback, TimeoutCallback,
\* BackgroundHandlerProc, TimeoutHandlerProc).
Wanted == [s \in Fds |-> IF asked[s] = "remove" THEN Nobody ELSE owner[s]]
Left == [h \in Handlers |-> IF timer[h] = Off \/ Answering(h) THEN Off
                                ELSE tasks[h][timeoutTaskToken[h]]]

Multi == INSTANCE MultiSocket WITH wanted <- Wanted, left <- Left

ServesLibcurl == Multi!Spec

=============================================================================
