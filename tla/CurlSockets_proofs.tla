-------------------------- MODULE CurlSockets_proofs -------------------------
(***************************************************************************)
(* Proofs about CurlSockets, for any handlers, descriptors, contexts,      *)
(* pending tasks and timeouts.                                             *)
(***************************************************************************)
EXTENDS CurlSockets, TLAPS

-----------------------------------------------------------------------------
(* The invariant has a part about sockets and one about timers, and every  *)
(* step but a few changes only one of the two.                             *)

\* The pointer that libcurl keeps is the one the scheduler has.
SocketpAgrees ==
    \A s \in Fds : socketp[s] = IF asked[s] = "remove" THEN Null
                               ELSE watch[s].clientData

\* It is the last task scheduled that serves the timer.
LastTaskServes ==
    /\ expired => calling \in Handlers /\ timer[calling] = 0
    /\ \A h \in Handlers :
          timer[h] # Off /\ ~Answering(h) =>
              /\ timeoutTaskToken[h] \in Tokens
              /\ tasks[h][timeoutTaskToken[h]] \in
                    IF timer[h] = 0 THEN {0, 1} ELSE {timer[h]}

SocketTypes ==
    /\ owner \in [Fds -> Handlers \cup {Rtsp, Nobody}]
    /\ asked \in [Fds -> Polls \cup {"remove"}]
    /\ socketp \in [Fds -> Contexts \cup {Null}]
    /\ context \in [Contexts -> [sockfd : Fds, pHandler : Handlers]]
    /\ socketCtxs \in [Handlers -> [Fds -> Contexts \cup {Null}]]
    /\ watch \in [Fds -> [flags : SUBSET {"readable", "writable"},
                          clientData : Contexts \cup {Rtsp, Null}]]

TimerTypes ==
    /\ timer \in [Handlers -> Off..MaxTimeout]
    /\ tasks \in [Handlers -> [Tokens -> Off..MaxTimeout]]
    /\ timeoutTaskToken \in [Handlers -> Tokens \cup {Null}]

SocketInv == SocketTypes /\ WatchesAgree /\ SocketpAgrees
TimerInv == TimerTypes /\ LastTaskServes
CallTypes ==
    /\ calling \in Handlers \cup {Nobody}
    /\ event \in Fds \cup {Null}
    /\ expired \in BOOLEAN

Inv == SocketInv /\ TimerInv /\ CallTypes

LEMMA SocketsUntouched ==
  ASSUME SocketInv, UNCHANGED socketVars
  PROVE  SocketInv'
BY DEF SocketInv, SocketTypes, WatchesAgree, SocketpAgrees, socketVars

-----------------------------------------------------------------------------
(* Sockets.                                                                *)

\* Watching one descriptor leaves the others as they were.
LEMMA WatchKeeps ==
  ASSUME SocketInv, NEW h \in Handlers, NEW s \in Fds, NEW action \in Polls,
         owner[s] = h, asked' = [asked EXCEPT ![s] = action],
         Watch(h, s, action), UNCHANGED owner
  PROVE  SocketInv'
<1> USE CurlSocketsAssumption
<1> DEFINE w == [flags |-> Flags(action), clientData |-> socketp'[s]]
<1>1. PICK c \in Contexts :
        /\ IF socketp[s] # Null
           THEN c = socketp[s] /\ UNCHANGED <<context, socketCtxs>>
           ELSE /\ ~Live(c)
                /\ context' = [context EXCEPT ![c] = [sockfd |-> s, pHandler |-> h]]
                /\ socketCtxs' = [socketCtxs EXCEPT ![h][s] = c]
        /\ socketp' = [socketp EXCEPT ![s] = c]
        /\ watch' = [watch EXCEPT ![s] = [flags |-> Flags(action), clientData |-> c]]
  BY DEF Watch
<1>2. /\ asked'[s] = action /\ action # "remove"
      /\ \A r \in Fds : r # s => asked'[r] = asked[r]
      /\ socketp'[s] = c /\ \A r \in Fds : r # s => socketp'[r] = socketp[r]
      /\ watch'[s] = [flags |-> Flags(action), clientData |-> c]
      /\ \A r \in Fds : r # s => watch'[r] = watch[r]
  BY <1>1 DEF SocketInv, SocketTypes, Polls
<1>3. Flags(action) \in SUBSET {"readable", "writable"}
  BY DEF Flags
<1>4. CASE socketp[s] # Null
  <2>1. /\ asked[s] # "remove" /\ c = watch[s].clientData
        /\ c = socketCtxs[h][s]
        /\ context[c] = [sockfd |-> s, pHandler |-> h]
    <3>1. c = socketp[s]
      BY <1>1, <1>4
    <3>2. asked[s] # "remove" /\ c = watch[s].clientData
      BY <1>4, <3>1 DEF SocketInv, SocketpAgrees
    <3>3. /\ watch[s] = [flags |-> Flags(asked[s]),
                         clientData |-> socketCtxs[h][s]]
          /\ context[watch[s].clientData] = [sockfd |-> s, pHandler |-> h]
      BY <3>2 DEF SocketInv, WatchesAgree
    <3>4. watch[s].clientData = socketCtxs[h][s]
      BY <3>3
    <3> QED  BY <3>2, <3>3, <3>4
  <2>2. UNCHANGED <<context, socketCtxs, owner>>
    BY <1>1, <1>4
  <2>3. SocketTypes'
    BY <1>1, <1>3, <2>2 DEF SocketInv, SocketTypes
  <2>4. WatchesAgree'
    BY <1>2, <2>1, <2>2 DEF SocketInv, WatchesAgree
  <2>5. SocketpAgrees'
    BY <1>2 DEF SocketInv, SocketpAgrees
  <2> QED  BY <2>3, <2>4, <2>5 DEF SocketInv
<1>5. CASE socketp[s] = Null
  <2>1. /\ ~Live(c)
        /\ context' = [context EXCEPT ![c] = [sockfd |-> s, pHandler |-> h]]
        /\ socketCtxs' = [socketCtxs EXCEPT ![h][s] = c]
    BY <1>1, <1>5
  <2>2. /\ context'[c] = [sockfd |-> s, pHandler |-> h]
        /\ \A d \in Contexts : d # c => context'[d] = context[d]
        /\ socketCtxs'[h][s] = c
        /\ \A g \in Handlers, r \in Fds :
              g # h \/ r # s => socketCtxs'[g][r] = socketCtxs[g][r]
    BY <2>1 DEF SocketInv, SocketTypes
  <2>3. \A g \in Handlers, r \in Fds : socketCtxs[g][r] # c
    BY <2>1 DEF Live
  <2>4. SocketTypes'
    BY <1>1, <1>3, <2>1 DEF SocketInv, SocketTypes
  <2>5. ASSUME NEW r \in Fds
        PROVE  IF asked'[r] = "remove"
               THEN watch'[r].clientData \notin Contexts
               ELSE /\ owner[r] \in Handlers
                    /\ watch'[r] = [flags |-> Flags(asked'[r]),
                                    clientData |-> socketCtxs'[owner[r]][r]]
                    /\ watch'[r].clientData \in Contexts
                    /\ context'[watch'[r].clientData] =
                          [sockfd |-> r, pHandler |-> owner[r]]
    <3>1. CASE r = s
      BY <3>1, <1>2, <2>2
    <3>2. CASE r # s
      <4>1. asked'[r] = asked[r] /\ watch'[r] = watch[r]
        BY <3>2, <1>2
      <4>2. CASE asked[r] = "remove"
        BY <4>1, <4>2 DEF SocketInv, WatchesAgree
      <4>3. CASE asked[r] # "remove"
        <5>1. /\ owner[r] \in Handlers
              /\ watch[r] = [flags |-> Flags(asked[r]),
                             clientData |-> socketCtxs[owner[r]][r]]
              /\ watch[r].clientData \in Contexts
              /\ context[watch[r].clientData] = [sockfd |-> r, pHandler |-> owner[r]]
          BY <4>3 DEF SocketInv, WatchesAgree
        <5>2. socketCtxs'[owner[r]][r] = socketCtxs[owner[r]][r]
          BY <3>2, <2>2, <5>1
        <5>3. watch[r].clientData = socketCtxs[owner[r]][r]
          BY <5>1
        <5>4. watch[r].clientData # c
          BY <2>3, <5>1, <5>3
        <5>5. context'[watch[r].clientData] = context[watch[r].clientData]
          BY <2>2, <5>1, <5>4
        <5> QED  BY <4>1, <4>3, <5>1, <5>2, <5>5
      <4> QED  BY <4>2, <4>3
    <3> QED  BY <3>1, <3>2
  <2>6. \A g \in Handlers, r \in Fds :
          socketCtxs'[g][r] # Null => owner[r] = g /\ asked'[r] # "remove"
    BY <1>2, <2>2 DEF SocketInv, WatchesAgree
  <2>7. WatchesAgree'
    BY <2>5, <2>6 DEF WatchesAgree
  <2>8. SocketpAgrees'
    BY <1>2 DEF SocketInv, SocketpAgrees
  <2> QED  BY <2>4, <2>7, <2>8 DEF SocketInv
<1> QED  BY <1>4, <1>5

LEMMA UnwatchKeeps ==
  ASSUME SocketInv, NEW h \in Handlers, NEW s \in Fds,
         owner[s] = h, asked' = [asked EXCEPT ![s] = "remove"],
         Unwatch(h, s), UNCHANGED owner
  PROVE  SocketInv'
<1> USE CurlSocketsAssumption
<1>1. /\ watch' = [watch EXCEPT ![s] = NoWatch]
      /\ socketp' = [socketp EXCEPT ![s] = Null]
      /\ socketCtxs' = [socketCtxs EXCEPT ![h][s] = Null]
      /\ UNCHANGED context
  BY DEF Unwatch
<1>2. NoWatch \in [flags : SUBSET {"readable", "writable"},
                   clientData : Contexts \cup {Rtsp, Null}]
  BY DEF NoWatch
<1>3. SocketTypes'
  BY <1>1, <1>2 DEF SocketInv, SocketTypes
<1>4. /\ asked'[s] = "remove" /\ socketp'[s] = Null
      /\ watch'[s].clientData \notin Contexts /\ socketCtxs'[h][s] = Null
      /\ \A r \in Fds : r # s => /\ asked'[r] = asked[r] /\ socketp'[r] = socketp[r]
                                 /\ watch'[r] = watch[r]
      /\ \A g \in Handlers, r \in Fds :
            g # h \/ r # s => socketCtxs'[g][r] = socketCtxs[g][r]
  BY <1>1 DEF SocketInv, SocketTypes, NoWatch
<1>5. WatchesAgree'
  <2>1. ASSUME NEW r \in Fds
        PROVE  IF asked'[r] = "remove"
               THEN watch'[r].clientData \notin Contexts
               ELSE /\ owner[r] \in Handlers
                    /\ watch'[r] = [flags |-> Flags(asked'[r]),
                                    clientData |-> socketCtxs'[owner[r]][r]]
                    /\ watch'[r].clientData \in Contexts
                    /\ context[watch'[r].clientData] =
                          [sockfd |-> r, pHandler |-> owner[r]]
    <3>1. CASE r = s
      BY <3>1, <1>4
    <3>2. CASE r # s
      <4>1. asked'[r] = asked[r] /\ watch'[r] = watch[r]
        BY <3>2, <1>4
      <4>2. CASE asked[r] = "remove"
        BY <4>1, <4>2 DEF SocketInv, WatchesAgree
      <4>3. CASE asked[r] # "remove"
        <5>1. /\ owner[r] \in Handlers
              /\ watch[r] = [flags |-> Flags(asked[r]),
                             clientData |-> socketCtxs[owner[r]][r]]
              /\ watch[r].clientData \in Contexts
              /\ context[watch[r].clientData] = [sockfd |-> r, pHandler |-> owner[r]]
          BY <4>3 DEF SocketInv, WatchesAgree
        <5>2. socketCtxs'[owner[r]][r] = socketCtxs[owner[r]][r]
          BY <3>2, <1>4, <5>1
        <5> QED  BY <1>1, <4>1, <4>3, <5>1, <5>2
      <4> QED  BY <4>2, <4>3
    <3> QED  BY <3>1, <3>2
  <2>2. \A g \in Handlers, r \in Fds :
          socketCtxs'[g][r] # Null => owner[r] = g /\ asked'[r] # "remove"
    BY <1>4 DEF SocketInv, WatchesAgree
  <2> QED  BY <1>1, <2>1, <2>2 DEF WatchesAgree
<1>6. SocketpAgrees'
  BY <1>4 DEF SocketInv, SocketpAgrees
<1> QED  BY <1>3, <1>5, <1>6 DEF SocketInv

\* A descriptor changes hands only while nothing is asked of it.
LEMMA OwnerChanges ==
  ASSUME SocketInv, NEW s \in Fds, NEW o \in Handlers \cup {Rtsp, Nobody},
         asked[s] = "remove", owner' = [owner EXCEPT ![s] = o],
         UNCHANGED <<asked, socketp, context, socketCtxs>>,
         \/ UNCHANGED watch
         \/ \E w \in {NoWatch, [flags |-> {"readable"}, clientData |-> Rtsp]} :
               watch' = [watch EXCEPT ![s] = w]
  PROVE  SocketInv'
<1> USE CurlSocketsAssumption
<1>1. SocketTypes'
  BY DEF SocketInv, SocketTypes, NoWatch
<1>2. /\ watch'[s].clientData \notin Contexts
      /\ \A r \in Fds : r # s => watch'[r] = watch[r] /\ owner'[r] = owner[r]
  <2>1. \A r \in Fds : r # s => watch'[r] = watch[r] /\ owner'[r] = owner[r]
    BY DEF SocketInv, SocketTypes
  <2>2. watch[s].clientData \notin Contexts
    BY DEF SocketInv, WatchesAgree
  <2>3. CASE UNCHANGED watch
    BY <2>1, <2>2, <2>3
  <2>4. ASSUME NEW w \in {NoWatch, [flags |-> {"readable"}, clientData |-> Rtsp]},
               watch' = [watch EXCEPT ![s] = w]
        PROVE  watch'[s].clientData \notin Contexts
    <3>1. watch'[s] = w
      BY <2>4 DEF SocketInv, SocketTypes
    <3> QED  BY <3>1 DEF NoWatch
  <2> QED  BY <2>1, <2>3, <2>4
<1>3. \A g \in Handlers : socketCtxs[g][s] = Null
  BY DEF SocketInv, WatchesAgree
<1>4. WatchesAgree'
  <2>1. ASSUME NEW r \in Fds
        PROVE  IF asked'[r] = "remove"
               THEN watch'[r].clientData \notin Contexts
               ELSE /\ owner'[r] \in Handlers
                    /\ watch'[r] = [flags |-> Flags(asked'[r]),
                                    clientData |-> socketCtxs'[owner'[r]][r]]
                    /\ watch'[r].clientData \in Contexts
                    /\ context'[watch'[r].clientData] =
                          [sockfd |-> r, pHandler |-> owner'[r]]
    <3>1. CASE r = s
      BY <3>1, <1>2
    <3>2. CASE r # s
      BY <3>2, <1>2 DEF SocketInv, WatchesAgree
    <3> QED  BY <3>1, <3>2
  <2>2. \A g \in Handlers, r \in Fds :
          socketCtxs'[g][r] # Null => owner'[r] = g /\ asked'[r] # "remove"
    BY <1>2, <1>3 DEF SocketInv, WatchesAgree
  <2> QED  BY <2>1, <2>2 DEF WatchesAgree
<1>5. SocketpAgrees'
  BY <1>2 DEF SocketInv, SocketpAgrees
<1> QED  BY <1>1, <1>4, <1>5 DEF SocketInv

LEMMA SocketsStep ==
  ASSUME SocketInv, [Next]_vars
  PROVE  SocketInv'
<1> USE CurlSocketsAssumption
<1>1. CASE UNCHANGED socketVars
  BY <1>1, SocketsUntouched
<1>2. ASSUME NEW h \in Handlers, NEW s \in Fds, OpenSocket(h, s) PROVE SocketInv'
  <2>1. asked[s] = "remove"
    BY <1>2 DEF OpenSocket, SocketInv, WatchesAgree
  <2> QED  BY <1>2, <2>1, OwnerChanges DEF OpenSocket
<1>3. ASSUME NEW h \in Handlers, NEW s \in Fds, CloseSocket(h, s) PROVE SocketInv'
  BY <1>3, OwnerChanges DEF CloseSocket
<1>4. ASSUME NEW h \in Handlers, NEW s \in Fds, NEW action \in Polls \cup {"remove"},
             Ask(h, s, action)
      PROVE  SocketInv'
  <2>1. CASE action = "remove"
    BY <1>4, <2>1, UnwatchKeeps DEF Ask
  <2>2. CASE action # "remove"
    BY <1>4, <2>2, WatchKeeps DEF Ask
  <2> QED  BY <2>1, <2>2
<1>5. ASSUME NEW s \in Fds, RtspOpens(s) \/ RtspCloses(s) PROVE SocketInv'
  <2>1. asked[s] = "remove"
    BY <1>5 DEF RtspOpens, RtspCloses, SocketInv, WatchesAgree
  <2>2. CASE RtspOpens(s)
    BY <2>1, <2>2, OwnerChanges DEF RtspOpens
  <2>3. CASE RtspCloses(s)
    BY <2>1, <2>3, OwnerChanges DEF RtspCloses
  <2> QED  BY <1>5, <2>2, <2>3
<1>6. CASE \/ \E h \in Handlers :
                 \/ \E timeout \in Off..MaxTimeout : SetTimer(h, timeout)
                 \/ Return(h) \/ AddHandle(h) \/ TimeoutHandlerProc(h)
           \/ \E s \in Fds : BackgroundHandlerProc(s)
           \/ Tick \/ UNCHANGED vars
  <2>1. UNCHANGED socketVars
    BY <1>6 DEF SetTimer, Return, AddHandle, TimeoutHandlerProc,
                BackgroundHandlerProc, Tick, vars
  <2> QED  BY <1>1, <2>1
<1> QED  BY <1>2, <1>3, <1>4, <1>5, <1>6 DEF Next, Libcurl

-----------------------------------------------------------------------------
(* Timers.                                                                 *)

\* What TimeoutCallback leaves serves the timer that libcurl has just set.
LEMMA TimeoutCallbackServes ==
  ASSUME TimerTypes, NEW h \in Handlers, NEW timeout \in Off..MaxTimeout,
         timer' = [timer EXCEPT ![h] = timeout], TimeoutCallback(h, timeout)
  PROVE  /\ TimerTypes'
         /\ timer'[h] # Off =>
               /\ timeoutTaskToken'[h] \in Tokens
               /\ tasks'[h][timeoutTaskToken'[h]] \in
                     IF timer'[h] = 0 THEN {0, 1} ELSE {timer'[h]}
         /\ \A g \in Handlers : g # h =>
               /\ timer'[g] = timer[g] /\ tasks'[g] = tasks[g]
               /\ timeoutTaskToken'[g] = timeoutTaskToken[g]
<1> USE CurlSocketsAssumption DEF Off
<1>1. CASE timeout < 0
  <2>1. /\ tasks' = [tasks EXCEPT ![h] = [t \in Tokens |->
                        IF t = timeoutTaskToken[h] THEN Off ELSE tasks[h][t]]]
        /\ timeoutTaskToken' = [timeoutTaskToken EXCEPT ![h] = Null]
    BY <1>1 DEF TimeoutCallback
  <2>2. [t \in Tokens |-> IF t = timeoutTaskToken[h] THEN Off ELSE tasks[h][t]]
          \in [Tokens -> Off..MaxTimeout]
    BY DEF TimerTypes
  <2>3. TimerTypes'
    BY <2>1, <2>2 DEF TimerTypes
  <2>4. timer'[h] = Off
    BY <1>1 DEF TimerTypes
  <2> QED  BY <2>1, <2>3, <2>4 DEF TimerTypes
<1>2. CASE ~(timeout < 0)
  <2> DEFINE left == IF timeout = 0 THEN 1 ELSE timeout
  <2>1. PICK t \in Tokens :
          /\ tasks' = [tasks EXCEPT ![h][t] = left]
          /\ timeoutTaskToken' = [timeoutTaskToken EXCEPT ![h] = t]
    BY <1>2 DEF TimeoutCallback
  <2>2. left \in 1..MaxTimeout /\ timer'[h] = timeout
    BY <1>2 DEF TimerTypes
  <2>3. left \in IF timeout = 0 THEN {0, 1} ELSE {timeout}
    OBVIOUS
  <2> HIDE DEF left
  <2>4. TimerTypes'
    BY <2>1, <2>2 DEF TimerTypes
  <2>5. timeoutTaskToken'[h] = t /\ tasks'[h][t] = left
    BY <2>1 DEF TimerTypes
  <2>6. \A g \in Handlers : g # h =>
               /\ timer'[g] = timer[g] /\ tasks'[g] = tasks[g]
               /\ timeoutTaskToken'[g] = timeoutTaskToken[g]
    BY <2>1 DEF TimerTypes
  <2> QED  BY <2>2, <2>3, <2>4, <2>5, <2>6
<1> QED  BY <1>1, <1>2

LEMMA TimersStep ==
  ASSUME SocketInv, TimerInv, CallTypes, [Next]_vars
  PROVE  TimerInv' /\ CallTypes'
<1> USE CurlSocketsAssumption DEF Off
<1>1. ASSUME UNCHANGED <<timerVars, callVars>> PROVE TimerInv' /\ CallTypes'
  BY <1>1 DEF TimerInv, TimerTypes, LastTaskServes, Answering, CallTypes, timerVars,
              callVars
<1>2. ASSUME NEW h \in Handlers, NEW timeout \in Off..MaxTimeout, SetTimer(h, timeout)
      PROVE  TimerInv' /\ CallTypes'
  <2>1. /\ timer' = [timer EXCEPT ![h] = timeout] /\ TimeoutCallback(h, timeout)
        /\ calling = h /\ calling' = h /\ event' = event /\ expired' = FALSE
    BY <1>2 DEF SetTimer
  <2>2. TimerTypes' /\ LastTaskServes'
    BY <2>1, TimeoutCallbackServes DEF TimerInv, LastTaskServes, Answering
  <2> QED  BY <2>1, <2>2 DEF TimerInv, CallTypes
<1>3. ASSUME NEW h \in Handlers, Return(h) PROVE TimerInv' /\ CallTypes'
  BY <1>3 DEF Return, TimerInv, TimerTypes, LastTaskServes, Answering, CallTypes, timerVars
<1>4. ASSUME NEW h \in Handlers, AddHandle(h) PROVE TimerInv' /\ CallTypes'
  <2>1. ~expired /\ expired' = expired /\ calling' = h /\ event' = Null
    BY <1>4 DEF AddHandle, TimerInv, LastTaskServes
  <2>2. CASE timer[h] = 0
    BY <1>4, <2>1, <2>2
    DEF AddHandle, TimerInv, TimerTypes, LastTaskServes, Answering, CallTypes, timerVars
  <2>3. CASE timer[h] # 0
    <3>1. timer' = [timer EXCEPT ![h] = 0] /\ TimeoutCallback(h, 0)
      BY <1>4, <2>3 DEF AddHandle
    <3>2. 0 \in Off..MaxTimeout
      OBVIOUS
    <3>3. TimerTypes' /\ LastTaskServes'
      BY <2>1, <3>1, <3>2, TimeoutCallbackServes DEF TimerInv, LastTaskServes, Answering
    <3> QED  BY <2>1, <3>3 DEF TimerInv, CallTypes
  <2> QED  BY <2>2, <2>3
<1>5. ASSUME NEW s \in Fds, BackgroundHandlerProc(s) PROVE TimerInv' /\ CallTypes'
  <2>1. ~expired /\ expired' = expired /\ UNCHANGED timerVars
    BY <1>5 DEF BackgroundHandlerProc, TimerInv, LastTaskServes
  <2>2. calling' \in Handlers /\ event' \in Fds
    BY <1>5 DEF BackgroundHandlerProc, SocketInv, SocketTypes
  <2> QED  BY <2>1, <2>2 DEF TimerInv, TimerTypes, LastTaskServes, Answering, CallTypes, timerVars
<1>6. ASSUME NEW h \in Handlers, TimeoutHandlerProc(h) PROVE TimerInv' /\ CallTypes'
  <2>1. PICK t \in Tokens : tasks[h][t] = 0 /\ tasks' = [tasks EXCEPT ![h][t] = Off]
    BY <1>6 DEF TimeoutHandlerProc
  <2>2. /\ calling = Nobody /\ calling' = h /\ expired' = (timer[h] = 0)
        /\ event' = Null
        /\ UNCHANGED <<timer, timeoutTaskToken>>
    BY <1>6 DEF TimeoutHandlerProc
  <2>3. TimerTypes' /\ CallTypes'
    BY <2>1, <2>2 DEF TimerInv, TimerTypes, CallTypes
  <2>4. \A g \in Handlers : g # h => tasks'[g] = tasks[g]
    BY <2>1 DEF TimerInv, TimerTypes
  <2>5. \A u \in Tokens : u # t => tasks'[h][u] = tasks[h][u]
    BY <2>1 DEF TimerInv, TimerTypes
  <2>6. ~expired
    BY <2>2 DEF TimerInv, LastTaskServes
  <2>7. ASSUME NEW g \in Handlers, timer'[g] # Off, ~(expired' /\ calling' = g)
        PROVE  /\ timeoutTaskToken'[g] \in Tokens
               /\ tasks'[g][timeoutTaskToken'[g]] \in
                     IF timer'[g] = 0 THEN {0, 1} ELSE {timer'[g]}
    <3>1. /\ timeoutTaskToken[g] \in Tokens
          /\ tasks[g][timeoutTaskToken[g]] \in
                IF timer[g] = 0 THEN {0, 1} ELSE {timer[g]}
      BY <2>2, <2>6, <2>7 DEF TimerInv, LastTaskServes, Answering
    <3>2. CASE g # h
      BY <2>2, <2>4, <3>1, <3>2
    <3>3. CASE g = h
      <4>1. timer[h] # 0
        BY <2>2, <2>7, <3>3
      <4>2. timeoutTaskToken[h] # t
        BY <2>1, <3>1, <3>3, <4>1
      <4> QED  BY <2>2, <2>5, <3>1, <3>3, <4>2
    <3> QED  BY <3>2, <3>3
  <2>8. expired' => calling' \in Handlers /\ timer'[calling'] = 0
    BY <2>2
  <2> QED  BY <2>3, <2>7, <2>8 DEF TimerInv, LastTaskServes, Answering
<1>7. CASE Tick
  <2>1. /\ tasks' = [h \in Handlers |-> [t \in Tokens |-> Less(tasks[h][t])]]
        /\ timer' = [h \in Handlers |-> Less(timer[h])]
        /\ UNCHANGED <<timeoutTaskToken, calling, event, expired>>
        /\ calling = Nobody
        /\ \A h \in Handlers, t \in Tokens : tasks[h][t] # 0
    BY <1>7 DEF Tick, callVars
  <2>2. \A n \in Off..MaxTimeout : Less(n) \in Off..MaxTimeout
    BY DEF Less
  <2>3. TimerTypes' /\ CallTypes'
    <3>1. \A h \in Handlers, t \in Tokens : tasks[h][t] \in Off..MaxTimeout
      BY DEF TimerInv, TimerTypes
    <3>2. tasks' \in [Handlers -> [Tokens -> Off..MaxTimeout]]
      BY <2>1, <2>2, <3>1
    <3>3. timer' \in [Handlers -> Off..MaxTimeout]
      BY <2>1, <2>2 DEF TimerInv, TimerTypes
    <3> QED  BY <2>1, <3>2, <3>3 DEF TimerInv, TimerTypes, CallTypes
  <2>4. ~expired
    BY <2>1 DEF TimerInv, LastTaskServes
  <2>5. ASSUME NEW h \in Handlers, timer'[h] # Off
        PROVE  /\ timeoutTaskToken'[h] \in Tokens
               /\ tasks'[h][timeoutTaskToken'[h]] \in
                     IF timer'[h] = 0 THEN {0, 1} ELSE {timer'[h]}
    <3>1. timer[h] # Off /\ timer[h] \in Off..MaxTimeout /\ timer'[h] = Less(timer[h])
      BY <2>1, <2>5 DEF TimerInv, TimerTypes, Less
    <3>2. /\ timeoutTaskToken[h] \in Tokens
          /\ tasks[h][timeoutTaskToken[h]] \in
                IF timer[h] = 0 THEN {0, 1} ELSE {timer[h]}
      BY <2>4, <3>1 DEF TimerInv, LastTaskServes, Answering
    <3>3. /\ tasks'[h][timeoutTaskToken[h]] = Less(tasks[h][timeoutTaskToken[h]])
          /\ tasks[h][timeoutTaskToken[h]] # 0
      BY <2>1, <3>2
    <3> QED  BY <2>1, <3>1, <3>2, <3>3 DEF Less
  <2> QED  BY <2>1, <2>3, <2>4, <2>5 DEF TimerInv, LastTaskServes
<1>8. CASE \/ \E h \in Handlers, s \in Fds :
                 \/ OpenSocket(h, s) \/ CloseSocket(h, s)
                 \/ \E action \in Polls \cup {"remove"} : Ask(h, s, action)
           \/ \E s \in Fds : RtspOpens(s) \/ RtspCloses(s)
           \/ UNCHANGED vars
  <2>1. UNCHANGED <<timerVars, callVars>>
    BY <1>8 DEF OpenSocket, CloseSocket, Ask, RtspOpens, RtspCloses, vars
  <2> QED  BY <1>1, <2>1
<1> QED  BY <1>2, <1>3, <1>4, <1>5, <1>6, <1>7, <1>8 DEF Next, Libcurl

-----------------------------------------------------------------------------
THEOREM InvariantHolds == Spec => []Inv
<1> USE CurlSocketsAssumption
<1>1. Init => Inv
  <2> SUFFICES ASSUME Init PROVE Inv
    OBVIOUS
  <2>1. NoWatch \in [flags : SUBSET {"readable", "writable"},
                     clientData : Contexts \cup {Rtsp, Null}]
    BY DEF NoWatch
  <2>2. SocketTypes
    BY <2>1 DEF Init, SocketTypes, Polls
  <2>3. WatchesAgree /\ SocketpAgrees
    BY DEF Init, WatchesAgree, SocketpAgrees, NoWatch
  <2>4. TimerTypes /\ CallTypes
    <3>1. Off \in Off..MaxTimeout
      BY DEF Off
    <3>2. TimerTypes
      BY <3>1 DEF Init, TimerTypes
    <3>3. CallTypes
      BY DEF Init, CallTypes
    <3> QED  BY <3>2, <3>3
  <2>5. LastTaskServes
    BY DEF Init, LastTaskServes
  <2> QED  BY <2>2, <2>3, <2>4, <2>5 DEF Inv, SocketInv, TimerInv
<1>2. Inv /\ [Next]_vars => Inv'
  BY SocketsStep, TimersStep DEF Inv
<1> QED  BY <1>1, <1>2, PTL DEF Spec

\* Type correctness (the members and callbacks of AsyncHassHandler.h:41-63).
THEOREM TypeCorrect == Spec => []TypeOK
<1>1. Inv => TypeOK
  BY DEF Inv, SocketInv, SocketTypes, TimerInv, TimerTypes, CallTypes, TypeOK
<1> QED  BY <1>1, InvariantHolds, PTL

\* The scheduler watches what each libcurl asked for last, for its handler, with
\* a context that lives, whoever shares the descriptors
\* (AsyncHassHandler.cxx:122-158, AsyncFileSave.cxx:289-325).
THEOREM WatchesAreAgreed == Spec => []WatchesAgree
<1>1. Inv => WatchesAgree
  BY DEF Inv, SocketInv
<1> QED  BY <1>1, InvariantHolds, PTL

\* A timer that libcurl set is served in time, whatever tasks are left over from
\* earlier timers (AsyncHassHandler.cxx:160-177, AsyncFileSave.cxx:327-341).
THEOREM TimersAreServed == Spec => []TimerServed
<1>1. Inv => TimerServed
  <2> SUFFICES ASSUME Inv, NEW h \in Handlers, timer[h] # Off, ~Answering(h)
               PROVE  \E t \in Tokens :
                        tasks[h][t] \in 0..(IF timer[h] = 0 THEN 1 ELSE timer[h])
    BY DEF TimerServed
  <2>1. /\ timeoutTaskToken[h] \in Tokens
        /\ tasks[h][timeoutTaskToken[h]] \in
              IF timer[h] = 0 THEN {0, 1} ELSE {timer[h]}
    BY DEF Inv, TimerInv, LastTaskServes
  <2>2. timer[h] \in 0..MaxTimeout
    BY CurlSocketsAssumption DEF Inv, TimerInv, TimerTypes, Off
  <2> QED  BY <2>1, <2>2, CurlSocketsAssumption
<1> QED  BY <1>1, InvariantHolds, PTL

-----------------------------------------------------------------------------
(* The handlers serve libcurl: CurlSockets implements MultiSocket.         *)

\* Away from a call no timer is being answered.
LEMMA NothingAnswered ==
  ASSUME Inv, calling = Nobody
  PROVE  ~expired
BY CurlSocketsAssumption DEF Inv, TimerInv, LastTaskServes

\* A timer that is set waits in the task that is scheduled for it.
LEMMA TimeoutCallbackLeaves ==
  ASSUME Inv, NEW h \in Handlers, NEW timeout \in Off..MaxTimeout,
         timer' = [timer EXCEPT ![h] = timeout], TimeoutCallback(h, timeout),
         expired' = FALSE, \A g \in Handlers : g # h => ~Answering(g)
  PROVE  Left' = [Left EXCEPT ![h] = Multi!Wait(timeout)]
<1> USE CurlSocketsAssumption DEF Off
<1>1. TimerTypes
  BY DEF Inv, TimerInv
<1>2. ASSUME NEW g \in Handlers, g # h PROVE Left'[g] = Left[g]
  <2>1. /\ timer'[g] = timer[g] /\ tasks'[g] = tasks[g]
        /\ timeoutTaskToken'[g] = timeoutTaskToken[g]
    BY <1>1, <1>2, TimeoutCallbackServes
  <2> QED  BY <1>2, <2>1 DEF Left, Answering
<1>3. timer'[h] = timeout
  BY <1>1 DEF TimerTypes
<1>4. CASE timeout < 0
  <2>1. Left'[h] = Off /\ Multi!Wait(timeout) = Off
    BY <1>3, <1>4 DEF Left, Multi!Wait
  <2> QED  BY <1>2, <2>1 DEF Left
<1>5. CASE ~(timeout < 0)
  <2> DEFINE wait == IF timeout = 0 THEN 1 ELSE timeout
  <2>1. PICK t \in Tokens : /\ tasks' = [tasks EXCEPT ![h][t] = wait]
                           /\ timeoutTaskToken' = [timeoutTaskToken EXCEPT ![h] = t]
    BY <1>5 DEF TimeoutCallback
  <2>2. tasks'[h][timeoutTaskToken'[h]] = wait
    BY <1>1, <2>1 DEF TimerTypes
  <2>3. timer'[h] # Off /\ ~Answering(h)'
    BY <1>3, <1>5 DEF Answering
  <2>4. Left'[h] = Multi!Wait(timeout)
    BY <2>2, <2>3 DEF Left, Multi!Wait
  <2> QED  BY <1>2, <2>4 DEF Left
<1> QED  BY <1>4, <1>5

\* Nothing libcurl sees changes while sockets come and go that it wants nothing
\* of.
LEMMA WantedUnchanged ==
  ASSUME Inv, UNCHANGED asked,
         \A s \in Fds : asked[s] # "remove" => owner'[s] = owner[s]
  PROVE  UNCHANGED Wanted
BY DEF Wanted

LEMMA LeftUnchanged ==
  ASSUME UNCHANGED timerVars, \A h \in Handlers : Answering(h)' <=> Answering(h)
  PROVE  UNCHANGED Left
BY DEF Left, timerVars

LEMMA LibcurlStepMaps ==
  ASSUME Inv, NEW h \in Handlers, Libcurl(h)
  PROVE  [Multi!Next]_(Multi!vars)
<1> USE CurlSocketsAssumption
<1>1. ASSUME NEW s \in Fds, OpenSocket(h, s) \/ CloseSocket(h, s)
      PROVE  UNCHANGED Multi!vars
  <2>1. asked[s] = "remove"
    BY <1>1 DEF OpenSocket, CloseSocket, Inv, SocketInv, WatchesAgree
  <2>2. \A r \in Fds : r # s => owner'[r] = owner[r]
    BY <1>1 DEF OpenSocket, CloseSocket, Inv, SocketInv, SocketTypes
  <2>3. UNCHANGED Wanted
    BY <1>1, <2>1, <2>2, WantedUnchanged DEF OpenSocket, CloseSocket
  <2>4. UNCHANGED Left
    BY <1>1, LeftUnchanged DEF OpenSocket, CloseSocket, callVars, Answering
  <2> QED  BY <1>1, <2>3, <2>4
           DEF OpenSocket, CloseSocket, callVars, timerVars, Multi!vars
<1>2. ASSUME NEW s \in Fds, NEW action \in Polls \cup {"remove"}, Ask(h, s, action)
      PROVE  Multi!Want(h, s)
  <2>1. /\ calling = h /\ owner[s] = h /\ asked' = [asked EXCEPT ![s] = action]
        /\ UNCHANGED <<owner, timerVars, callVars>>
    BY <1>2 DEF Ask
  <2> DEFINE w == IF action = "remove" THEN Nobody ELSE h
  <2>2. Wanted' = [Wanted EXCEPT ![s] = w] /\ Wanted[s] \in {h, Nobody}
    BY <2>1 DEF Wanted, Inv, SocketInv, SocketTypes
  <2>3. UNCHANGED Left
    BY <2>1, LeftUnchanged DEF callVars, Answering
  <2> QED  BY <2>1, <2>2, <2>3 DEF Multi!Want, callVars, timerVars
<1>3. ASSUME NEW timeout \in Off..MaxTimeout, SetTimer(h, timeout)
      PROVE  Multi!SetTimer(h, timeout)
  <2>1. /\ calling = h /\ timer' = [timer EXCEPT ![h] = timeout]
        /\ TimeoutCallback(h, timeout) /\ expired' = FALSE
        /\ UNCHANGED <<socketVars, calling, event>>
    BY <1>3 DEF SetTimer
  <2>2. Left' = [Left EXCEPT ![h] = Multi!Wait(timeout)]
    BY <2>1, TimeoutCallbackLeaves DEF Answering
  <2>3. UNCHANGED Wanted
    BY <2>1 DEF Wanted, socketVars
  <2> QED  BY <2>1, <2>2, <2>3 DEF Multi!SetTimer
<1>4. ASSUME Return(h) PROVE Multi!Return(h)
  <2>1. /\ calling = h /\ ~expired /\ calling' = Nobody /\ event' = Null
        /\ UNCHANGED <<socketVars, timerVars, expired>>
    BY <1>4 DEF Return
  <2>2. UNCHANGED Wanted /\ UNCHANGED Left
    BY <2>1, LeftUnchanged DEF Wanted, socketVars, Answering
  <2>3. timer[h] # Off => Left[h] # Off
    <3>1. ASSUME timer[h] # Off
          PROVE  tasks[h][timeoutTaskToken[h]] # Off
      <4>1. /\ tasks[h][timeoutTaskToken[h]] \in
                  IF timer[h] = 0 THEN {0, 1} ELSE {timer[h]}
        BY <2>1, <3>1 DEF Inv, TimerInv, LastTaskServes, Answering
      <4> QED  BY <3>1, <4>1 DEF Off
    <3> QED  BY <2>1, <3>1 DEF Left, Answering
  <2> QED  BY <2>1, <2>2, <2>3 DEF Multi!Return, Multi!Off, Off, timerVars
<1> QED
  BY <1>1, <1>2, <1>3, <1>4 DEF Libcurl, Multi!Next, Multi!Off, Off

LEMMA CallMaps ==
  ASSUME Inv, NEW h \in Handlers, AddHandle(h) \/ TimeoutHandlerProc(h)
  PROVE  Multi!AddHandle(h) \/ Multi!Timeout(h)
<1> USE CurlSocketsAssumption
<1>1. CASE AddHandle(h)
  <2>1. /\ calling = Nobody /\ calling' = h /\ event' = Null
        /\ UNCHANGED <<socketVars, expired>> /\ ~expired
    BY <1>1, NothingAnswered DEF AddHandle
  <2>2. UNCHANGED Wanted
    BY <2>1 DEF Wanted, socketVars
  <2>3. timer \in [Handlers -> Off..MaxTimeout] /\ Left = [Left EXCEPT ![h] = Left[h]]
    BY DEF Inv, TimerInv, TimerTypes, Left
  <2>4. CASE timer[h] = 0
    <3>1. UNCHANGED timerVars
      BY <1>1, <2>4 DEF AddHandle
    <3>2. UNCHANGED Left
      BY <2>1, <3>1, LeftUnchanged DEF Answering
    <3>3. timer' = [timer EXCEPT ![h] = 0]
      BY <2>3, <2>4, <3>1 DEF timerVars
    <3> QED  BY <2>1, <2>2, <2>3, <2>4, <3>2, <3>3 DEF Multi!AddHandle, Multi!Call
  <2>5. CASE timer[h] # 0
    <3>1. timer' = [timer EXCEPT ![h] = 0] /\ TimeoutCallback(h, 0)
      BY <1>1, <2>5 DEF AddHandle
    <3>2. 0 \in Off..MaxTimeout
      BY DEF Off
    <3>3. expired' = FALSE /\ \A g \in Handlers : ~Answering(g)
      BY <2>1 DEF Inv, CallTypes, Answering
    <3>4. Left' = [Left EXCEPT ![h] = Multi!Wait(0)]
      BY <3>1, <3>2, <3>3, TimeoutCallbackLeaves
    <3> QED  BY <2>1, <2>2, <2>5, <3>1, <3>4 DEF Multi!AddHandle, Multi!Call
  <2> QED  BY <2>4, <2>5
<1>2. CASE TimeoutHandlerProc(h)
  <2>1. PICK t \in Tokens : tasks[h][t] = 0 /\ tasks' = [tasks EXCEPT ![h][t] = Off]
    BY <1>2 DEF TimeoutHandlerProc
  <2>2. /\ calling = Nobody /\ calling' = h /\ event' = Null
        /\ expired' = (timer[h] = 0) /\ ~expired
        /\ UNCHANGED <<socketVars, timer, timeoutTaskToken>>
    BY <1>2, NothingAnswered DEF TimeoutHandlerProc
  <2>3. UNCHANGED Wanted
    BY <2>2 DEF Wanted, socketVars
  <2>4. ASSUME NEW g \in Handlers, g # h PROVE Left'[g] = Left[g]
    <3>1. tasks'[g] = tasks[g]
      BY <2>1, <2>4 DEF Inv, TimerInv, TimerTypes
    <3> QED  BY <2>2, <2>4, <3>1 DEF Left, Answering
  <2>5. Left'[h] = IF timer[h] = 0 THEN Off ELSE Left[h]
    <3>1. CASE timer[h] = 0
      BY <2>2, <3>1 DEF Left, Answering
    <3>2. CASE timer[h] = Off
      BY <2>2, <3>2 DEF Left, Off
    <3>3. CASE timer[h] # 0 /\ timer[h] # Off
      <4>1. /\ timeoutTaskToken[h] \in Tokens
            /\ tasks[h][timeoutTaskToken[h]] = timer[h]
        BY <2>2, <3>3 DEF Inv, TimerInv, LastTaskServes, Answering
      <4>2. tasks'[h][timeoutTaskToken[h]] = tasks[h][timeoutTaskToken[h]]
        BY <2>1, <3>3, <4>1 DEF Inv, TimerInv, TimerTypes
      <4> QED  BY <2>2, <3>3, <4>2 DEF Left, Answering
    <3> QED  BY <3>1, <3>2, <3>3
  <2>6. Left' = [Left EXCEPT ![h] = IF timer[h] = 0 THEN Multi!Off ELSE Left[h]]
    BY <2>4, <2>5 DEF Left, Off, Multi!Off
  <2> QED  BY <2>2, <2>3, <2>6 DEF Multi!Timeout, Multi!Call
<1> QED  BY <1>1, <1>2

LEMMA SocketReadyMaps ==
  ASSUME Inv, NEW s \in Fds, BackgroundHandlerProc(s)
  PROVE  \E h \in Handlers : Multi!SocketReady(h, s)
<1>1. /\ calling = Nobody /\ watch[s].clientData \in Contexts
      /\ calling' = context[watch[s].clientData].pHandler
      /\ event' = context[watch[s].clientData].sockfd
      /\ UNCHANGED <<socketVars, timerVars, expired>> /\ ~expired
  BY NothingAnswered DEF BackgroundHandlerProc
<1>2. /\ asked[s] # "remove" /\ owner[s] \in Handlers
      /\ context[watch[s].clientData] = [sockfd |-> s, pHandler |-> owner[s]]
  BY <1>1 DEF Inv, SocketInv, WatchesAgree
<1>3. calling' = owner[s] /\ event' = s /\ Wanted[s] = owner[s]
  BY <1>1, <1>2 DEF Wanted
<1>4. UNCHANGED Wanted /\ UNCHANGED Left
  BY <1>1, LeftUnchanged DEF Wanted, socketVars, Answering
<1> QED  BY <1>1, <1>2, <1>3, <1>4 DEF Multi!SocketReady, Multi!Call, timerVars

LEMMA TickMaps ==
  ASSUME Inv, Tick
  PROVE  Multi!Tick
<1> USE CurlSocketsAssumption
<1>1. /\ calling = Nobody /\ ~expired /\ UNCHANGED <<socketVars, timeoutTaskToken, callVars>>
      /\ \A h \in Handlers, t \in Tokens : tasks[h][t] # 0
      /\ tasks' = [h \in Handlers |-> [t \in Tokens |-> Less(tasks[h][t])]]
      /\ timer' = [h \in Handlers |-> Less(timer[h])]
  BY NothingAnswered DEF Tick
<1>2. ASSUME NEW h \in Handlers PROVE Left[h] # 0 /\ Left'[h] = Less(Left[h])
  <2>1. timer[h] \in Off..MaxTimeout /\ timer'[h] = Less(timer[h])
    BY <1>1 DEF Inv, TimerInv, TimerTypes
  <2>2. ~Answering(h) /\ ~Answering(h)'
    BY <1>1 DEF Answering, callVars
  <2>3. CASE timer[h] = Off
    BY <2>1, <2>3 DEF Left, Less, Off
  <2>4. CASE timer[h] # Off
    <3>1. timer'[h] # Off
      BY <2>1, <2>4 DEF Less, Off
    <3>2. timeoutTaskToken[h] \in Tokens
      BY <2>2, <2>4 DEF Inv, TimerInv, LastTaskServes
    <3> QED  BY <1>1, <2>2, <2>4, <3>1, <3>2 DEF Left
  <2> QED  BY <2>3, <2>4
<1>3. Left' = [h \in Handlers |-> Less(Left[h])]
  BY <1>2 DEF Left
<1>4. UNCHANGED Wanted
  BY <1>1 DEF Wanted, socketVars
<1> QED  BY <1>1, <1>2, <1>3, <1>4 DEF Multi!Tick, Multi!Less, Less, callVars

\* The handlers give each libcurl what the multi_socket interface asks for: it is
\* called for the sockets it wants events on and no others, and time never
\* passes by its timer (AsyncHassHandler.cxx:122-203, AsyncFileSave.cxx:289-372).
THEOREM HandlersServeLibcurl == Spec => ServesLibcurl
<1>1. Init => Multi!Init
  BY DEF Init, Multi!Init, Wanted, Left, Off, Multi!Off
<1>2. ASSUME Inv, [Next]_vars PROVE [Multi!Next]_(Multi!vars)
  <2>1. ASSUME NEW h \in Handlers, Libcurl(h) PROVE [Multi!Next]_(Multi!vars)
    BY <1>2, <2>1, LibcurlStepMaps
  <2>2. ASSUME NEW h \in Handlers, AddHandle(h) \/ TimeoutHandlerProc(h)
        PROVE  Multi!Next
    BY <1>2, <2>2, CallMaps DEF Multi!Next
  <2>3. ASSUME NEW s \in Fds, BackgroundHandlerProc(s) PROVE Multi!Next
    BY <1>2, <2>3, SocketReadyMaps DEF Multi!Next
  <2>4. ASSUME NEW s \in Fds, RtspOpens(s) \/ RtspCloses(s)
        PROVE  UNCHANGED Multi!vars
    <3>1. asked[s] = "remove"
      BY <1>2, <2>4, CurlSocketsAssumption
      DEF RtspOpens, RtspCloses, Inv, SocketInv, WatchesAgree
    <3>2. \A r \in Fds : r # s => owner'[r] = owner[r]
      BY <1>2, <2>4 DEF RtspOpens, RtspCloses, Inv, SocketInv, SocketTypes
    <3>3. UNCHANGED Wanted
      BY <1>2, <2>4, <3>1, <3>2, WantedUnchanged DEF RtspOpens, RtspCloses
    <3>4. UNCHANGED Left
      BY <2>4, LeftUnchanged DEF RtspOpens, RtspCloses, callVars, Answering
    <3> QED  BY <2>4, <3>3, <3>4
             DEF RtspOpens, RtspCloses, callVars, timerVars, Multi!vars
  <2>5. CASE Tick
    BY <1>2, <2>5, TickMaps DEF Multi!Next
  <2>6. CASE UNCHANGED vars
    BY <2>6 DEF vars, socketVars, timerVars, callVars, Wanted, Left, Answering, Multi!vars
  <2> QED  BY <1>2, <2>1, <2>2, <2>3, <2>4, <2>5, <2>6 DEF Next
<1> QED  BY <1>1, <1>2, InvariantHolds, PTL DEF Spec, ServesLibcurl, Multi!Spec

=============================================================================
