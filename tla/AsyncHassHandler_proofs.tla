----------------------- MODULE AsyncHassHandler_proofs ----------------------
(***************************************************************************)
(* Proofs about AsyncHassHandler, for any number of handlers, reports and  *)
(* requests and any debounce time.                                         *)
(***************************************************************************)
EXTENDS AsyncHassHandler, AsyncDebouncer_proofs

-----------------------------------------------------------------------------
(* The inductive invariant.  Its conjuncts about contexts and requests     *)
(* support each other: a dropped transfer has a finished predecessor       *)
(* because the message that dropped it was unread (UnreadFinished) and the *)
(* context that was dropped belonged to the same handler                   *)
(* (NoDanglingHandle); a new request disturbs none of this because the     *)
(* counter is ahead of all of them (CounterAhead).                         *)

\* The state of a handler that has not been registered satisfies the invariant.
LEMMA InitIInv == Init => IInv
<1> SUFFICES ASSUME Init PROVE IInv
  OBVIOUS
<1> USE ConstantsAssumption
<1>1. UnusedRequest \in Requests
  BY DEF UnusedRequest, Requests
<1>2. NullDocument \in Documents
  BY DEF NullDocument, Documents
<1>3. NewDebouncer \in Debouncer /\ OneTaskPerWindow(NewDebouncer)
  BY DEF NewDebouncer, Debouncer, OneTaskPerWindow
<1>4. TypeOK
  BY <1>1, <1>2, <1>3 DEF Init, TypeOK
<1>5. DebounceWindows
  BY <1>3 DEF Init, DebounceWindows
<1>6. NoDanglingHandle /\ UnreadFinished
  BY DEF Init, NoDanglingHandle, UnreadFinished
<1>7. NeverTwoCancelled /\ CounterAhead /\ RequestsOwned
  BY DEF Init, NeverTwoCancelled, CounterAhead, RequestsOwned, UnusedRequest
<1> QED BY <1>4, <1>5, <1>6, <1>7 DEF IInv

\* Making a request keeps what the invariant says of requests and contexts
\* (AsyncHassHandler.cxx:60-65, 73-78).
LEMMA StartRequestKeeps ==
    ASSUME IInv, NEW h \in Handlers, NEW method \in {"GET", "POST"},
           NEW payload \in Reports \cup {NoReport},
           method = "POST" => payload \in Reports,
           StartRequest(h, method, payload), UNCHANGED unread
    PROVE  /\ contextId' \in 1..(MaxContextId + 1)
           /\ easy' \in [Ids -> Requests]
           /\ easyCtxs' \in [Handlers -> SUBSET Ids]
           /\ attached' \in [Handlers -> SUBSET Ids]
           /\ NoDanglingHandle' /\ NeverTwoCancelled' /\ CounterAhead'
           /\ RequestsOwned' /\ UnreadFinished'
<1> USE ConstantsAssumption
<1> DEFINE req == NewRequest(h, method, payload)
<1>1. req \in Requests
  BY DEF NewRequest, Requests
<1>2. req.owner = h /\ req.method = method /\ req.payload = payload
      /\ req.phase = "sent"
  BY DEF NewRequest
<1> HIDE DEF req
<1>3. /\ contextId \in Ids
      /\ easy' = [easy EXCEPT ![contextId] = req]
      /\ easyCtxs' = [easyCtxs EXCEPT ![h] = @ \cup {contextId}]
      /\ attached' = [attached EXCEPT ![h] = @ \cup {contextId}]
      /\ contextId' = contextId + 1
  BY DEF StartRequest, req
<1>4. /\ easy[contextId].phase = "unused"
      /\ easy[contextId].owner \notin Handlers
  BY <1>3 DEF IInv, TypeOK, CounterAhead, UnusedRequest, Ids
<1>5. \A id \in Ids : id # contextId => easy'[id] = easy[id]
  BY <1>3 DEF IInv, TypeOK
<1>6. easy'[contextId] = req
  BY <1>3 DEF IInv, TypeOK
<1>7. /\ contextId' \in 1..(MaxContextId + 1)
      /\ easy' \in [Ids -> Requests]
      /\ easyCtxs' \in [Handlers -> SUBSET Ids]
      /\ attached' \in [Handlers -> SUBSET Ids]
  BY <1>1, <1>3 DEF IInv, TypeOK, Ids
<1>8. NoDanglingHandle'
  <2> SUFFICES ASSUME NEW g \in Handlers
               PROVE  /\ unread'[g] \subseteq attached'[g]
                      /\ attached'[g] \subseteq easyCtxs'[g]
                      /\ \A id \in easyCtxs'[g] : easy'[id].owner = g
    BY DEF NoDanglingHandle
  <2>1. contextId \notin easyCtxs[g]
    BY <1>4 DEF IInv, NoDanglingHandle
  <2>2. \A id \in easyCtxs[g] : easy'[id].owner = g
    BY <1>5, <2>1 DEF IInv, NoDanglingHandle, TypeOK
  <2>3. CASE g = h
    BY <1>2, <1>3, <1>6, <2>2, <2>3 DEF IInv, NoDanglingHandle, TypeOK
  <2>4. CASE g # h
    BY <1>3, <2>2, <2>4 DEF IInv, NoDanglingHandle, TypeOK
  <2> QED BY <2>3, <2>4
<1>9. NeverTwoCancelled'
  <2> SUFFICES ASSUME NEW id \in Ids, easy'[id].phase = "cancelled"
               PROVE  /\ id - 1 \in Ids
                      /\ easy'[id - 1].phase = "done"
                      /\ easy'[id - 1].owner = easy'[id].owner
    BY DEF NeverTwoCancelled
  <2>1. id # contextId
    BY <1>2, <1>6
  <2>2. /\ id - 1 \in Ids
        /\ easy[id - 1].phase = "done"
        /\ easy[id - 1].owner = easy[id].owner
    BY <1>5, <2>1 DEF IInv, NeverTwoCancelled
  <2>3. id - 1 # contextId
    BY <1>4, <2>2
  <2> QED BY <1>5, <2>1, <2>2, <2>3
<1>10. CounterAhead'
  BY <1>3, <1>5 DEF IInv, CounterAhead, TypeOK, Ids
<1>11. RequestsOwned'
  BY <1>2, <1>5, <1>6 DEF IInv, RequestsOwned
<1>12. UnreadFinished'
  BY <1>3, <1>4, <1>5 DEF IInv, UnreadFinished, TypeOK
<1> QED BY <1>7, <1>8, <1>9, <1>10, <1>11, <1>12

\* Register keeps the invariant (AsyncHassHandler.cxx:38-50).
LEMMA RegisterKeeps ==
    ASSUME IInv, NEW h \in Handlers, Register(h)
    PROVE  IInv'
<1>1. StartRequest(h, "GET", NoReport) /\ UNCHANGED unread
  BY DEF Register
<1>2. UNCHANGED <<unread, currentState, nextState, debouncer, hass>>
      /\ registered' = registered \cup {h}
  BY DEF Register
<1>3. DebounceWindows'
  BY <1>2 DEF IInv, DebounceWindows
<1> QED BY <1>1, <1>2, <1>3, StartRequestKeeps DEF IInv, TypeOK

\* UpdateState_Impl keeps the invariant (AsyncHassHandler.cxx:52-70).
LEMMA UpdateStateKeeps ==
    ASSUME IInv, NEW h \in Handlers, NEW report \in Reports,
           UpdateState_Impl(h, report)
    PROVE  IInv'
<1> USE ConstantsAssumption
<1>1. /\ nextState' = [nextState EXCEPT ![h].report = report]
      /\ UNCHANGED <<registered, unread, currentState, hass>>
  BY DEF UpdateState_Impl, UpdateStateInternal
<1>2. nextState' \in [Handlers -> Documents]
  BY <1>1 DEF IInv, TypeOK, Documents
<1>3. CASE debouncer[h].updateAllowed /\ nextState'[h] # currentState[h]
  <2>1. /\ StartRequest(h, "POST", report)
        /\ debouncer' = [debouncer EXCEPT ![h] = Debounce(@, DebounceTime)]
    BY <1>3 DEF UpdateState_Impl
  <2>2. debouncer[h] \in Debouncer /\ OneTaskPerWindow(debouncer[h])
    BY DEF IInv, TypeOK, DebounceWindows
  <2>3. /\ Debounce(debouncer[h], DebounceTime) \in Debouncer
        /\ OneTaskPerWindow(Debounce(debouncer[h], DebounceTime))
    BY <2>2, DebounceOpensWindow
  <2>4. debouncer' \in [Handlers -> Debouncer] /\ DebounceWindows'
    BY <2>1, <2>3 DEF IInv, TypeOK, DebounceWindows
  <2> QED BY <1>1, <1>2, <2>1, <2>4, StartRequestKeeps DEF IInv, TypeOK
<1>4. CASE ~(debouncer[h].updateAllowed /\ nextState'[h] # currentState[h])
  <2>1. UNCHANGED <<contextId, easy, easyCtxs, attached, debouncer>>
    BY <1>4 DEF UpdateState_Impl
  <2>2. TypeOK' /\ DebounceWindows'
    BY <1>1, <1>2, <2>1 DEF IInv, TypeOK, DebounceWindows
  <2>3. NoDanglingHandle' /\ NeverTwoCancelled' /\ UnreadFinished'
    BY <1>1, <2>1 DEF IInv, NoDanglingHandle, NeverTwoCancelled, UnreadFinished
  <2>4. CounterAhead' /\ RequestsOwned'
    BY <1>1, <2>1 DEF IInv, CounterAhead, RequestsOwned
  <2> QED BY <2>2, <2>3, <2>4 DEF IInv
<1> QED BY <1>3, <1>4

\* The end of a debounce window keeps the invariant (AsyncDebouncer.cxx:27-34).
LEMMA DebounceTaskKeeps ==
    ASSUME IInv, NEW h \in Handlers, DebounceTask(h)
    PROVE  IInv'
<1>1. PICK token \in debouncer[h].scheduled :
         debouncer' = [debouncer EXCEPT ![h] = DebounceUpdateProc(@, token)]
  BY DEF DebounceTask
<1>2. UNCHANGED <<registered, contextId, easy, easyCtxs, attached, unread,
                  currentState, nextState, hass>>
  BY DEF DebounceTask
<1>3. debouncer[h] \in Debouncer /\ OneTaskPerWindow(debouncer[h])
  BY DEF IInv, TypeOK, DebounceWindows
<1>4. /\ DebounceUpdateProc(debouncer[h], token) \in Debouncer
      /\ OneTaskPerWindow(DebounceUpdateProc(debouncer[h], token))
  BY <1>3, DebounceTaskEndsWindow
<1>5. TypeOK' /\ DebounceWindows'
  BY <1>1, <1>2, <1>4 DEF IInv, TypeOK, DebounceWindows
<1>6. NoDanglingHandle' /\ NeverTwoCancelled' /\ UnreadFinished'
  BY <1>2 DEF IInv, NoDanglingHandle, NeverTwoCancelled, UnreadFinished
<1>7. CounterAhead' /\ RequestsOwned'
  BY <1>2 DEF IInv, CounterAhead, RequestsOwned
<1> QED BY <1>5, <1>6, <1>7 DEF IInv

\* Home Assistant's handling of a request keeps the invariant.
LEMMA HassHandlesKeeps ==
    ASSUME IInv, NEW id \in Ids, HassHandles(id)
    PROVE  IInv'
<1> DEFINE r == easy[id]
           s == [r EXCEPT !.applied = TRUE, !.answer = hass'[r.owner]]
<1>1. /\ r.phase # "unused"
      /\ hass' = IF r.method = "POST"
                 THEN [hass EXCEPT ![r.owner] = r.payload] ELSE hass
      /\ easy' = [easy EXCEPT ![id] = s]
      /\ UNCHANGED <<registered, contextId, easyCtxs, attached, unread,
                     currentState, nextState, debouncer>>
  BY DEF HassHandles
<1>2. r \in Requests /\ r.owner \in Handlers
      /\ (r.method = "POST" => r.payload \in Reports)
  BY <1>1 DEF IInv, TypeOK, RequestsOwned
<1>3. hass' \in [Handlers -> Reports \cup {Missing}]
  BY <1>1, <1>2 DEF IInv, TypeOK
<1>4. /\ s \in Requests /\ s.phase = r.phase /\ s.owner = r.owner
      /\ s.method = r.method /\ s.payload = r.payload
  <2>1. hass'[r.owner] \in Reports \cup {Missing}
    BY <1>2, <1>3
  <2> QED BY <1>2, <2>1 DEF Requests
<1> HIDE DEF s
<1>5. /\ easy'[id] = s
      /\ \A i \in Ids : i # id => easy'[i] = easy[i]
      /\ easy' \in [Ids -> Requests]
  BY <1>1, <1>4 DEF IInv, TypeOK
<1>6. \A i \in Ids : /\ easy'[i].phase = easy[i].phase
                      /\ easy'[i].owner = easy[i].owner
                      /\ easy'[i].method = easy[i].method
                      /\ easy'[i].payload = easy[i].payload
  BY <1>4, <1>5
<1>7. TypeOK' /\ DebounceWindows'
  BY <1>1, <1>3, <1>5 DEF IInv, TypeOK, DebounceWindows
<1>8. NoDanglingHandle' /\ UnreadFinished'
  BY <1>1, <1>6 DEF IInv, NoDanglingHandle, UnreadFinished, TypeOK
<1>9. NeverTwoCancelled' /\ RequestsOwned'
  BY <1>6 DEF IInv, NeverTwoCancelled, RequestsOwned
<1>10. CounterAhead'
  <2>1. ~(id >= contextId)
    BY <1>1 DEF IInv, CounterAhead, UnusedRequest
  <2> QED BY <1>1, <1>5, <2>1 DEF IInv, CounterAhead
<1> QED BY <1>7, <1>8, <1>9, <1>10 DEF IInv

\* The end of some transfers keeps the invariant (AsyncHassHandler.cxx:191-194,
\* 203-205).
LEMMA SocketActionKeeps ==
    ASSUME IInv, NEW h \in Handlers, SocketAction(h)
    PROVE  IInv'
<1>1. PICK finished \in SUBSET {id \in attached[h] : easy[id].phase = "sent"} :
        \E received \in [finished -> {"nothing", "status", "all"}] :
          /\ unread' = [unread EXCEPT ![h] = finished]
          /\ easy' = [id \in Ids |->
                        IF id \in finished
                        THEN [easy[id] EXCEPT !.phase = "done",
                                              !.received = received[id]]
                        ELSE easy[id]]
  BY DEF SocketAction
<1>2. PICK received \in [finished -> {"nothing", "status", "all"}] :
          /\ unread' = [unread EXCEPT ![h] = finished]
          /\ easy' = [id \in Ids |->
                        IF id \in finished
                        THEN [easy[id] EXCEPT !.phase = "done",
                                              !.received = received[id]]
                        ELSE easy[id]]
  BY <1>1
<1>3. /\ UNCHANGED <<registered, contextId, easyCtxs, attached,
                     currentState, nextState, debouncer, hass>>
      /\ \A g \in Handlers : unread[g] = {}
  BY DEF SocketAction, EventLoopRunning, EventLoopIdle
<1>4. finished \subseteq attached[h]
      /\ \A id \in finished : easy[id].phase = "sent"
  OBVIOUS
<1>5. \A id \in Ids : id \in finished =>
        /\ easy'[id] \in Requests
        /\ easy'[id].phase = "done"
        /\ easy'[id].owner = easy[id].owner
        /\ easy'[id].method = easy[id].method
        /\ easy'[id].payload = easy[id].payload
  <2> SUFFICES ASSUME NEW id \in Ids, id \in finished
               PROVE  /\ easy'[id] \in Requests
                      /\ easy'[id].phase = "done"
                      /\ easy'[id].owner = easy[id].owner
                      /\ easy'[id].method = easy[id].method
                      /\ easy'[id].payload = easy[id].payload
    OBVIOUS
  <2>1. easy'[id] = [easy[id] EXCEPT !.phase = "done", !.received = received[id]]
    BY <1>2
  <2>2. easy[id] \in Requests /\ received[id] \in {"nothing", "status", "all"}
    BY DEF IInv, TypeOK
  <2> QED BY <2>1, <2>2 DEF Requests
<1>6. \A id \in Ids : id \notin finished => easy'[id] = easy[id]
  BY <1>2
<1>7. TypeOK' /\ DebounceWindows'
  <2>1. easy' \in [Ids -> Requests]
    BY <1>2, <1>5, <1>6 DEF IInv, TypeOK
  <2>2. unread' \in [Handlers -> SUBSET Ids]
    BY <1>2, <1>4 DEF IInv, TypeOK
  <2> QED BY <1>3, <2>1, <2>2 DEF IInv, TypeOK, DebounceWindows
<1>8. NoDanglingHandle'
  <2>1. \A g \in Handlers : unread'[g] \subseteq attached[g]
    BY <1>2, <1>3, <1>4 DEF IInv, TypeOK
  <2>2. \A g \in Handlers : \A id \in easyCtxs[g] : easy'[id].owner = g
    BY <1>5, <1>6 DEF IInv, TypeOK, NoDanglingHandle
  <2> QED BY <1>3, <2>1, <2>2 DEF IInv, NoDanglingHandle
<1>9. NeverTwoCancelled'
  <2> SUFFICES ASSUME NEW id \in Ids, easy'[id].phase = "cancelled"
               PROVE  /\ id - 1 \in Ids
                      /\ easy'[id - 1].phase = "done"
                      /\ easy'[id - 1].owner = easy'[id].owner
    BY DEF NeverTwoCancelled
  <2>1. easy[id].phase = "cancelled" /\ easy'[id].owner = easy[id].owner
    BY <1>5, <1>6
  <2>2. /\ id - 1 \in Ids
        /\ easy[id - 1].phase = "done"
        /\ easy[id - 1].owner = easy[id].owner
    BY <2>1 DEF IInv, NeverTwoCancelled
  <2> QED BY <1>5, <1>6, <2>1, <2>2
<1>10. CounterAhead'
  <2>1. \A id \in Ids : id >= contextId => id \notin finished
    BY <1>4 DEF IInv, CounterAhead, UnusedRequest
  <2> QED BY <1>3, <1>6, <2>1 DEF IInv, CounterAhead
<1>11. RequestsOwned'
  BY <1>4, <1>5, <1>6 DEF IInv, RequestsOwned
<1>12. UnreadFinished'
  <2>1. finished \subseteq Ids
    BY <1>4 DEF IInv, TypeOK
  <2> QED BY <1>2, <1>3, <1>5, <2>1 DEF IInv, TypeOK, UnreadFinished
<1> QED BY <1>7, <1>8, <1>9, <1>10, <1>11, <1>12 DEF IInv

\* The response handlers leave documents of the right kind
\* (BaseHassHandler.cxx:98-137, 155-185).
LEMMA ResponseHandlersType ==
    ASSUME TypeOK, NEW h \in Handlers, NEW it \in Ids,
           NEW received \in {"nothing", "status", "all"},
           \/ HandleGetResponse(h, it, received)
           \/ HandlePostResponse(h, it, received)
    PROVE  /\ currentState' \in [Handlers -> Documents]
           /\ nextState' \in [Handlers -> Documents]
<1>1. CASE HandleGetResponse(h, it, received)
  <2> DEFINE doc == [report |-> IF easy[it].answer = Missing
                                THEN NotFound ELSE easy[it].answer,
                     entity |-> "known"]
  <2>1. easy[it].answer \in Reports \cup {Missing}
    BY DEF TypeOK, Requests
  <2>2. doc \in Documents
    BY <2>1 DEF Documents
  <2>3. \/ /\ currentState' = [currentState EXCEPT ![h] = doc]
           /\ nextState' = [nextState EXCEPT ![h] = doc]
        \/ UNCHANGED <<currentState, nextState>>
    BY <1>1 DEF HandleGetResponse
  <2> HIDE DEF doc
  <2> QED BY <2>2, <2>3 DEF TypeOK
<1>2. CASE HandlePostResponse(h, it, received)
  <2>1. nextState[h] \in Documents
    BY DEF TypeOK
  <2>2. \/ /\ currentState' = [currentState EXCEPT ![h] = nextState[h]]
           /\ UNCHANGED nextState
        \/ /\ nextState' = [nextState EXCEPT ![h] =
                                [nextState[h] EXCEPT !.entity = "null"]]
           /\ UNCHANGED currentState
        \/ UNCHANGED <<currentState, nextState>>
    BY <1>2 DEF HandlePostResponse
  <2>3. [nextState[h] EXCEPT !.entity = "null"] \in Documents
    BY <2>1 DEF Documents
  <2> QED BY <2>1, <2>2, <2>3 DEF TypeOK
<1> QED BY <1>1, <1>2

\* One turn of the loop of CheckMultiInfo keeps the invariant
\* (AsyncHassHandler.cxx:87-119).
LEMMA CheckMultiInfoKeeps ==
    ASSUME IInv, NEW h \in Handlers, CheckMultiInfo(h)
    PROVE  IInv'
<1> USE ConstantsAssumption
<1>1. PICK id \in unread[h] :
        IF Private(id) \in easyCtxs[h]
        THEN HandleResponse(h, id, Private(id))
        ELSE /\ unread' = [unread EXCEPT ![h] = @ \ {id}]
             /\ UNCHANGED <<attached, easyCtxs, easy, currentState, nextState>>
  BY DEF CheckMultiInfo
<1>2. UNCHANGED <<registered, contextId, debouncer, hass>>
  BY DEF CheckMultiInfo
<1>3. id \in Ids /\ easy[id].phase = "done" /\ easy[id].owner = h
  BY DEF IInv, TypeOK, UnreadFinished, NoDanglingHandle
<1>4. CASE Private(id) \in easyCtxs[h]
  <2> DEFINE it == Private(id)
  <2>1. it = id + 1 /\ it \in Ids /\ id = it - 1 /\ id # it
    BY <1>3, <1>4 DEF Private, IInv, TypeOK, Ids
  <2>2. easy[it].owner = h
    BY <1>4 DEF IInv, NoDanglingHandle
  <2>3. /\ attached' = [attached EXCEPT ![h] = @ \ {it}]
        /\ unread' = [unread EXCEPT ![h] = @ \ {id, it}]
        /\ easyCtxs' = [easyCtxs EXCEPT ![h] = @ \ {it}]
        /\ easy' = IF easy[it].phase = "sent"
                   THEN [easy EXCEPT ![it].phase = "cancelled"] ELSE easy
    BY <1>1, <1>4 DEF HandleResponse
  <2>4. /\ currentState' \in [Handlers -> Documents]
        /\ nextState' \in [Handlers -> Documents]
    <3>1. PICK received \in MayHaveReceived(it) :
             \/ HandleGetResponse(h, it, received)
             \/ HandlePostResponse(h, it, received)
      BY <1>1, <1>4 DEF HandleResponse
    <3>2. received \in {"nothing", "status", "all"}
      BY <2>1 DEF MayHaveReceived, Receivable, IInv, TypeOK, Requests
    <3> QED BY <2>1, <3>1, <3>2, ResponseHandlersType DEF IInv
  <2>5. \A i \in Ids : /\ easy'[i] \in Requests
                        /\ easy'[i].owner = easy[i].owner
                        /\ easy'[i].method = easy[i].method
                        /\ easy'[i].payload = easy[i].payload
    <3>1. easy[it] \in Requests
      BY <2>1 DEF IInv, TypeOK
    <3>2. /\ [easy[it] EXCEPT !.phase = "cancelled"] \in Requests
          /\ [easy[it] EXCEPT !.phase = "cancelled"].owner = easy[it].owner
          /\ [easy[it] EXCEPT !.phase = "cancelled"].method = easy[it].method
          /\ [easy[it] EXCEPT !.phase = "cancelled"].payload = easy[it].payload
      BY <3>1 DEF Requests
    <3> QED BY <2>3, <3>2 DEF IInv, TypeOK
  <2>6. easy' \in [Ids -> Requests]
    BY <2>3, <2>5 DEF IInv, TypeOK
  <2>7. \A i \in Ids : i # it => easy'[i] = easy[i]
    BY <2>3 DEF IInv, TypeOK
  <2>8. /\ easy'[it].phase = "cancelled" \/ easy'[it] = easy[it]
        /\ easy'[it].phase = "cancelled" => easy[it].phase \in {"sent", "cancelled"}
        /\ easy[it].phase # "sent" => easy' = easy
    <3>1. easy[it] \in Requests
      BY <2>1 DEF IInv, TypeOK
    <3>2. CASE easy[it].phase = "sent"
      <4>1. easy'[it] = [easy[it] EXCEPT !.phase = "cancelled"]
        BY <2>1, <2>3, <3>2 DEF IInv, TypeOK
      <4> QED BY <3>1, <3>2, <4>1 DEF Requests
    <3>3. CASE easy[it].phase # "sent"
      BY <2>3, <3>3
    <3> QED BY <3>2, <3>3
  <2>9. TypeOK' /\ DebounceWindows'
    BY <1>2, <2>3, <2>4, <2>6 DEF IInv, TypeOK, DebounceWindows
  <2>10. NoDanglingHandle'
    <3>1. \A g \in Handlers : /\ unread'[g] \subseteq attached'[g]
                               /\ attached'[g] \subseteq easyCtxs'[g]
      BY <2>3 DEF IInv, TypeOK, NoDanglingHandle
    <3>2. \A g \in Handlers : easyCtxs'[g] \subseteq easyCtxs[g]
      BY <2>3 DEF IInv, TypeOK
    <3>3. \A g \in Handlers : \A i \in easyCtxs'[g] : easy'[i].owner = g
      BY <2>5, <3>2 DEF IInv, TypeOK, NoDanglingHandle
    <3> QED BY <3>1, <3>3 DEF NoDanglingHandle
  <2>11. NeverTwoCancelled'
    <3> SUFFICES ASSUME NEW i \in Ids, easy'[i].phase = "cancelled"
                 PROVE  /\ i - 1 \in Ids
                        /\ easy'[i - 1].phase = "done"
                        /\ easy'[i - 1].owner = easy'[i].owner
      BY DEF NeverTwoCancelled
    <3>1. CASE i = it
      BY <1>3, <2>1, <2>2, <2>5, <2>7, <3>1
    <3>2. CASE i # it
      <4>1. /\ i - 1 \in Ids
            /\ easy[i - 1].phase = "done"
            /\ easy[i - 1].owner = easy[i].owner
        BY <2>7, <3>2 DEF IInv, NeverTwoCancelled
      <4>2. CASE i - 1 = it
        <5>1. easy' = easy
          BY <2>8, <4>1, <4>2
        <5> QED BY <4>1, <5>1
      <4>3. CASE i - 1 # it
        BY <2>7, <3>2, <4>1, <4>3
      <4> QED BY <4>2, <4>3
    <3> QED BY <3>1, <3>2
  <2>12. CounterAhead'
    <3>1. ~(it >= contextId) \/ easy' = easy
      BY <2>1, <2>8 DEF IInv, CounterAhead, UnusedRequest
    <3> QED BY <1>2, <2>7, <3>1 DEF IInv, CounterAhead
  <2>13. RequestsOwned'
    <3> SUFFICES ASSUME NEW i \in Ids, easy'[i].phase # "unused"
                 PROVE  /\ easy'[i].owner \in Handlers
                        /\ easy'[i].method = "POST" => easy'[i].payload \in Reports
      BY DEF RequestsOwned
    <3>1. easy[i].phase # "unused"
      BY <2>7, <2>8
    <3> QED BY <2>5, <3>1 DEF IInv, RequestsOwned
  <2>14. UnreadFinished'
    <3> SUFFICES ASSUME NEW g \in Handlers, NEW i \in unread'[g]
                 PROVE  easy'[i].phase = "done"
      BY DEF UnreadFinished
    <3>1. i \in unread[g] /\ i \in Ids
      BY <2>3 DEF IInv, TypeOK
    <3>2. easy[i].phase = "done" /\ easy[i].owner = g
      BY <3>1 DEF IInv, UnreadFinished, NoDanglingHandle
    <3>3. i = it => easy' = easy
      BY <2>8, <3>2
    <3> QED BY <2>7, <3>1, <3>2, <3>3
  <2> QED BY <2>9, <2>10, <2>11, <2>12, <2>13, <2>14 DEF IInv
<1>5. CASE Private(id) \notin easyCtxs[h]
  <2>1. /\ unread' = [unread EXCEPT ![h] = @ \ {id}]
        /\ UNCHANGED <<attached, easyCtxs, easy, currentState, nextState>>
    BY <1>1, <1>5
  <2>2. TypeOK' /\ DebounceWindows'
    BY <1>2, <2>1 DEF IInv, TypeOK, DebounceWindows
  <2>3. \A g \in Handlers : unread'[g] \subseteq unread[g]
    BY <2>1 DEF IInv, TypeOK
  <2>4. NoDanglingHandle' /\ UnreadFinished'
    BY <2>1, <2>3 DEF IInv, NoDanglingHandle, UnreadFinished
  <2>5. NeverTwoCancelled' /\ CounterAhead' /\ RequestsOwned'
    BY <1>2, <2>1 DEF IInv, NeverTwoCancelled, CounterAhead, RequestsOwned
  <2> QED BY <2>2, <2>4, <2>5 DEF IInv
<1> QED BY <1>4, <1>5

\* A step that changes nothing keeps the invariant.
LEMMA StutterKeeps ==
    ASSUME IInv, UNCHANGED vars
    PROVE  IInv'
<1>1. TypeOK' /\ DebounceWindows' /\ NoDanglingHandle'
  BY DEF vars, IInv, TypeOK, DebounceWindows, NoDanglingHandle
<1>2. NeverTwoCancelled' /\ CounterAhead' /\ RequestsOwned' /\ UnreadFinished'
  BY DEF vars, IInv, NeverTwoCancelled, CounterAhead, RequestsOwned, UnreadFinished
<1> QED BY <1>1, <1>2 DEF IInv

-----------------------------------------------------------------------------
\* The inductive invariant holds in every reachable state: each callback of
\* AsyncHassHandler and each step of its environment keeps it.
THEOREM InvariantHolds == Spec => []IInv
<1>1. Init => IInv
  BY InitIInv
<1>2. IInv /\ [Next]_vars => IInv'
  <2> SUFFICES ASSUME IInv, [Next]_vars PROVE IInv'
    OBVIOUS
  <2>1. ASSUME NEW h \in Handlers, Register(h) PROVE IInv'
    BY <2>1, RegisterKeeps
  <2>2. ASSUME NEW h \in Handlers, NEW report \in Reports,
               UpdateState_Impl(h, report)
        PROVE  IInv'
    BY <2>2, UpdateStateKeeps
  <2>3. ASSUME NEW h \in Handlers, DebounceTask(h) PROVE IInv'
    BY <2>3, DebounceTaskKeeps
  <2>4. ASSUME NEW h \in Handlers, SocketAction(h) PROVE IInv'
    BY <2>4, SocketActionKeeps
  <2>5. ASSUME NEW h \in Handlers, CheckMultiInfo(h) PROVE IInv'
    BY <2>5, CheckMultiInfoKeeps
  <2>6. ASSUME NEW id \in Ids, HassHandles(id) PROVE IInv'
    BY <2>6, HassHandlesKeeps
  <2>7. CASE UNCHANGED vars
    BY <2>7, StutterKeeps
  <2> QED BY <2>1, <2>2, <2>3, <2>4, <2>5, <2>6, <2>7 DEF Next
<1> QED BY <1>1, <1>2, PTL DEF Spec

\* Every variable keeps its type (the members of AsyncHassHandler.h:41-49).
THEOREM TypeCorrect == Spec => []TypeOK
<1>1. IInv => TypeOK
  BY DEF IInv
<1> QED BY <1>1, InvariantHolds, PTL

\* The update flag is down exactly while the one debounce task is pending.
THEOREM DebounceCorrect == Spec => []DebounceWindows
<1>1. IInv => DebounceWindows
  BY DEF IInv
<1> QED BY <1>1, InvariantHolds, PTL

\* curl holds no handle and no message of a context that was destroyed.
THEOREM HandlesLive == Spec => []NoDanglingHandle
<1>1. IInv => NoDanglingHandle
  BY DEF IInv
<1> QED BY <1>1, InvariantHolds, PTL

\* Of two successive requests of a handler at most one is dropped.
THEOREM NoTwoSuccessiveDrops == Spec => []NeverTwoCancelled
<1>1. IInv => NeverTwoCancelled
  BY DEF IInv
<1> QED BY <1>1, InvariantHolds, PTL

\* What the completion of one message does to the contexts and the requests.
LEMMA CompletionErases ==
    ASSUME IInv, NEW h \in Handlers, CheckMultiInfo(h)
    PROVE  /\ \A g \in Handlers : g # h => easyCtxs'[g] = easyCtxs[g]
           /\ \A it \in easyCtxs[h] \ easyCtxs'[h] :
                 it - 1 \in Ids /\ easy[it - 1].phase = "done" /\ easy[it - 1].owner = h
           /\ \A id \in Ids : /\ easy'[id].owner = easy[id].owner
                              /\ easy[id].phase = "done" => easy'[id].phase = "done"
<1>1. PICK id \in unread[h] :
         IF Private(id) \in easyCtxs[h]
         THEN HandleResponse(h, id, Private(id))
         ELSE UNCHANGED <<easyCtxs, easy>>
  BY DEF CheckMultiInfo
<1>2. /\ id \in Ids /\ easy[id].phase = "done" /\ easy[id].owner = h
      /\ Private(id) - 1 = id
  BY <1>1 DEF IInv, TypeOK, NoDanglingHandle, UnreadFinished, Private, Ids
<1>3. CASE Private(id) \in easyCtxs[h]
  <2>1. /\ easyCtxs' = [easyCtxs EXCEPT ![h] = @ \ {Private(id)}]
        /\ easy' = IF easy[Private(id)].phase = "sent"
                   THEN [easy EXCEPT ![Private(id)].phase = "cancelled"] ELSE easy
    BY <1>1, <1>3 DEF HandleResponse
  <2>2. easyCtxs \in [Handlers -> SUBSET Ids] /\ easy \in [Ids -> Requests]
    BY DEF IInv, TypeOK
  <2>3. \A i \in Ids : /\ easy'[i].owner = easy[i].owner
                       /\ easy[i].phase = "done" => easy'[i].phase = "done"
    <3>1. CASE easy[Private(id)].phase = "sent"
      <4>1. Private(id) \in Ids
        BY <1>3, <2>2
      <4>2. easy' = [easy EXCEPT ![Private(id)] = [easy[Private(id)] EXCEPT !.phase = "cancelled"]]
        BY <2>1, <3>1
      <4>3. easy[Private(id)] \in Requests
        BY <2>2, <4>1
      <4>4. [easy[Private(id)] EXCEPT !.phase = "cancelled"].owner = easy[Private(id)].owner
        BY <4>3 DEF Requests
      <4> QED BY <2>2, <3>1, <4>1, <4>2, <4>4
    <3>2. CASE easy[Private(id)].phase # "sent"
      BY <2>1, <3>2
    <3> QED BY <3>1, <3>2
  <2>4. /\ \A g \in Handlers : g # h => easyCtxs'[g] = easyCtxs[g]
        /\ easyCtxs[h] \ easyCtxs'[h] \subseteq {Private(id)}
    BY <2>1, <2>2
  <2> QED BY <1>2, <2>3, <2>4
<1>4. CASE Private(id) \notin easyCtxs[h]
  BY <1>1, <1>4
<1> QED BY <1>3, <1>4

\* A context is erased only by the completion of the request made just before
\* it, by the same handler; every other context stays
\* (AsyncHassHandler.cxx:60-65, 73-78, 81-120).
THEOREM OnlyPredecessorsErase == Spec => []ErasedByPredecessor
<1> USE ConstantsAssumption
<1>1. Init => ErasedByPredecessor
  BY DEF Init, ErasedByPredecessor, UnusedRequest
<1>2. ASSUME IInv, ErasedByPredecessor, [Next]_vars PROVE ErasedByPredecessor'
  <2>1. ASSUME \A h \in Handlers : easyCtxs[h] \subseteq easyCtxs'[h],
               \A id \in Ids : /\ easy'[id].owner = easy[id].owner
                               /\ easy[id].phase = "done" => easy'[id].phase = "done"
        PROVE  ErasedByPredecessor'
    BY <1>2, <2>1 DEF ErasedByPredecessor
  <2>2. ASSUME NEW h \in Handlers, NEW method, NEW payload, StartRequest(h, method, payload)
        PROVE  ErasedByPredecessor'
    <3>1. /\ contextId \in Ids
          /\ easy' = [easy EXCEPT ![contextId] = NewRequest(h, method, payload)]
          /\ easyCtxs' = [easyCtxs EXCEPT ![h] = @ \cup {contextId}]
          /\ easyCtxs \in [Handlers -> SUBSET Ids] /\ easy \in [Ids -> Requests]
      BY <1>2, <2>2 DEF StartRequest, IInv, TypeOK
    <3>2. NewRequest(h, method, payload).owner = h
      BY DEF NewRequest
    <3>3. easy[contextId].phase # "done"
      BY <1>2, <3>1 DEF IInv, CounterAhead, UnusedRequest, TypeOK, Ids
    <3>4. ASSUME NEW g \in Handlers, NEW id \in Ids,
                 easy'[id].owner = g, id \notin easyCtxs'[g]
          PROVE  /\ id - 1 \in Ids
                 /\ easy'[id - 1].phase = "done" /\ easy'[id - 1].owner = g
      <4>1. id # contextId /\ easy[id].owner = g /\ id \notin easyCtxs[g]
        BY <3>1, <3>2, <3>4
      <4>2. id - 1 \in Ids /\ easy[id - 1].phase = "done" /\ easy[id - 1].owner = g
        BY <1>2, <4>1 DEF ErasedByPredecessor
      <4>3. id - 1 # contextId
        BY <3>3, <4>2
      <4> QED BY <3>1, <4>2, <4>3
    <3> QED BY <3>4 DEF ErasedByPredecessor
  <2>3. ASSUME NEW h \in Handlers, Register(h) PROVE ErasedByPredecessor'
    BY <2>2, <2>3 DEF Register
  <2>4. ASSUME NEW h \in Handlers, NEW report \in Reports, UpdateState_Impl(h, report)
        PROVE  ErasedByPredecessor'
    BY <2>1, <2>2, <2>4 DEF UpdateState_Impl
  <2>5. ASSUME NEW h \in Handlers, DebounceTask(h) PROVE ErasedByPredecessor'
    BY <2>1, <2>5 DEF DebounceTask
  <2>6. ASSUME NEW h \in Handlers, SocketAction(h) PROVE ErasedByPredecessor'
    <3>1. PICK finished \in SUBSET {id \in attached[h] : easy[id].phase = "sent"} :
            \E received \in [finished -> {"nothing", "status", "all"}] :
               easy' = [id \in Ids |->
                          IF id \in finished
                          THEN [easy[id] EXCEPT !.phase = "done",
                                                !.received = received[id]]
                          ELSE easy[id]]
      BY <2>6 DEF SocketAction
    <3>2. PICK received \in [finished -> {"nothing", "status", "all"}] :
             easy' = [id \in Ids |->
                        IF id \in finished
                        THEN [easy[id] EXCEPT !.phase = "done",
                                              !.received = received[id]]
                        ELSE easy[id]]
      BY <3>1
    <3>3. easy \in [Ids -> Requests] /\ UNCHANGED easyCtxs
      BY <1>2, <2>6 DEF IInv, TypeOK, SocketAction
    <3>4. ASSUME NEW id \in Ids
          PROVE  /\ easy'[id].owner = easy[id].owner
                 /\ easy[id].phase = "done" => easy'[id].phase = "done"
      <4>1. easy[id] \in Requests
        BY <3>3
      <4>2. CASE id \in finished
        <5>1. easy'[id] = [easy[id] EXCEPT !.phase = "done", !.received = received[id]]
          BY <3>2, <4>2
        <5> QED BY <4>1, <5>1 DEF Requests
      <4>3. CASE id \notin finished
        BY <3>2, <4>3
      <4> QED BY <4>2, <4>3
    <3> QED BY <2>1, <3>3, <3>4
  <2>7. ASSUME NEW h \in Handlers, CheckMultiInfo(h) PROVE ErasedByPredecessor'
    <3>0. \A i \in Ids : /\ easy'[i].owner = easy[i].owner
                         /\ easy[i].phase = "done" => easy'[i].phase = "done"
      BY <1>2, <2>7, CompletionErases
    <3>1. ASSUME NEW g \in Handlers, NEW id \in Ids,
                 easy'[id].owner = g, id \notin easyCtxs'[g]
          PROVE  /\ id - 1 \in Ids
                 /\ easy'[id - 1].phase = "done" /\ easy'[id - 1].owner = g
      <4>1. easy[id].owner = g
        BY <3>1, <3>0
      <4>2. id - 1 \in Ids /\ easy[id - 1].phase = "done" /\ easy[id - 1].owner = g
        <5>1. CASE id \in easyCtxs[g]
          BY <1>2, <2>7, <3>1, <5>1, CompletionErases
        <5>2. CASE id \notin easyCtxs[g]
          BY <1>2, <4>1, <5>2 DEF ErasedByPredecessor
        <5> QED BY <5>1, <5>2
      <4> QED BY <4>2, <3>0
    <3> QED BY <3>1 DEF ErasedByPredecessor
  <2>8. ASSUME NEW id \in Ids, HassHandles(id) PROVE ErasedByPredecessor'
    <3>1. easy' = [easy EXCEPT ![id] = [easy[id] EXCEPT !.applied = TRUE,
                                             !.answer = hass'[easy[id].owner]]]
      BY <2>8 DEF HassHandles
    <3>2. easy \in [Ids -> Requests] /\ UNCHANGED easyCtxs
      BY <1>2, <2>8 DEF IInv, TypeOK, HassHandles
    <3>3. easy'[id].owner = easy[id].owner /\ easy'[id].phase = easy[id].phase
      <4>1. easy[id] \in Requests
        BY <3>2
      <4>2. easy'[id] = [easy[id] EXCEPT !.applied = TRUE,
                                         !.answer = hass'[easy[id].owner]]
        BY <3>1, <3>2
      <4> QED BY <4>1, <4>2 DEF Requests
    <3>4. \A i \in Ids : i # id => easy'[i] = easy[i]
      BY <3>1, <3>2
    <3> QED BY <2>1, <3>2, <3>3, <3>4
  <2>9. CASE UNCHANGED vars
    BY <2>1, <2>9 DEF vars
  <2> QED BY <1>2, <2>3, <2>4, <2>5, <2>6, <2>7, <2>8, <2>9 DEF Next
<1> QED BY <1>1, <1>2, InvariantHolds, PTL DEF Spec

-----------------------------------------------------------------------------
(* The handlers implement RateLimiter.  A window is open while a debounce  *)
(* task is pending, and DebounceWindows says that this is exactly when     *)
(* UpdateAllowed is false.                                                 *)

\* Only a new request changes whose request it is, and of which method.
LEMMA OwnersKept ==
    ASSUME IInv,
           \/ \E id \in Ids : HassHandles(id)
           \/ \E h \in Handlers : SocketAction(h) \/ CheckMultiInfo(h)
    PROVE  \A i \in Ids : /\ easy'[i].owner = easy[i].owner
                          /\ easy'[i].method = easy[i].method
<1>1. \A i \in Ids : easy[i] \in Requests
  BY DEF IInv, TypeOK
<1>2. ASSUME NEW id \in Ids, HassHandles(id)
      PROVE  \A i \in Ids : /\ easy'[i].owner = easy[i].owner
                            /\ easy'[i].method = easy[i].method
  <2> DEFINE s == [easy[id] EXCEPT !.applied = TRUE,
                                   !.answer = hass'[easy[id].owner]]
  <2>1. easy' = [easy EXCEPT ![id] = s]
    BY <1>2 DEF HassHandles
  <2>2. s.owner = easy[id].owner /\ s.method = easy[id].method
    BY <1>1 DEF Requests
  <2> HIDE DEF s
  <2> QED BY <2>1, <2>2 DEF IInv, TypeOK
<1>3. ASSUME NEW h \in Handlers, SocketAction(h)
      PROVE  \A i \in Ids : /\ easy'[i].owner = easy[i].owner
                            /\ easy'[i].method = easy[i].method
  <2>1. PICK finished \in SUBSET {id \in attached[h] : easy[id].phase = "sent"} :
          \E received \in [finished -> {"nothing", "status", "all"}] :
            easy' = [id \in Ids |->
                      IF id \in finished
                      THEN [easy[id] EXCEPT !.phase = "done",
                                            !.received = received[id]]
                      ELSE easy[id]]
    BY <1>3 DEF SocketAction
  <2>2. PICK received \in [finished -> {"nothing", "status", "all"}] :
            easy' = [id \in Ids |->
                      IF id \in finished
                      THEN [easy[id] EXCEPT !.phase = "done",
                                            !.received = received[id]]
                      ELSE easy[id]]
    BY <2>1
  <2>3. ASSUME NEW i \in Ids
        PROVE  easy'[i].owner = easy[i].owner /\ easy'[i].method = easy[i].method
    <3>1. CASE i \in finished
      <4>1. easy'[i] = [easy[i] EXCEPT !.phase = "done", !.received = received[i]]
        BY <2>2, <3>1
      <4> QED BY <1>1, <4>1 DEF Requests
    <3>2. CASE i \notin finished
      BY <2>2, <3>2
    <3> QED BY <3>1, <3>2
  <2> QED BY <2>3
<1>4. ASSUME NEW h \in Handlers, CheckMultiInfo(h)
      PROVE  \A i \in Ids : /\ easy'[i].owner = easy[i].owner
                            /\ easy'[i].method = easy[i].method
  <2>1. \/ easy' = easy
        \/ \E it \in Ids : easy' = [easy EXCEPT ![it].phase = "cancelled"]
    <3>1. PICK id \in unread[h] :
            IF Private(id) \in easyCtxs[h]
            THEN HandleResponse(h, id, Private(id))
            ELSE UNCHANGED easy
      BY <1>4 DEF CheckMultiInfo
    <3>2. Private(id) \in easyCtxs[h] => Private(id) \in Ids
      BY DEF IInv, TypeOK
    <3> QED BY <3>1, <3>2 DEF HandleResponse
  <2>2. CASE easy' = easy
    BY <2>2
  <2>3. ASSUME NEW it \in Ids, easy' = [easy EXCEPT ![it].phase = "cancelled"],
               NEW i \in Ids
        PROVE  easy'[i].owner = easy[i].owner /\ easy'[i].method = easy[i].method
    <3>1. CASE i = it
      <4>1. easy'[i] = [easy[i] EXCEPT !.phase = "cancelled"]
        BY <2>3, <3>1 DEF IInv, TypeOK
      <4> QED BY <1>1, <4>1 DEF Requests
    <3>2. CASE i # it
      BY <2>3, <3>2 DEF IInv, TypeOK
    <3> QED BY <3>1, <3>2
  <2> QED BY <2>1, <2>2, <2>3
<1> QED BY <1>2, <1>3, <1>4

\* The handlers, seen through their pending debounce tasks and the POSTs they
\* have made, are a rate limiter: one POST per window, for every debounce time.
THEOREM ImplementsRateLimiter == Spec => RateLimited
<1> USE ConstantsAssumption
<1> DEFINE Open == {h \in Handlers : debouncer[h].scheduled # {}}
           Sent == [h \in Handlers |-> Posts(h)]
<1>1. Init => Limiter!Init
  <2> SUFFICES ASSUME Init PROVE Limiter!Init
    OBVIOUS
  <2>1. Open = {}
    BY DEF Init, NewDebouncer
  <2>2. \A h \in Handlers : Posts(h) = {}
    BY DEF Init, Posts, UnusedRequest
  <2> QED BY <2>1, <2>2 DEF Limiter!Init
<1>2. IInv /\ [Next]_vars => [Limiter!Next]_<<Open, Sent>>
  <2> SUFFICES ASSUME IInv, [Next]_vars
               PROVE  Limiter!Next \/ UNCHANGED <<Open, Sent>>
    BY DEF Limiter!Next
  <2>1. ASSUME UNCHANGED debouncer,
               \A i \in Ids : /\ easy'[i].owner = easy[i].owner
                              /\ easy'[i].method = easy[i].method
        PROVE  UNCHANGED <<Open, Sent>>
    BY <2>1 DEF Posts
  <2>2. ASSUME NEW h \in Handlers, NEW method, NEW payload,
               StartRequest(h, method, payload)
        PROVE  /\ contextId \in Ids
               /\ \A d \in Handlers : contextId \notin Posts(d)
               /\ \A d \in Handlers : Posts(d)' =
                    IF d = h /\ method = "POST" THEN Posts(d) \cup {contextId}
                                                ELSE Posts(d)
    <3>1. /\ contextId \in Ids
          /\ easy' = [easy EXCEPT ![contextId] = NewRequest(h, method, payload)]
      BY <2>2 DEF StartRequest
    <3>2. easy[contextId] = UnusedRequest
      BY <3>1 DEF IInv, TypeOK, CounterAhead, Ids
    <3>3. \A d \in Handlers : contextId \notin Posts(d)
      BY <3>2 DEF Posts, UnusedRequest
    <3>4. /\ easy'[contextId].owner = h
          /\ easy'[contextId].method = method
          /\ \A i \in Ids : i # contextId => easy'[i] = easy[i]
      BY <3>1 DEF NewRequest, IInv, TypeOK
    <3> QED BY <3>1, <3>3, <3>4 DEF Posts
  <2>3. ASSUME NEW h \in Handlers, Register(h) PROVE UNCHANGED <<Open, Sent>>
    <3>1. StartRequest(h, "GET", NoReport) /\ UNCHANGED debouncer
      BY <2>3 DEF Register
    <3>2. \A d \in Handlers : Posts(d)' = Posts(d)
      BY <2>2, <3>1
    <3> QED BY <3>1, <3>2
  <2>4. ASSUME NEW h \in Handlers, NEW report \in Reports,
               UpdateState_Impl(h, report)
        PROVE  Limiter!Next \/ UNCHANGED <<Open, Sent>>
    <3>1. CASE debouncer[h].updateAllowed /\ nextState'[h] # currentState[h]
      <4>1. /\ StartRequest(h, "POST", report)
            /\ debouncer' = [debouncer EXCEPT ![h] = Debounce(@, DebounceTime)]
        BY <2>4, <3>1 DEF UpdateState_Impl
      <4>2. debouncer[h] \in Debouncer /\ OneTaskPerWindow(debouncer[h])
        BY DEF IInv, TypeOK, DebounceWindows
      <4>3. debouncer[h].scheduled = {}
        BY <3>1, <4>2 DEF OneTaskPerWindow
      <4>4. Debounce(debouncer[h], DebounceTime).scheduled # {}
        BY <4>2, DebounceOpensWindow DEF OneTaskPerWindow
      <4>5. h \notin Open /\ Open' = Open \cup {h}
        BY <4>1, <4>3, <4>4 DEF IInv, TypeOK
      <4>6. /\ contextId \in Ids
            /\ \A d \in Handlers : contextId \notin Sent[d]
        BY <2>2, <4>1
      <4>7. Sent' = [Sent EXCEPT ![h] = @ \cup {contextId}]
        <5>1. \A d \in Handlers : Posts(d)' =
                 IF d = h THEN Posts(d) \cup {contextId} ELSE Posts(d)
          BY <2>2, <4>1
        <5> QED BY <5>1
      <4>8. Limiter!Send(h)
        BY <4>5, <4>6, <4>7 DEF Limiter!Send, Limiter!Request
      <4> QED BY <4>8 DEF Limiter!Next
    <3>2. CASE ~(debouncer[h].updateAllowed /\ nextState'[h] # currentState[h])
      <4>1. UNCHANGED <<easy, debouncer>>
        BY <2>4, <3>2 DEF UpdateState_Impl
      <4> QED BY <2>1, <4>1
    <3> QED BY <3>1, <3>2
  <2>5. ASSUME NEW h \in Handlers, DebounceTask(h)
        PROVE  Limiter!Next \/ UNCHANGED <<Open, Sent>>
    <3>1. PICK token \in debouncer[h].scheduled :
             debouncer' = [debouncer EXCEPT ![h] = DebounceUpdateProc(@, token)]
      BY <2>5 DEF DebounceTask
    <3>2. UNCHANGED Sent
      BY <2>5 DEF DebounceTask, Posts
    <3>3. debouncer[h] \in Debouncer /\ OneTaskPerWindow(debouncer[h])
      BY DEF IInv, TypeOK, DebounceWindows
    <3>4. DebounceUpdateProc(debouncer[h], token).scheduled = {}
      BY <3>3, DebounceTaskEndsWindow DEF OneTaskPerWindow
    <3>5. h \in Open /\ Open' = Open \ {h}
      BY <3>1, <3>4 DEF IInv, TypeOK
    <3>6. Limiter!EndWindow(h)
      BY <3>2, <3>5 DEF Limiter!EndWindow
    <3> QED BY <3>6 DEF Limiter!Next
  <2>6. CASE \/ \E id \in Ids : HassHandles(id)
             \/ \E h \in Handlers : SocketAction(h) \/ CheckMultiInfo(h)
    <3>1. UNCHANGED debouncer
      BY <2>6 DEF HassHandles, SocketAction, CheckMultiInfo
    <3> QED BY <2>1, <2>6, <3>1, OwnersKept
  <2>7. CASE UNCHANGED vars
    BY <2>1, <2>7 DEF vars
  <2> QED BY <2>3, <2>4, <2>5, <2>6, <2>7 DEF Next
<1> QED BY <1>1, <1>2, InvariantHolds, PTL DEF Spec, RateLimited, Limiter!Spec

=============================================================================
