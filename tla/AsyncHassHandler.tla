-------------------------- MODULE AsyncHassHandler --------------------------
(***************************************************************************)
(* The Home Assistant handlers that run in the live555 event loop          *)
(* (src/src/Callback/AsyncHassHandler.cxx, with the state they inherit     *)
(* from BaseHassHandler and AsyncDebouncer), the libcurl multi handle each *)
(* of them owns, and the entity each of them keeps in Home Assistant.      *)
(*                                                                         *)
(* Everything the handlers do happens in one thread, the event loop's, so  *)
(* an action is a callback that runs to its end.  One callback is split:   *)
(* the loop of CheckMultiInfo is one step per message, and no other event  *)
(* is taken while a message is unread (EventLoopIdle).                     *)
(*                                                                         *)
(* A request is named by the key under which its context is stored, the    *)
(* value of the file's static counter contextId when it was made.          *)
(***************************************************************************)
EXTENDS AsyncDebouncer, FiniteSets

CONSTANTS
    Handlers,       \* the AsyncHassHandler objects, one entity each
    Reports,        \* what a frame can say: a state with its attributes
    NotFound,       \* what a 404 leaves: "unknown" with null attributes
    Missing,        \* Home Assistant has no such entity
    NoReport,       \* a JSON null document
    DebounceTime,   \* debounceTime, in any unit; it may be <= 0
    MaxContextId    \* BOUND: after so many requests no more are made, and
                    \* the debounce windows then open never end

ASSUME ConstantsAssumption ==
    /\ DebounceTime \in Int
    /\ MaxContextId \in Nat \ {0}
    /\ NoReport \notin Reports \cup {NotFound}
    /\ Missing \notin Reports \cup Handlers

VARIABLES
    registered,     \* handlers whose Register has run
    contextId,      \* the static counter shared by all handlers
    easy,           \* the requests made so far, by context id
    easyCtxs,       \* easyCtxs_: ids of the contexts each handler keeps
    attached,       \* ids of the easy handles attached to wCurlMulti_
    unread,         \* finished transfers curl_multi_info_read has not returned
    currentState,   \* currentState_
    nextState,      \* nextState_
    debouncer,      \* the AsyncDebouncer base of each handler
    hass            \* Home Assistant: the report stored for each entity

vars == <<registered, contextId, easy, easyCtxs, attached, unread,
          currentState, nextState, debouncer, hass>>

Ids == 1..MaxContextId

-----------------------------------------------------------------------------
(* Documents: the JSON objects currentState_ and nextState_.  The member   *)
(* entity_id is absent until a GET response is handled, and is "null" once *)
(* operator[] has inserted it.                                             *)

Documents == [report : Reports \cup {NotFound, NoReport},
              entity : {"absent", "null", "known"}]

NullDocument == [report |-> NoReport, entity |-> "absent"]

\* A request.  phase is the transfer as curl sees it; `applied' says that
\* Home Assistant has handled the request, `answer' what it replied with.
\* `received' is how much of that reply curl has: nothing (response code 0),
\* the status line only, or all of it.  Any reply other than 200, 201 and
\* 404 has the same effect as no reply and is not told apart from it.
Requests == [phase    : {"unused", "sent", "done", "cancelled"},
             owner    : Handlers \cup {Missing},
             method   : {"GET", "POST"},
             payload  : Reports \cup {NoReport},
             applied  : BOOLEAN,
             answer   : Reports \cup {Missing},
             received : {"nothing", "status", "all"}]

UnusedRequest ==
    [phase |-> "unused", owner |-> Missing, method |-> "GET",
     payload |-> NoReport, applied |-> FALSE, answer |-> Missing,
     received |-> "nothing"]

NewRequest(h, method, payload) ==
    [phase |-> "sent", owner |-> h, method |-> method,
     payload |-> payload, applied |-> FALSE, answer |-> Missing,
     received |-> "nothing"]

EventLoopIdle == \A h \in Handlers : unread[h] = {}

\* MUTANT: the counter is incremented once more before it is read.
PrivateTwoAhead(id) == id + 2

\* The value given to CURLOPT_PRIVATE.  It is read from contextId after the
\* counter was incremented, so it is not the key of the request's context.
Private(id) == id + 1

-----------------------------------------------------------------------------
Init ==
    /\ registered = {}
    /\ contextId = 1
    /\ easy = [id \in Ids |-> UnusedRequest]
    /\ easyCtxs = [h \in Handlers |-> {}]
    /\ attached = [h \in Handlers |-> {}]
    /\ unread = [h \in Handlers |-> {}]
    /\ currentState = [h \in Handlers |-> NullDocument]
    /\ nextState = [h \in Handlers |-> NullDocument]
    /\ debouncer = [h \in Handlers |-> NewDebouncer]
    /\ hass \in [Handlers -> Reports \cup {Missing}]

\* A new context at contextId++, its easy handle added to the multi handle.
StartRequest(h, method, payload) ==
    /\ contextId \in Ids
    /\ easy' = [easy EXCEPT ![contextId] = NewRequest(h, method, payload)]
    /\ easyCtxs' = [easyCtxs EXCEPT ![h] = @ \cup {contextId}]
    /\ attached' = [attached EXCEPT ![h] = @ \cup {contextId}]
    /\ contextId' = contextId + 1

\* Register: App registers every handler before it runs the event loop.
Register(h) ==
    /\ h \notin registered
    /\ registered' = registered \cup {h}
    /\ StartRequest(h, "GET", NoReport)
    /\ UNCHANGED <<unread, currentState, nextState, debouncer, hass>>

EventLoopRunning == registered = Handlers /\ EventLoopIdle

\* UpdateStateInternal: entity_id, if there is one, is kept.
UpdateStateInternal(h, report) ==
    nextState' = [nextState EXCEPT ![h].report = report]

\* MUTANT: the window is not asked for.
UpdateStateWithoutAllowed(h, report) ==
    /\ EventLoopRunning
    /\ UpdateStateInternal(h, report)
    /\ IF nextState'[h] # currentState[h]
       THEN /\ StartRequest(h, "POST", report)
            /\ debouncer' = [debouncer EXCEPT ![h] = Debounce(@, DebounceTime)]
       ELSE UNCHANGED <<contextId, easy, easyCtxs, attached, debouncer>>
    /\ UNCHANGED <<registered, unread, currentState, hass>>

\* UpdateState_Impl, for a frame's report or for the null payload that the
\* restart watcher sends while the source is down.
UpdateState_Impl(h, report) ==
    /\ EventLoopRunning
    /\ UpdateStateInternal(h, report)
    /\ IF debouncer[h].updateAllowed /\ nextState'[h] # currentState[h]
       THEN /\ StartRequest(h, "POST", report)
            /\ debouncer' = [debouncer EXCEPT ![h] = Debounce(@, DebounceTime)]
       ELSE UNCHANGED <<contextId, easy, easyCtxs, attached, debouncer>>
    /\ UNCHANGED <<registered, unread, currentState, hass>>

\* The scheduler runs a debounce task.
DebounceTask(h) ==
    /\ EventLoopRunning
    /\ contextId \in Ids
    /\ \E token \in debouncer[h].scheduled :
          debouncer' = [debouncer EXCEPT ![h] = DebounceUpdateProc(@, token)]
    /\ UNCHANGED <<registered, contextId, easy, easyCtxs, attached, unread,
                   currentState, nextState, hass>>

-----------------------------------------------------------------------------
(* Home Assistant and the network.                                         *)

\* Home Assistant handles a request at any time after it was sent, also one
\* whose transfer the client has given up.
HassHandles(id) ==
    LET r == easy[id] IN
    /\ r.phase # "unused" /\ ~r.applied
    /\ hass' = IF r.method = "POST"
               THEN [hass EXCEPT ![r.owner] = r.payload] ELSE hass
    /\ easy' = [easy EXCEPT ![id] = [r EXCEPT !.applied = TRUE,
                                              !.answer = hass'[r.owner]]]
    /\ UNCHANGED <<registered, contextId, easyCtxs, attached, unread,
                   currentState, nextState, debouncer>>

\* How much of a reply a transfer may have brought in.
Receivable(r) == IF r.applied THEN {"nothing", "status", "all"} ELSE {"nothing"}

\* curl_multi_socket_action, called by BackgroundHandlerProc and by
\* TimeoutHandlerProc: some transfers come to their end, each with the whole
\* reply or with an error, and CheckMultiInfo is about to be called.
SocketAction(h) ==
    /\ EventLoopRunning
    /\ \E finished \in SUBSET {id \in attached[h] : easy[id].phase = "sent"} :
          /\ finished # {}
          /\ unread' = [unread EXCEPT ![h] = finished]
          /\ \E received \in [finished -> {"nothing", "status", "all"}] :
                /\ \A id \in finished : received[id] \in Receivable(easy[id])
                /\ easy' = [id \in Ids |->
                              IF id \in finished
                              THEN [easy[id] EXCEPT !.phase = "done",
                                                    !.received = received[id]]
                              ELSE easy[id]]
    /\ UNCHANGED <<registered, contextId, easyCtxs, attached,
                   currentState, nextState, debouncer, hass>>

-----------------------------------------------------------------------------
(* Response handlers of BaseHassHandler, applied to the easy handle and the *)
(* buffer of context `it', of whose reply curl has received `received'.     *)

\* MUTANT: the response is read whatever its code.
HandleGetResponseUnchecked(h, it, received) ==
    LET doc == [report |-> easy[it].answer, entity |-> "known"]
    IN  /\ currentState' = [currentState EXCEPT ![h] = doc]
        /\ nextState' = [nextState EXCEPT ![h] = doc]

\* 200/201 with a body that parses, or 404; anything else throws.
HandleGetResponse(h, it, received) ==
    LET r == easy[it]
        read == IF r.answer = Missing THEN NotFound ELSE r.answer
        doc == [report |-> read, entity |-> "known"]
    IN  IF received = "all" \/ (received = "status" /\ r.answer = Missing)
        THEN /\ currentState' = [currentState EXCEPT ![h] = doc]
             /\ nextState' = [nextState EXCEPT ![h] = doc]
        ELSE UNCHANGED <<currentState, nextState>>

\* 200/201: the log line reads nextState_["entity_id"] as a string, which
\* inserts a null and throws when no GET response was handled before.
HandlePostResponse(h, it, received) ==
    IF received = "nothing"
    THEN UNCHANGED <<currentState, nextState>>
    ELSE IF nextState[h].entity = "known"
         THEN /\ currentState' = [currentState EXCEPT ![h] = nextState[h]]
              /\ UNCHANGED nextState
         ELSE /\ nextState' = [nextState EXCEPT ![h].entity = "null"]
              /\ UNCHANGED currentState

\* What curl may know of the reply to `it': what it had when the transfer
\* ended, or, while it is under way, at most the status line.
MayHaveReceived(it) ==
    IF easy[it].phase = "done" THEN {easy[it].received}
    ELSE Receivable(easy[it]) \ {"all"}

\* MUTANT: the context is erased and its handle left in the multi handle.
HandleResponseWithoutRemove(h, id, it) ==
    /\ \E received \in MayHaveReceived(it) :
          IF easy[id].method = "GET" THEN HandleGetResponse(h, it, received)
                                     ELSE HandlePostResponse(h, it, received)
    /\ unread' = [unread EXCEPT ![h] = @ \ {id}]
    /\ easyCtxs' = [easyCtxs EXCEPT ![h] = @ \ {it}]
    /\ UNCHANGED <<attached, easy>>

\* easyCtxs_.find succeeded: the response is handled with context `it', whose
\* handle then leaves the multi handle (taking its unread message with it)
\* and is destroyed with the context.
HandleResponse(h, id, it) ==
    /\ \E received \in MayHaveReceived(it) :
          IF easy[id].method = "GET" THEN HandleGetResponse(h, it, received)
                                     ELSE HandlePostResponse(h, it, received)
    /\ attached' = [attached EXCEPT ![h] = @ \ {it}]
    /\ unread' = [unread EXCEPT ![h] = @ \ {id, it}]
    /\ easyCtxs' = [easyCtxs EXCEPT ![h] = @ \ {it}]
    /\ easy' = IF easy[it].phase = "sent"
               THEN [easy EXCEPT ![it].phase = "cancelled"] ELSE easy

\* One turn of the loop of CheckMultiInfo.
CheckMultiInfo(h) ==
    /\ \E id \in unread[h] :
          IF Private(id) \in easyCtxs[h]
          THEN HandleResponse(h, id, Private(id))
          ELSE /\ unread' = [unread EXCEPT ![h] = @ \ {id}]
               /\ UNCHANGED <<attached, easyCtxs, easy, currentState, nextState>>
    /\ UNCHANGED <<registered, contextId, debouncer, hass>>

-----------------------------------------------------------------------------
Next ==
    \/ \E h \in Handlers :
          \/ Register(h)
          \/ \E report \in Reports : UpdateState_Impl(h, report)
          \/ DebounceTask(h)
          \/ SocketAction(h)
          \/ CheckMultiInfo(h)
    \/ \E id \in Ids : HassHandles(id)

Spec == Init /\ [][Next]_vars

-----------------------------------------------------------------------------
(* Properties.                                                             *)

\* Every variable holds a value of the kind the code's member has.
TypeOK ==
    /\ registered \subseteq Handlers
    /\ contextId \in 1..(MaxContextId + 1)
    /\ easy \in [Ids -> Requests]
    /\ easyCtxs \in [Handlers -> SUBSET Ids]
    /\ attached \in [Handlers -> SUBSET Ids]
    /\ unread \in [Handlers -> SUBSET Ids]
    /\ currentState \in [Handlers -> Documents]
    /\ nextState \in [Handlers -> Documents]
    /\ debouncer \in [Handlers -> Debouncer]
    /\ hass \in [Handlers -> Reports \cup {Missing}]

\* A handler's update flag is down exactly while one debounce task is pending,
\* the one it would move (AsyncDebouncer.cxx, under the calls made by
\* UpdateState_Impl): no lost task leaves the sensor mute for ever, and no
\* second task ends a later window early.
DebounceWindows == \A h \in Handlers : OneTaskPerWindow(debouncer[h])

\* curl never holds a handle or an unread message of a context that was
\* destroyed: CheckMultiInfo detaches the handle before it erases the context,
\* although the context it erases is not the one the message is about.
NoDanglingHandle ==
    \A h \in Handlers :
        /\ unread[h] \subseteq attached[h]
        /\ attached[h] \subseteq easyCtxs[h]
        /\ \A id \in easyCtxs[h] : easy[id].owner = h

\* Of two successive requests, at most one is cut short.  A response makes
\* CheckMultiInfo drop the request that was made next, so a transfer dropped
\* while under way has a predecessor, of the same handler, that was completed.
\* It is why the entity can still be brought up to date.
NeverTwoCancelled ==
    \A id \in Ids :
        easy[id].phase = "cancelled" =>
            /\ id - 1 \in Ids
            /\ easy[id - 1].phase = "done"
            /\ easy[id - 1].owner = easy[id].owner

\* A context is erased only by the completion of the request before it, if that
\* is of the same handler too: no response takes away the context of another
\* handler's request, nor its own. So the first context of a handler, and each
\* that comes after another handler's, stays for ever (CheckMultiInfo).
ErasedByPredecessor ==
    \A h \in Handlers, id \in Ids :
        easy[id].owner = h /\ id \notin easyCtxs[h] =>
            /\ id - 1 \in Ids
            /\ easy[id - 1].phase = "done"
            /\ easy[id - 1].owner = h

\* The rest of the inductive invariant. The counter is ahead of every request
\* made; a request that was made belongs to a handler, and a POST has a report
\* for payload; an unread message is about a transfer that has ended.
CounterAhead ==
    \A id \in Ids : id >= contextId => easy[id] = UnusedRequest

RequestsOwned ==
    \A id \in Ids : easy[id].phase # "unused" =>
        /\ easy[id].owner \in Handlers
        /\ easy[id].method = "POST" => easy[id].payload \in Reports

UnreadFinished ==
    \A h \in Handlers : \A id \in unread[h] : easy[id].phase = "done"

IInv == /\ TypeOK
        /\ DebounceWindows
        /\ NoDanglingHandle
        /\ NeverTwoCancelled
        /\ CounterAhead
        /\ RequestsOwned
        /\ UnreadFinished

\* One POST per debounce window and handler: the handlers implement the
\* abstract rate limiter, a window being open while a debounce task is in the
\* scheduler's queue (not while the handler's own flag is down).
Posts(h) == {id \in Ids : easy[id].owner = h /\ easy[id].method = "POST"}

Limiter == INSTANCE RateLimiter
    WITH Clients <- Handlers, Requests <- Ids,
         open <- {h \in Handlers : debouncer[h].scheduled # {}},
         sent <- [h \in Handlers |-> Posts(h)]

RateLimited == Limiter!Spec

-----------------------------------------------------------------------------
(* What the comments and the documentation say and the code does not do.   *)

\* AsyncHassHandler.cxx:39, "startup CURL and get the initial state": once the
\* whole answer to Register's GET was read, currentState_ is the entity's.
InitialStateLearned ==
    EventLoopIdle =>
        \A id \in Ids :
            (/\ easy[id].method = "GET"
             /\ easy[id].phase = "done"
             /\ easy[id].received = "all")
            => currentState[easy[id].owner] # NullDocument

=============================================================================
