-------------------------------- MODULE App ---------------------------------
(***************************************************************************)
(* The process, from App (main.cxx) building a chain per feed to its exit: *)
(* start-up, the sources' start, the event loop, the exit signal, and the  *)
(* synchronous "unknown" of each entity, against the POSTs of the handlers *)
(* that are still on their way.  What makes a handler post is in           *)
(* AsyncHassHandler and ThreadedHassHandler; here it may post at any time  *)
(* its thread runs.                                                        *)
(***************************************************************************)
EXTENDS Integers

CONSTANT FeedCount      \* how many feeds the options name
ASSUME AppAssumption == FeedCount \in Nat

\* A feed's URL and entity. "other" is a scheme App does not know, "none" that
\* CanSetupHass is false, "unsupported" an entity that is not a sensor.
Feed == 1..FeedCount
FeedOptions == [scheme : {"rtsp", "http", "other"},
                entity : {"none", "sensor", "unsupported"}]
States == {"unknown", "reported"}   \* all that is not unknown is one state

VARIABLES
    feeds,      \* opts.feeds, in the order of iteration
    main,       \* where the main thread is
    at,         \* the feed it is at, in each of its loops over them
    watchVar,   \* exitSignalHandler.watchVar
    nextState,  \* nextState_ of each feed's handler
    sent,       \* states in POSTs of the handlers that are on their way
    shown,      \* what Home Assistant shows
    updated,    \* entities whose last POST has had a response
    unheard,    \* those of them where it was an error without a content type
    overtaken   \* those that a POST of their handler has changed since

vars == <<feeds, main, at, watchVar, nextState, sent, shown, updated, unheard,
          overtaken>>

Ended == {"success", "failure", "killed"}
Phases == {"building", "starting", "streaming", "looping", "getting", "posting"}

HasHandler(f) == feeds[f].scheme # "other" /\ feeds[f].entity # "none"

\* Handlers of http feeds have a thread, from Start to their destruction.
UpdaterRuns(f) ==
    /\ feeds[f].scheme = "http" /\ HasHandler(f)
    /\ main \notin Ended
    /\ main = "building" => f < at

Init ==
    /\ feeds \in [Feed -> FeedOptions]
    /\ main = "building" /\ at = 1 /\ watchVar = FALSE
    /\ shown \in [Feed -> States]
    /\ nextState = [f \in Feed |-> "unknown"]
    /\ sent = [f \in Feed |-> {}]
    /\ updated = {} /\ unheard = {} /\ overtaken = {}

-----------------------------------------------------------------------------
(* Start-up.                                                               *)

\* One turn of the loop over opts.feeds. ThreadedHassHandler::Start does a GET,
\* and throws unless its code is 200, 201 or 404; Register only queues one.
BuildFeed ==
    /\ main = "building" /\ at \in Feed
    /\ \/ /\ at' = at + 1 /\ UNCHANGED main
          /\ nextState' = IF feeds[at].scheme = "http" /\ HasHandler(at)
                          THEN [nextState EXCEPT ![at] = shown[at]] ELSE nextState
       \/ /\ feeds[at].scheme = "http" /\ HasHandler(at)
          /\ main' = "failure" /\ UNCHANGED <<at, nextState>>
    /\ UNCHANGED <<feeds, watchVar, sent, shown, updated, unheard, overtaken>>

InstallSignals ==
    /\ main = "building" /\ at \notin Feed
    /\ main' = "starting" /\ at' = 1
    /\ UNCHANGED <<feeds, watchVar, nextState, sent, shown, updated, unheard,
                   overtaken>>

\* StartStream. That of an HttpVideoSource is a loop that only StopStream ends,
\* and nobody but this thread would call it: there is no step out of "streaming".
StartSource ==
    /\ main = "starting"
    /\ IF at \notin Feed THEN main' = "looping" /\ UNCHANGED at
       ELSE IF feeds[at].scheme = "http" THEN main' = "streaming" /\ UNCHANGED at
       ELSE at' = at + 1 /\ UNCHANGED main
    /\ UNCHANGED <<feeds, watchVar, nextState, sent, shown, updated, unheard,
                   overtaken>>

\* MUTANT: the loop also looks at the exit variable.
HttpFrameUntilSignal ==
    /\ main = "streaming"
    /\ IF watchVar THEN main' = "starting" /\ at' = at + 1 /\ UNCHANGED nextState
       ELSE /\ feeds[at].entity = "sensor"
            /\ nextState' = [nextState EXCEPT ![at] = "reported"]
            /\ UNCHANGED <<main, at>>
    /\ UNCHANGED <<feeds, watchVar, sent, shown, updated, unheard, overtaken>>

\* GetNextFrame has an image, which its subscribers report. The loop catches what
\* is thrown: by a GET that fails, and by the handler of an unsupported entity.
HttpFrame ==
    /\ main = "streaming" /\ feeds[at].entity = "sensor"
    /\ nextState' = [nextState EXCEPT ![at] = "reported"]
    /\ UNCHANGED <<feeds, main, at, watchVar, sent, shown, updated, unheard,
                   overtaken>>

-----------------------------------------------------------------------------
(* The handlers' requests.                                                 *)

\* An updater thread begins a POST. (For an unsupported entity there is only the
\* state that its GET has found.)
UpdaterPosts(f) ==
    /\ UpdaterRuns(f)
    /\ sent' = [sent EXCEPT ![f] = @ \cup {nextState[f]}]
    /\ UNCHANGED <<feeds, main, at, watchVar, nextState, shown, updated, unheard,
                   overtaken>>

\* A frame, or RestartWatcher's null payload ("unknown"), is reported in the event
\* loop, and the handler may post it at once. That of an unsupported entity
\* throws: SetYUVFrame catches it of a frame, but of the null payload nobody does,
\* and it goes through the loop and out of App.
LoopReports(f, state) ==
    /\ main = "looping"
    /\ feeds[f].scheme = "rtsp" /\ HasHandler(f)
    /\ \/ /\ feeds[f].entity = "sensor" /\ UNCHANGED main
          /\ nextState' = [nextState EXCEPT ![f] = state]
          /\ sent' \in {sent, [sent EXCEPT ![f] = @ \cup {state}]}
       \/ /\ feeds[f].entity = "unsupported" /\ state = "unknown"
          /\ main' = "failure"
          /\ UNCHANGED <<nextState, sent>>
    /\ UNCHANGED <<feeds, at, watchVar, shown, updated, unheard, overtaken>>

\* Home Assistant applies a POST that is on its way, or never sees it. Neither
\* depends on the process being there.
Arrives(f, state) ==
    /\ state \in sent[f]
    /\ sent' = [sent EXCEPT ![f] = @ \ {state}]
    /\ \/ /\ shown' = [shown EXCEPT ![f] = state]
          /\ overtaken' = IF f \in updated /\ state # "unknown"
                          THEN overtaken \cup {f} ELSE overtaken
       \/ UNCHANGED <<shown, overtaken>>
    /\ UNCHANGED <<feeds, main, at, watchVar, nextState, updated, unheard>>

-----------------------------------------------------------------------------
(* The exit.                                                               *)

\* SIGINT or SIGTERM: before std::signal it ends the process.
Signal ==
    /\ main \notin Ended
    /\ IF main = "building" THEN main' = "killed" /\ UNCHANGED watchVar
                            ELSE watchVar' = TRUE /\ UNCHANGED main
    /\ UNCHANGED <<feeds, at, nextState, sent, shown, updated, unheard, overtaken>>

\* MUTANT: the loop runs until the requests under way have ended.
LoopEndsWhenIdle ==
    /\ main = "looping" /\ watchVar /\ \A f \in Feed : sent[f] = {}
    /\ main' = "getting" /\ at' = 1
    /\ UNCHANGED <<feeds, watchVar, nextState, sent, shown, updated, unheard,
                   overtaken>>

\* doEventLoop returns, and every source is stopped.
LoopEnds ==
    /\ main = "looping" /\ watchVar
    /\ main' = "getting" /\ at' = 1
    /\ UNCHANGED <<feeds, watchVar, nextState, sent, shown, updated, unheard,
                   overtaken>>

\* MUTANT: the end of the entities is looked for after the step.
NoEntityPastEnd ==
    /\ main = "getting"
    /\ at \in Feed => ~HasHandler(at)
    /\ at' = at + 1
    /\ UNCHANGED <<feeds, main, watchVar, nextState, sent, shown, updated, unheard,
                   overtaken>>

\* The loop's if (pHassHandler); feeds without a source have no place in the loop.
NoEntity ==
    /\ main = "getting" /\ at \in Feed /\ ~HasHandler(at)
    /\ at' = at + 1
    /\ UNCHANGED <<feeds, main, watchVar, nextState, sent, shown, updated, unheard,
                   overtaken>>

\* syncHandler({}): throws for an unsupported entity; else UpdateState_Impl's GET,
\* which throws if the transfer fails and unless its code is 200, 201 or 404.
SyncGet ==
    /\ main = "getting" /\ at \in Feed /\ HasHandler(at)
    /\ \/ feeds[at].entity = "sensor" /\ main' = "posting"
       \/ main' = "failure"
    /\ UNCHANGED <<feeds, at, watchVar, nextState, sent, shown, updated, unheard,
                   overtaken>>

\* MUTANT: an error of the POST is only logged.
SyncPostLogging(outcome) ==
    /\ main = "posting" /\ main' = "getting" /\ at' = at + 1
    /\ updated' = updated \cup {at}
    /\ unheard' = IF outcome = "untyped" THEN unheard \cup {at} ELSE unheard
    /\ shown' = IF outcome = "ok" THEN [shown EXCEPT ![at] = "unknown"] ELSE shown
    /\ UNCHANGED <<feeds, watchVar, nextState, sent, overtaken>>

\* UpdateState_Impl's POST of "unknown" and HandlePostResponse. "failed" is a code
\* with a content type or a failed transfer, before or after Home Assistant
\* applied it: both throw. "untyped" is a code without a content type. What
\* arrives between the application and the response may as well arrive after it.
Outcomes == {"ok", "failed", "untyped"}
SyncPost(outcome) ==
    /\ main = "posting"
    /\ LET applied == [shown EXCEPT ![at] = "unknown"] IN
       CASE outcome = "ok"      -> shown' = applied
         [] outcome = "untyped" -> shown' = shown
         [] outcome = "failed"  -> shown' \in {shown, applied}
    /\ IF outcome = "failed"
       THEN main' = "failure" /\ UNCHANGED <<at, updated>>
       ELSE main' = "getting" /\ at' = at + 1 /\ updated' = updated \cup {at}
    /\ unheard' = IF outcome = "untyped" THEN unheard \cup {at} ELSE unheard
    /\ UNCHANGED <<feeds, watchVar, nextState, sent, overtaken>>

Return ==
    /\ main = "getting" /\ at \notin Feed
    /\ main' = "success"
    /\ UNCHANGED <<feeds, at, watchVar, nextState, sent, shown, updated, unheard,
                   overtaken>>

-----------------------------------------------------------------------------

Next ==
    \/ BuildFeed \/ InstallSignals \/ StartSource \/ HttpFrame
    \/ \E f \in Feed : UpdaterPosts(f)
    \/ \E f \in Feed, state \in States : LoopReports(f, state) \/ Arrives(f, state)
    \/ Signal \/ LoopEnds \/ NoEntity \/ SyncGet
    \/ \E outcome \in Outcomes : SyncPost(outcome)
    \/ Return

Spec == Init /\ [][Next]_vars

\* The main thread is scheduled, doEventLoop looks at the variable after each
\* task, and the synchronous requests end.
FairSpec ==
    /\ Spec
    /\ WF_vars(StartSource \/ LoopEnds \/ NoEntity \/ SyncGet \/ Return)
    /\ WF_vars(\E outcome \in Outcomes : SyncPost(outcome))

-----------------------------------------------------------------------------
(* Properties.                                                             *)

\* Type correctness.
TypeOK ==
    /\ feeds \in [Feed -> FeedOptions]
    /\ main \in Phases \cup Ended
    /\ at \in 1..(FeedCount + 1)
    /\ watchVar \in BOOLEAN
    /\ nextState \in [Feed -> States] /\ shown \in [Feed -> States]
    /\ sent \in [Feed -> SUBSET States]
    /\ updated \in SUBSET Feed /\ unheard \in SUBSET Feed
    /\ overtaken \in SUBSET Feed

\* After a clean exit each entity shows "unknown", unless Home Assistant refused
\* that POST without a content type (BaseHassHandler.cxx:172), or a POST the
\* event loop had left under way arrived after it (main.cxx:215).
SuccessMeansUnknown ==
    main = "success" =>
        \A f \in Feed : HasHandler(f) =>
            shown[f] = "unknown" \/ f \in unheard \cup overtaken

\* Once an entity had its last POST, the program sends no other for it
\* (main.cxx:207): no updater thread runs by then, since a program that has one
\* does not leave its http source's loop.
LastWord ==
    [][\A f \in updated : sent'[f] \subseteq sent[f]]_vars

\* A signal after start-up ends the process, unless it is in the loop of an http
\* source (Http.cxx:47), which does not look at the exit variable.
SignalEndsApp ==
    watchVar ~> main \in Ended \cup {"streaming"}

=============================================================================
