------------------------- MODULE ThreadedHassHandler ------------------------
(***************************************************************************)
(* One ThreadedHassHandler (src/src/Callback/ThreadedHassHandler.cxx): the *)
(* thread that brings frames overwrites the state to report, the updater   *)
(* thread posts it, and mtx_ keeps them apart.  The updater holds mtx_     *)
(* while it posts, so a frame's report, and with it the source of frames,  *)
(* waits until the POST has ended.                                         *)
(***************************************************************************)
EXTENDS Integers

CONSTANTS
    Reports,        \* the states a handler may be given
    Unknown,        \* the state "unknown"
    NoFrame,
    DebounceTime,   \* debounceTime, in ticks
    DefaultDebounce,\* the value debounceTime has before App sets it
    PollTime,       \* the updater waits at most this long
    FaultBound      \* BOUND: how many POSTs go wrong

ASSUME ThreadedAssumption ==
    /\ Unknown \in Reports /\ NoFrame \notin Reports
    /\ DebounceTime \in Nat /\ DefaultDebounce \in Nat
    /\ PollTime \in Nat \ {0}
    /\ FaultBound \in Nat

VARIABLES
    frame,          \* the report the frames' thread has come with, or NoFrame
    updater,        \* where updaterThread_ is
    stopping,       \* a stop was requested of it
    pollLeft,       \* ticks until cv_.wait_for times out
    sincePost,      \* ticks since lastStateUpdate, negative before it
    currentState,   \* currentState_
    nextState,      \* nextState_
    payload,        \* the report in the POST under way
    applied,        \* Home Assistant has applied the POST under way
    late,           \* how many POSTs of a report were given up that it may
                    \* yet apply
    hass,           \* what Home Assistant shows
    shownBy,        \* the POST that put it there: "answered" (or there was
                    \* none), "underway", or "lost", its answer never read
    acknowledged,   \* the last state Home Assistant was seen to have
    faults          \* POSTs that may still go wrong

homeVars == <<applied, late, hass, shownBy, faults>>
stateVars == <<currentState, nextState, payload, acknowledged>>
vars == <<frame, updater, stopping, pollLeft, sincePost, stateVars, homeVars>>

\* Start has handled the GET response (it throws on any but 200, 201 and 404;
\* a missing entity counts as unknown) and created the thread.
Init ==
    /\ frame = NoFrame
    /\ updater = "created" /\ stopping = FALSE
    /\ pollLeft = PollTime
    /\ sincePost = 0
    /\ currentState \in Reports
    /\ nextState = currentState /\ payload = currentState
    /\ hass = currentState /\ acknowledged = currentState /\ shownBy = "answered"
    /\ applied = FALSE /\ late = [report \in Reports |-> 0] /\ faults = FaultBound

\* The thread's prologue. App sets debounceTime after Start, without a lock:
\* either value may be read.
Prologue ==
    /\ updater = "created"
    /\ updater' = "waiting" /\ pollLeft' = PollTime
    /\ \E d \in {DebounceTime, DefaultDebounce} : sincePost' = -d
    /\ UNCHANGED <<frame, stopping, stateVars, homeVars>>

\* The frames' thread is about to call UpdateState_Impl.
Frame(report) ==
    /\ ~stopping /\ frame = NoFrame
    /\ frame' = report
    /\ UNCHANGED <<updater, stopping, pollLeft, sincePost, stateVars, homeVars>>

\* MUTANT: the updater sleeps between its turns with the mutex in its hands.
MutexFreeBeforeAndAfter == updater \in {"created", "ended"}

\* wait_for gives mtx_ back while it waits.
MutexFree == updater # "posting"

\* MUTANT: the state is set without waiting for mtx_.
ReportWithoutLock ==
    /\ frame # NoFrame
    /\ frame' = NoFrame /\ nextState' = frame
    /\ UNCHANGED <<updater, stopping, pollLeft, sincePost, currentState, payload,
                   acknowledged, homeVars>>

\* UpdateState_Impl gets the mutex. The notification may wake the updater
\* early, as a spurious wake-up may, and nothing more: see Wake.
Report ==
    /\ frame # NoFrame /\ MutexFree
    /\ frame' = NoFrame /\ nextState' = frame
    /\ UNCHANGED <<updater, stopping, pollLeft, sincePost, currentState, payload,
                   acknowledged, homeVars>>

\* The loop's test after wait_for.
MustPost ==
    \/ nextState # currentState /\ sincePost > DebounceTime
    \/ nextState = Unknown

\* MUTANT: what is left of the debounce time is added to the next wait.
LoopOrEndStretched ==
    /\ updater' = IF stopping THEN "ended" ELSE "waiting"
    /\ pollLeft' = PollTime + DebounceTime - sincePost

\* The loop's condition, and the next wait.
LoopOrEnd ==
    /\ updater' = IF stopping THEN "ended" ELSE "waiting"
    /\ pollLeft' = PollTime

\* MUTANT: the wait has a predicate, that there is something to post.
WakeToPostOnly ==
    /\ updater = "waiting" /\ MustPost
    /\ updater' = "posting" /\ payload' = nextState /\ UNCHANGED pollLeft
    /\ UNCHANGED <<frame, stopping, sincePost, currentState, nextState,
                   acknowledged, homeVars>>

\* wait_for returns: notified, timed out, or spuriously.
Wake ==
    /\ updater = "waiting"
    /\ IF MustPost
       THEN updater' = "posting" /\ payload' = nextState /\ UNCHANGED pollLeft
       ELSE LoopOrEnd /\ UNCHANGED payload
    /\ UNCHANGED <<frame, stopping, sincePost, currentState, nextState,
                   acknowledged, homeVars>>

\* Home Assistant applies the POST under way.
HassApplies ==
    /\ updater = "posting" /\ ~applied
    /\ applied' = TRUE
    /\ hass' = payload /\ shownBy' = "underway"
    /\ UNCHANGED <<frame, updater, stopping, pollLeft, sincePost, stateVars,
                   late, faults>>

\* It applies one that was given up, perhaps after a later one.
HassAppliesLate(report) ==
    /\ late[report] > 0
    /\ late' = [late EXCEPT ![report] = @ - 1]
    /\ hass' = report /\ shownBy' = "lost"
    /\ UNCHANGED <<frame, updater, stopping, pollLeft, sincePost, stateVars,
                   applied, faults>>

\* How the POST ends. "ok": with 200 or 201. "failed": with another code and
\* a content type, or with an error of the transfer; both throw. "untyped":
\* with another code and no content type, which does not throw.
AllOutcomes == {"ok", "failed", "untyped"}

\* What that makes of the POST, and how long ago it counts as. It may have been
\* applied, or be applied later, however it ends.
Concluded(outcome) ==
    /\ IF outcome = "ok" THEN applied /\ UNCHANGED <<late, faults>>
       ELSE /\ faults > 0 /\ faults' = faults - 1
            /\ late' = IF applied THEN late ELSE [late EXCEPT ![payload] = @ + 1]
    /\ applied' = FALSE
    /\ shownBy' = IF shownBy # "underway" THEN shownBy
                  ELSE IF outcome = "ok" THEN "answered" ELSE "lost"
    /\ sincePost' = IF outcome = "failed" THEN sincePost ELSE 0
    /\ UNCHANGED hass

\* MUTANT: the state counts as updated whatever the response.
PostEndsTrusting(outcome) ==
    /\ updater = "posting"
    /\ Concluded(outcome)
    /\ currentState' = nextState
    /\ acknowledged' = IF outcome = "ok" THEN payload ELSE acknowledged
    /\ LoopOrEnd
    /\ UNCHANGED <<frame, stopping, nextState, payload>>

\* curl_easy_perform and HandlePostResponse.
PostEnds(outcome) ==
    /\ updater = "posting"
    /\ Concluded(outcome)
    /\ IF outcome = "ok" THEN currentState' = nextState /\ acknowledged' = payload
                         ELSE UNCHANGED <<currentState, acknowledged>>
    /\ LoopOrEnd
    /\ UNCHANGED <<frame, stopping, nextState, payload>>

\* Stop, from the destructor, in the thread that brought the frames: none is
\* under way, and the caller joins the updater. The stop token does not
\* interrupt wait_for.
Stop ==
    /\ ~stopping /\ frame = NoFrame
    /\ stopping' = TRUE
    /\ UNCHANGED <<frame, updater, pollLeft, sincePost, stateVars, homeVars>>

\* Ages beyond the debounce time are not told apart.
Tick ==
    /\ updater # "created"
    /\ updater = "waiting" => pollLeft > 0
    /\ pollLeft' = IF updater = "waiting" THEN pollLeft - 1 ELSE pollLeft
    /\ sincePost' = IF sincePost <= DebounceTime THEN sincePost + 1 ELSE sincePost
    /\ UNCHANGED <<frame, updater, stopping, stateVars, homeVars>>

Next ==
    \/ Prologue
    \/ \E report \in Reports : Frame(report)
    \/ Report
    \/ Wake
    \/ HassApplies
    \/ \E report \in Reports : HassAppliesLate(report)
    \/ \E outcome \in AllOutcomes : PostEnds(outcome)
    \/ Stop
    \/ Tick

Spec == Init /\ [][Next]_vars

\* The threads are scheduled. Nothing makes Home Assistant apply a POST, nor the
\* network end it: curl_easy_perform has no timeout. Between two POSTs the updater sleeps with the mutex free, for seconds, so a
\* thread that waits for the mutex is not passed over for ever.
FairSpec ==
    /\ Spec
    /\ WF_vars(Prologue) /\ WF_vars(Wake) /\ WF_vars(Tick)
    /\ SF_vars(Report)

-----------------------------------------------------------------------------
(* Properties.                                                             *)

\* Type correctness.
TypeOK ==
    /\ frame \in Reports \cup {NoFrame}
    /\ updater \in {"created", "waiting", "posting", "ended"}
    /\ stopping \in BOOLEAN
    /\ pollLeft \in 0..PollTime
    /\ sincePost \in Int /\ sincePost <= DebounceTime + 1
    /\ {currentState, nextState, payload, hass, acknowledged} \subseteq Reports
    /\ applied \in BOOLEAN /\ late \in [Reports -> Nat]
    /\ shownBy \in {"answered", "underway", "lost"}
    /\ faults \in 0..FaultBound

\* currentState_ is what Home Assistant last acknowledged, although it is
\* assigned from nextState_ when the response comes and nextState_ is written
\* by another thread (HandlePostResponse under mtx_).
AcknowledgedIsCurrent == currentState = acknowledged

\* What Home Assistant shows is currentState_, so that a report equal to it need
\* not be posted (IsStateChanging), except while a POST is under way and unless
\* it shows what came with a POST whose answer was never read.
ShownIsCurrent == shownBy = "answered" => hass = currentState

\* The last POST never ends: the updater stays in curl_easy_perform.
PostHangs == <>[](updater = "posting")

\* A report that lasts comes to be acknowledged for good, and Home Assistant
\* shows it, unless it shows that of a POST whose answer was never read
\* (currentState_ is then not what it shows, and a report equal to
\* currentState_ is never posted), or a POST never ends
\* (ThreadedHassHandler::Start, its loop).
Converges ==
    \A r \in Reports :
        <>[](nextState = r /\ ~stopping)
            => \/ <>[](acknowledged = r /\ (hass = r \/ shownBy = "lost"))
               \/ PostHangs

\* One POST that never ends is the only thing that keeps the source of frames
\* waiting for good: the updater holds mtx_ around each POST, but however slow,
\* failed or repeated they are, the report gets mtx_ between two of them
\* (UpdateState_Impl, the updater's loop).
FramesGoOn == []<>(frame = NoFrame) \/ PostHangs

\* The destructor's join returns, unless a POST never ends: that keeps the
\* destructor waiting too (Stop, the updater's loop).
StopEnds == (stopping ~> updater = "ended") \/ PostHangs

=============================================================================
