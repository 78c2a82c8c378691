--------------------------- MODULE RestartWatcher ---------------------------
(***************************************************************************)
(* The RestartWatcher of a source (src/include/VideoSource/                *)
(* RestartWatcher.h) over Live555Source, the source's Home Assistant       *)
(* handler as far as it decides what of its reports is posted, and the     *)
(* clock of all of them.  A report inside the handler's debounce window is *)
(* dropped, the watcher's null payload too, and nothing posts it when the  *)
(* window ends.  What becomes of a POST is in AsyncHassHandler, and so is  *)
(* the initial GET, whose response is not taken here.                      *)
(*                                                                         *)
(* A timer that is due runs before time goes on: the event loop is not     *)
(* blocked by anything in this composition.                                *)
(***************************************************************************)
EXTENDS Live555Source

CONSTANTS
    MinInterval,    \* minInterval, in ticks
    MaxInterval,    \* maxInterval, in ticks
    FrameLimits,    \* the limits the first StartStream may be given
    DebounceTime    \* debounceTime of the handler, in ticks

ASSUME WatcherAssumption ==
    /\ MinInterval \in Nat \ {0}
    /\ MaxInterval \in Nat /\ MinInterval <= MaxInterval
    /\ DebounceTime \in Nat
    /\ DebounceTime + MaxInterval < Horizon
    /\ FrameLimits \subseteq 1..Unlimited

VARIABLES
    interval,   \* interval
    due,        \* ticks until CheckAndRestart runs
    report,     \* what the handler was last called with: its nextState_
    posted,     \* the state it last posted
    known,      \* the state in its currentState_
    window,     \* ticks until its debounce task runs, or Off
    silent,     \* ticks since a packet came or PLAY was answered
    downFor,    \* ticks without a client since it went, or was tried to restart
    dark        \* ticks without a client since there was a stream or a frame

watcherVars == <<interval, due, report>>
handlerVars == <<posted, known, window>>
historyVars == <<silent, downFor, dark>>
vars == <<sourceVars, watcherVars, handlerVars, historyVars>>

\* App: the watcher is constructed, then StartStream called, then the event
\* loop entered.
Init ==
    /\ phase \in {"none", "describe"}
    /\ alive = (phase = "describe")
    /\ tracks = <<>> /\ current = 0 /\ sinks = <<>>
    /\ watchdog = Off /\ age = Horizon
    /\ maxFrames \in FrameLimits /\ frameCount = 0
    /\ troubles = TroubleBound
    /\ interval = MinInterval /\ due = MinInterval
    /\ report = "none" /\ posted = "none" /\ known = "none" /\ window = Off
    /\ silent = 0 /\ downFor = 0 /\ dark = 0

-----------------------------------------------------------------------------
(* The handler.                                                            *)

\* MUTANT: a report that is dropped moves the end of the window.
UpdateStateMovingWindow(state) ==
    /\ report' = state
    /\ \/ window # Off /\ UNCHANGED posted /\ window' = DebounceTime
       \/ /\ window = Off /\ (state = known => state # "unknown")
          /\ posted' = state /\ window' = DebounceTime
       \/ window = Off /\ state = known /\ UNCHANGED <<posted, window>>
    /\ UNCHANGED known

\* UpdateState_Impl: a state is posted if the debounce window is over and it is
\* not the one in currentState_, and the POST opens the next window. All that
\* is not unknown is "seen", so that two of those may differ.
UpdateState_Impl(state) ==
    /\ report' = state
    /\ \/ /\ window = Off /\ (state = known => state # "unknown")
          /\ posted' = state /\ window' = DebounceTime
       \/ /\ window # Off \/ state = known
          /\ UNCHANGED <<posted, window>>
    /\ UNCHANGED known

\* The task that ends the window.
DebounceTask ==
    /\ window = 0
    /\ window' = Off
    /\ UNCHANGED <<sourceVars, watcherVars, posted, known>>

\* HandlePostResponse takes for Home Assistant's state what it was last called
\* with, not what it has posted.
ResponseHandled ==
    /\ posted # "none"
    /\ known' = report
    /\ UNCHANGED <<sourceVars, watcherVars, posted, window>>

-----------------------------------------------------------------------------
(* The watcher.                                                            *)

\* MUTANT: the back-off has no ceiling.
DoubledForEver == IF interval < Horizon THEN 2 * interval ELSE interval

\* The back-off.
Doubled == IF 2 * interval < MaxInterval THEN 2 * interval ELSE MaxInterval

\* MUTANT: the source is restarted without the null payload.
CheckAndRestartQuietly ==
    /\ due = 0
    /\ IF ~IsActive
       THEN /\ StartStream(Unlimited)
            /\ interval' = Doubled
       ELSE /\ interval' = MinInterval
            /\ UNCHANGED sourceVars
    /\ due' = interval'
    /\ UNCHANGED <<report, handlerVars>>

\* CheckAndRestart, whose null payload makes the handler's state "unknown".
CheckAndRestart ==
    /\ due = 0
    /\ IF ~IsActive
       THEN /\ UpdateState_Impl("unknown")
            /\ StartStream(Unlimited)
            /\ interval' = Doubled
       ELSE /\ interval' = MinInterval
            /\ UNCHANGED <<sourceVars, report, handlerVars>>
    /\ due' = interval'

\* A decoded frame goes through the detector to the handler.
Packet(i, decoded) ==
    /\ AfterGettingFrame(i, decoded)
    /\ IF decoded THEN UpdateState_Impl("seen")
                  ELSE UNCHANGED <<report, handlerVars>>
    /\ UNCHANGED <<interval, due>>

\* What the clock's readers see of a step that takes no time.
History ==
    /\ silent' = IF age' = 0 \/ (phase = "play" /\ phase' = "streaming")
                 THEN 0 ELSE silent
    /\ downFor' = IF phase' # "none" \/ due' # due THEN 0 ELSE downFor
    /\ dark' = IF phase' = "streaming" \/ (phase = "play" /\ report' = "seen")
              THEN 0 ELSE dark

\* A step of the source alone.
Alone(SourceAction) ==
    SourceAction /\ UNCHANGED <<watcherVars, handlerVars>> /\ History

Older(x) == IF x < Horizon THEN x + 1 ELSE x

\* A camera in order sends a packet before the watchdog's time is over.
Delivering == phase = "streaming" /\ alive /\ OpenSinks # {}

Tick ==
    /\ due > 0 /\ watchdog # 0 /\ window # 0
    /\ IF Delivering /\ age >= WaitForFrame - 1 THEN Trouble ELSE UNCHANGED troubles
    /\ due' = due - 1
    /\ watchdog' = IF watchdog = Off THEN Off ELSE watchdog - 1
    /\ window' = IF window = Off THEN Off ELSE window - 1
    /\ age' = Older(age)
    /\ silent' = Older(silent)
    /\ downFor' = IF phase = "none" THEN Older(downFor) ELSE 0
    /\ dark' = IF phase = "none" THEN Older(dark) ELSE dark
    /\ UNCHANGED <<phase, tracks, current, sinks, maxFrames, frameCount, alive,
                   interval, report, posted, known>>

Next ==
    \/ CheckAndRestart /\ History
    \/ \E i \in DOMAIN sinks : \E decoded \in BOOLEAN : Packet(i, decoded) /\ History
    \/ \E t \in Sessions : Alone(DescribeAnswered(t))
    \/ Alone(HandshakeFails)
    \/ Alone(SetupAnswered)
    \/ Alone(SetupFails)
    \/ Alone(PlayAnswered)
    \/ \E i \in DOMAIN sinks : Alone(SubsessionAfterPlaying(i))
    \/ Alone(StreamWatchdog)
    \/ Alone(CameraDies)
    \/ DebounceTask /\ History
    \/ ResponseHandled /\ History
    \/ Tick

Spec == Init /\ [][Next]_vars

\* The event loop runs what is due, and time goes on.
LoopFairness ==
    /\ WF_vars(CheckAndRestart /\ History)
    /\ WF_vars(DebounceTask /\ History)
    /\ WF_vars(Alone(StreamWatchdog))
    /\ WF_vars(Tick)

\* A camera that is alive answers, and sends frames; what it does wrong is
\* counted in troubles.
CameraFairness ==
    /\ WF_vars(\E t \in Sessions : "h264" \in {t[j] : j \in DOMAIN t}
                                  /\ Alone(DescribeAnswered(t)))
    /\ WF_vars(Alone(SetupAnswered))
    /\ WF_vars(Alone(PlayAnswered))
    /\ WF_vars(\E i \in DOMAIN sinks : Packet(i, TRUE) /\ History)

FairSpec == Spec /\ LoopFairness /\ CameraFairness

-----------------------------------------------------------------------------
(* Properties.                                                             *)

States == {"none", "seen", "unknown"}

\* Type correctness; the back-off stays within its ceiling.
TypeOK ==
    /\ SourceTypeOK
    /\ interval \in MinInterval..MaxInterval
    /\ due \in 0..MaxInterval
    /\ report \in States /\ posted \in States /\ known \in States
    /\ window \in Off..DebounceTime
    /\ silent \in 0..Horizon /\ downFor \in 0..Horizon /\ dark \in 0..Horizon

\* The watchdog task holds a bare pointer to the client: it is pending exactly
\* while a client is streaming (streamWatchdogHandler, ~StreamClientState).
WatchdogHasClient == (watchdog # Off) <=> (phase = "streaming")

\* A stream that has fallen silent is closed at the latest after twice
\* waitForFrame: a packet just after one look of the watchdog is still in time
\* for the next (streamWatchdogHandler).
StallBounded == phase = "streaming" => silent <= 2 * WaitForFrame

\* A source that goes down is tried to restart within maxInterval, and again
\* within maxInterval, however often it has failed (CheckAndRestart).
OutageBounded == phase = "none" => downFor <= MaxInterval

Handshaking == phase \in {"describe", "setup", "play"}

\* The state a sensor was last given is recent, although null payloads are
\* dropped in the debounce window: it is that of a stream which has been silent
\* for at most 2 * waitForFrame, or of a source that has been without a client
\* for at most debounceTime + maxInterval, and for debounceTime if the watcher
\* tries again (then the handshake may last as long as the camera makes it). A
\* handler whose currentState_ is unknown already does not post it and lifts
\* the bound (CheckAndRestart, UpdateState_Impl, streamWatchdogHandler).
StateIsRecent ==
    posted = "seen" /\ known # "unknown" =>
        \/ phase = "streaming" /\ silent <= 2 * WaitForFrame
        \/ phase = "none" /\ dark <= DebounceTime + MaxInterval
        \/ Handshaking /\ dark <= DebounceTime

\* The watcher over the source implements Supervisor: no answer of the camera,
\* no watchdog and no packet brings a client back once it has gone, however the
\* handshake went; only the watcher does, when its interval has passed, and not
\* before the handler was told that nothing is known (CheckAndRestart).
Service == CASE phase = "none" -> "down"
             [] phase = "streaming" -> "up"
             [] OTHER -> "connecting"

Watched == INSTANCE Supervisor
    WITH Shortest <- MinInterval, Longest <- MaxInterval,
         service <- Service, told <- report, wait <- due

Supervised == Watched!Spec

\* However a stream fails, frames come again: the watchdog and the restart
\* watcher between them leave no failed stream as it is.
Recovers == []<>(phase = "streaming" /\ age = 0)

\* What holds of it with a camera that may die anywhere: frames come again for
\* ever, or there is a handshake that the camera never answers.
RecoversOrHangs ==
    []<>(phase = "streaming" /\ age = 0) \/ <>[](Handshaking /\ ~alive)

\* "All subsessions' streams have now been closed, so shutdown the client":
\* a stream none of whose tracks goes on is not kept (subsessionAfterPlaying).
EndedStreamIsShutDown ==
    (phase = "streaming" /\ \E i \in DOMAIN sinks : sinks[i] = "ended")
        => OpenSinks # {}

=============================================================================
