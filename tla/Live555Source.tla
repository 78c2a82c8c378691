---------------------------- MODULE Live555Source ---------------------------
(***************************************************************************)
(* One Live555VideoSource (src/src/VideoSource/Live555.cxx) and the camera *)
(* it talks to: the RTSP handshake DESCRIBE, SETUP per track, PLAY; the    *)
(* sinks that receive the packets; the watchdog; and the ways the stream   *)
(* is torn down.  All of it runs in the event loop's thread.               *)
(*                                                                         *)
(* Time is counted in ticks.  The module says how an action changes the    *)
(* source's variables and leaves time and the caller to RestartWatcher.    *)
(***************************************************************************)
EXTENDS Integers, Sequences, FiniteSets

CONSTANTS
    Sessions,       \* the track lists a camera may describe
    WaitForFrame,   \* waitForFrame, in ticks
    Horizon,        \* BOUND: an age is not counted beyond it
    FrameBound,     \* BOUND: frames are not counted beyond it
    CrashPhases,    \* where in the handshake a camera may die
    TroubleBound    \* BOUND: how often the camera or the network misbehaves

TrackKinds == {"h264",      \* video the decoder takes: gets a sink
               "other",     \* audio, or another codec: set up without a sink
               "broken"}    \* MediaSubsession::initiate fails

ASSUME SourceAssumption ==
    /\ Sessions \subseteq Seq(TrackKinds)
    /\ WaitForFrame \in Nat \ {0}
    /\ Horizon \in Nat /\ Horizon > 2 * WaitForFrame
    /\ FrameBound \in Nat
    /\ TroubleBound \in Nat

VARIABLES
    phase,      \* which answer pRtspClient_ waits for; "none": no client
    tracks,     \* the subsessions of scs.session
    current,    \* scs.subsession, the track being set up
    sinks,      \* the sink of each track
    watchdog,   \* ticks until streamWatchdogHandler runs, or Off
    age,        \* ticks since lastUpdate
    maxFrames,  \* maxFrames_
    frameCount, \* frameCount_
    alive,      \* the camera still serves this client
    troubles    \* misbehaviours left to the camera and the network

clientVars == <<phase, tracks, current, sinks, watchdog, age, alive>>
sourceVars == <<clientVars, maxFrames, frameCount, troubles>>

Off == -1

\* A limit the bounded frame counter does not reach: the default of
\* StartStream is the largest integer.
Unlimited == FrameBound + 1

Phases == {"none", "describe", "setup", "play", "streaming"}

IsActive == phase # "none"

\* Each answer that goes wrong and each fault takes one from the budget.
Trouble == troubles > 0 /\ troubles' = troubles - 1

-----------------------------------------------------------------------------
(* Starting and stopping.                                                  *)

\* A new FrameRtspClient has sent DESCRIBE. Its lastUpdate is the clock's
\* epoch, longer ago than any timeout.
ClientWaiting ==
    /\ phase' = "describe"
    /\ tracks' = <<>> /\ current' = 0 /\ sinks' = <<>>
    /\ watchdog' = Off
    /\ age' = Horizon
    /\ alive' = TRUE

\* MUTANT: the watchdog task survives the client it points to.
StopStreamKeepingWatchdog ==
    /\ phase' = "none"
    /\ tracks' = <<>> /\ current' = 0 /\ sinks' = <<>>
    /\ age' = Horizon
    /\ alive' = FALSE
    /\ UNCHANGED watchdog

\* StopStream_Impl and shutdownStream: sinks and session are closed, and the
\* client goes with its state, whose destructor unschedules the watchdog.
StopStream ==
    /\ phase' = "none"
    /\ tracks' = <<>> /\ current' = 0 /\ sinks' = <<>>
    /\ watchdog' = Off
    /\ age' = Horizon
    /\ alive' = FALSE

\* StartStream(limit). sendDescribeCommand may fail on the spot, which runs
\* continueAfterDESCRIBE, and so StopStream, before StartStream returns.
StartStream(limit) ==
    /\ maxFrames' = limit
    /\ UNCHANGED frameCount
    /\ \/ ClientWaiting /\ UNCHANGED troubles
       \/ StopStream /\ Trouble

-----------------------------------------------------------------------------
(* The handshake.                                                          *)

\* setupNextSubsession, after track i of session t: tracks that cannot be
\* initiated are passed over; after the last one PLAY is sent.
SetupNextSubsession(t, i) ==
    LET later == {j \in (i + 1)..Len(t) : t[j] # "broken"} IN
    \/ later = {} /\ phase' = "play" /\ current' = 0
    \/ \E j \in later :
          /\ \A k \in later : j <= k
          /\ phase' = "setup" /\ current' = j

\* continueAfterDESCRIBE with a session description.
DescribeAnswered(t) ==
    /\ phase = "describe" /\ alive
    /\ IF \E j \in 1..Len(t) : t[j] = "h264" THEN UNCHANGED troubles ELSE Trouble
    /\ IF t = <<>>
       THEN StopStream
       ELSE /\ tracks' = t
            /\ sinks' = [j \in 1..Len(t) |-> "none"]
            /\ SetupNextSubsession(t, 0)
            /\ UNCHANGED <<watchdog, age, alive>>
    /\ UNCHANGED <<maxFrames, frameCount>>

\* continueAfterDESCRIBE or continueAfterPLAY with an error.
HandshakeFails ==
    /\ phase \in {"describe", "play"}
    /\ Trouble
    /\ StopStream
    /\ UNCHANGED <<maxFrames, frameCount>>

\* continueAfterSETUP: a track of H264 video gets a sink, which starts playing
\* (continuePlaying, which sets lastUpdate).
SetupAnswered ==
    /\ phase = "setup" /\ alive
    /\ IF tracks[current] = "h264"
       THEN sinks' = [sinks EXCEPT ![current] = "open"] /\ age' = 0
       ELSE UNCHANGED <<sinks, age>>
    /\ SetupNextSubsession(tracks, current)
    /\ UNCHANGED <<tracks, watchdog, alive, maxFrames, frameCount, troubles>>

\* continueAfterSETUP with an error: the next track is tried.
SetupFails ==
    /\ phase = "setup"
    /\ Trouble
    /\ SetupNextSubsession(tracks, current)
    /\ UNCHANGED <<tracks, sinks, watchdog, age, alive, maxFrames, frameCount>>

\* continueAfterPLAY: the watchdog is armed.
PlayAnswered ==
    /\ phase = "play" /\ alive
    /\ phase' = "streaming"
    /\ watchdog' = WaitForFrame
    /\ UNCHANGED <<tracks, current, sinks, age, alive,
                   maxFrames, frameCount, troubles>>

-----------------------------------------------------------------------------
(* The stream.                                                             *)

OpenSinks == {i \in DOMAIN sinks : sinks[i] = "open"}

\* AfterGettingFrame on track i. A packet that completes a frame is counted;
\* with or without a frame, the next one is asked for (continuePlaying sets
\* lastUpdate) until the limit is reached.
AfterGettingFrame(i, decoded) ==
    /\ i \in OpenSinks /\ alive /\ phase \in {"play", "streaming"}
    /\ IF decoded THEN UNCHANGED troubles ELSE Trouble
    /\ frameCount' = IF decoded /\ frameCount < FrameBound
                     THEN frameCount + 1 ELSE frameCount
    /\ IF frameCount' < maxFrames
       THEN age' = 0 /\ UNCHANGED <<phase, tracks, current, sinks, watchdog, alive>>
       ELSE StopStream
    /\ UNCHANGED maxFrames

\* subsessionAfterPlaying, after a RTCP BYE or the end of a track: its sink is
\* closed, and the stream is stopped if every subsession HAS a sink.
SubsessionAfterPlaying(i) ==
    /\ i \in OpenSinks
    /\ Trouble
    /\ IF \A j \in DOMAIN sinks : j # i /\ sinks[j] = "open"
       THEN StopStream
       ELSE /\ sinks' = [sinks EXCEPT ![i] = "ended"]
            /\ UNCHANGED <<phase, tracks, current, watchdog, age, alive>>
    /\ UNCHANGED <<maxFrames, frameCount>>

\* MUTANT: the watchdog looks at the client only once.
StreamWatchdogWithoutRearm ==
    /\ watchdog = 0
    /\ IF age > WaitForFrame
       THEN StopStream
       ELSE /\ watchdog' = Off
            /\ UNCHANGED <<phase, tracks, current, sinks, age, alive>>
    /\ UNCHANGED <<maxFrames, frameCount, troubles>>

\* streamWatchdogHandler.
StreamWatchdog ==
    /\ watchdog = 0
    /\ IF age > WaitForFrame
       THEN StopStream
       ELSE /\ watchdog' = WaitForFrame
            /\ UNCHANGED <<phase, tracks, current, sinks, age, alive>>
    /\ UNCHANGED <<maxFrames, frameCount, troubles>>

\* The camera loses its power: what it has acknowledged it will not answer.
CameraDies ==
    /\ alive /\ phase \in CrashPhases
    /\ Trouble
    /\ alive' = FALSE
    /\ UNCHANGED <<phase, tracks, current, sinks, watchdog, age,
                   maxFrames, frameCount>>

-----------------------------------------------------------------------------
SourceTypeOK ==
    /\ phase \in Phases
    /\ tracks \in Seq(TrackKinds)
    /\ current \in 0..Len(tracks)
    /\ sinks \in [1..Len(tracks) -> {"none", "open", "ended"}]
    /\ watchdog \in Off..WaitForFrame
    /\ age \in 0..Horizon
    /\ maxFrames \in 0..Unlimited
    /\ frameCount \in 0..FrameBound
    /\ alive \in BOOLEAN
    /\ troubles \in 0..TroubleBound

=============================================================================
