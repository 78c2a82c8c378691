------------------------ MODULE RestartWatcher_proofs -----------------------
(***************************************************************************)
(* Proofs about RestartWatcher, for any sessions a camera describes, any   *)
(* timeouts and intervals, and any number of faults.                       *)
(***************************************************************************)
EXTENDS RestartWatcher, TLAPS

-----------------------------------------------------------------------------
(* The inductive invariant.  That a silent stream is closed in time needs  *)
(* the watchdog's own argument: between two looks the silence and the time *)
(* to the next look add up to at most twice the timeout, because a look    *)
(* that finds the last packet too old ends the stream (Paced); an outage   *)
(* and the time to the next check add up to at most the longest interval   *)
(* (Retried).                                                              *)

Paced ==
    phase = "streaming" =>
        /\ silent <= age
        /\ silent + watchdog <= 2 * WaitForFrame

Retried ==
    IF phase = "none" THEN downFor + due <= MaxInterval ELSE downFor = 0

Reported == report = "seen" => phase \in {"none", "play", "streaming"}

IInv ==
    /\ TypeOK
    /\ WatchdogHasClient
    /\ Paced
    /\ Retried
    /\ Reported

\* A report leaves the handler well typed (UpdateState_Impl).
LEMMA UpdateStateTypes ==
    ASSUME TypeOK, NEW state \in {"seen", "unknown"}, UpdateState_Impl(state)
    PROVE  /\ report' = state /\ known' = known
           /\ posted' \in States /\ known' \in States
           /\ window' \in Off..DebounceTime
<1>1. known \in States /\ posted \in States /\ window \in Off..DebounceTime
  BY DEF TypeOK, States
<1>2. posted' \in {posted, state} /\ window' \in {window, DebounceTime}
  BY DEF UpdateState_Impl
<1> QED BY <1>1, <1>2, WatcherAssumption DEF UpdateState_Impl, States, Off

\* Closing the client leaves its variables well typed (StopStream_Impl).
LEMMA StopStreamTypes ==
    ASSUME StopStream
    PROVE  /\ phase' = "none" /\ watchdog' = Off /\ alive' = FALSE
           /\ tracks' \in Seq(TrackKinds)
           /\ current' \in 0..Len(tracks')
           /\ sinks' \in [1..Len(tracks') -> {"none", "open", "ended"}]
           /\ age' = Horizon
<1>1. tracks' = <<>> /\ current' = 0 /\ sinks' = <<>>
  BY DEF StopStream
<1>2. Len(tracks') = 0 /\ tracks' \in Seq(TrackKinds)
  BY <1>1
<1>3. sinks' \in [1..Len(tracks') -> {"none", "open", "ended"}]
  BY <1>1, <1>2
<1> QED BY <1>1, <1>2, <1>3 DEF StopStream

\* Going on to the next track keeps the track number in range
\* (setupNextSubsession).
LEMMA SetupNextTypes ==
    ASSUME NEW t \in Seq(TrackKinds), NEW i \in 0..Len(t),
           SetupNextSubsession(t, i)
    PROVE  phase' \in {"play", "setup"} /\ current' \in 0..Len(t)
BY DEF SetupNextSubsession

LEMMA TroubleTypes ==
    ASSUME troubles \in 0..TroubleBound, Trouble \/ UNCHANGED troubles
    PROVE  troubles' \in 0..TroubleBound
BY SourceAssumption DEF Trouble

\* A step that stops the stream, takes no time and reports nothing.
LEMMA StopKeeps ==
    ASSUME IInv, StopStream, Trouble \/ UNCHANGED troubles, phase # "none",
           maxFrames' \in 0..Unlimited, frameCount' \in 0..FrameBound,
           UNCHANGED <<interval, due>>, report' \in {report, "seen"}, History,
           posted' \in States, known' \in States, window' \in Off..DebounceTime
    PROVE  IInv'
<1>1. TypeOK'
  BY StopStreamTypes, TroubleTypes, SourceAssumption, WatcherAssumption
     DEF IInv, TypeOK, SourceTypeOK, History, Phases, Off, States
<1>2. WatchdogHasClient' /\ Paced' /\ Reported'
  BY StopStreamTypes DEF WatchdogHasClient, Paced, Reported
<1>3. Retried'
  BY StopStreamTypes DEF IInv, TypeOK, Retried, History
<1> QED BY <1>1, <1>2, <1>3 DEF IInv

\* A step of the handshake that keeps the client.
LEMMA HandshakeKeeps ==
    ASSUME IInv, Trouble \/ UNCHANGED troubles,
           phase \in {"describe", "setup"}, phase' \in {"setup", "play"},
           tracks' \in Seq(TrackKinds), current' \in 0..Len(tracks'),
           sinks' \in [1..Len(tracks') -> {"none", "open", "ended"}],
           age' \in 0..Horizon,
           UNCHANGED <<watchdog, alive, maxFrames, frameCount, watcherVars,
                       handlerVars>>,
           History
    PROVE  IInv'
<1>1. TypeOK'
  BY TroubleTypes, SourceAssumption
     DEF IInv, TypeOK, SourceTypeOK, History, Phases, watcherVars, handlerVars
<1>2. WatchdogHasClient' /\ Paced'
  BY DEF IInv, WatchdogHasClient, Paced
<1>3. Reported'
  BY DEF IInv, Reported, watcherVars
<1>4. Retried'
  BY DEF Retried, History
<1> QED BY <1>1, <1>2, <1>3, <1>4 DEF IInv

\* A step on the stream that keeps the client: the silence only shrinks.
LEMMA StreamKeeps ==
    ASSUME IInv, Trouble \/ UNCHANGED troubles,
           phase \in {"play", "streaming"}, phase' \in {phase, "streaming"},
           watchdog' = IF phase = "play" /\ phase' = "streaming"
                       THEN WaitForFrame ELSE watchdog,
           sinks' \in [1..Len(tracks) -> {"none", "open", "ended"}],
           age' \in {0, age}, alive' \in BOOLEAN, frameCount' \in 0..FrameBound,
           report' \in {report, "seen"},
           posted' \in States, known' \in States, window' \in Off..DebounceTime,
           UNCHANGED <<tracks, current, maxFrames, interval, due>>, History
    PROVE  IInv'
<1>1. TypeOK'
  BY TroubleTypes, SourceAssumption
     DEF IInv, TypeOK, SourceTypeOK, History, Phases, Off, States
<1>2. WatchdogHasClient'
  BY SourceAssumption DEF IInv, WatchdogHasClient, Off
<1>3. Paced'
  <2>1. CASE phase = "play" /\ phase' = "streaming"
    BY <2>1, <1>1, SourceAssumption DEF TypeOK, SourceTypeOK, Paced, History
  <2>2. CASE phase = "streaming"
    BY <2>2, <1>1, SourceAssumption DEF IInv, TypeOK, SourceTypeOK, Paced, History,
                                        WatchdogHasClient, Off
  <2>3. CASE phase' = "play"
    BY <2>3 DEF Paced
  <2> QED BY <2>1, <2>2, <2>3
<1>4. Retried' /\ Reported'
  BY DEF IInv, Retried, Reported, History
<1> QED BY <1>1, <1>2, <1>3, <1>4 DEF IInv

LEMMA InitHolds == Init => IInv
<1> SUFFICES ASSUME Init PROVE IInv
  OBVIOUS
<1>1. tracks \in Seq(TrackKinds) /\ Len(tracks) = 0
  BY DEF Init
<1>2. sinks \in [1..Len(tracks) -> {"none", "open", "ended"}]
  BY <1>1 DEF Init
<1>3. TypeOK
  BY <1>1, <1>2, SourceAssumption, WatcherAssumption
     DEF Init, TypeOK, SourceTypeOK, Phases, Off, Unlimited, States
<1>4. WatchdogHasClient /\ Paced /\ Retried /\ Reported
  BY WatcherAssumption DEF Init, WatchdogHasClient, Paced, Retried, Reported
<1> QED BY <1>3, <1>4 DEF IInv

\* The restart watcher's own step: a new handshake, or one that failed at once.
LEMMA CheckAndRestartKeeps ==
    ASSUME IInv, CheckAndRestart, History
    PROVE  IInv'
<1>1. interval' \in MinInterval..MaxInterval /\ due' = interval' /\ due' # due
  BY WatcherAssumption DEF CheckAndRestart, Doubled, IInv, TypeOK
<1>2. CASE IsActive
  <2>1. UNCHANGED <<sourceVars, report, posted, known, window>>
    BY <1>2 DEF CheckAndRestart, handlerVars
  <2>2. TypeOK'
    BY <1>1, <2>1, SourceAssumption, WatcherAssumption
       DEF IInv, TypeOK, SourceTypeOK, History, sourceVars, clientVars
  <2>3. WatchdogHasClient' /\ Paced' /\ Reported'
    BY <2>1, SourceAssumption
       DEF IInv, TypeOK, WatchdogHasClient, Paced, Reported, History, sourceVars,
           clientVars
  <2>4. Retried'
    BY <1>1, <1>2, <2>1 DEF IsActive, Retried, History, sourceVars, clientVars
  <2> QED BY <2>2, <2>3, <2>4 DEF IInv
<1>3. CASE ~IsActive
  <2>1. /\ report' = "unknown" /\ StartStream(Unlimited)
        /\ posted' \in States /\ known' \in States
        /\ window' \in Off..DebounceTime
    BY <1>3, UpdateStateTypes DEF CheckAndRestart, IInv
  <2>2. /\ phase' \in {"none", "describe"} /\ watchdog' = Off
        /\ alive' \in BOOLEAN /\ age' = Horizon
        /\ tracks' \in Seq(TrackKinds) /\ current' \in 0..Len(tracks')
        /\ sinks' \in [1..Len(tracks') -> {"none", "open", "ended"}]
        /\ Trouble \/ UNCHANGED troubles
    <3>1. CASE ClientWaiting /\ UNCHANGED troubles
      <4>1. tracks' = <<>> /\ current' = 0 /\ sinks' = <<>>
        BY <3>1 DEF ClientWaiting
      <4>2. Len(tracks') = 0 /\ tracks' \in Seq(TrackKinds)
        BY <4>1
      <4>3. sinks' \in [1..Len(tracks') -> {"none", "open", "ended"}]
        BY <4>1, <4>2
      <4> QED BY <3>1, <4>1, <4>2, <4>3 DEF ClientWaiting
    <3>2. CASE StopStream /\ Trouble
      BY <3>2, StopStreamTypes
    <3> QED BY <2>1, <3>1, <3>2 DEF StartStream
  <2>3. TypeOK'
    BY <1>1, <2>1, <2>2, TroubleTypes, SourceAssumption, WatcherAssumption
       DEF StartStream, IInv, TypeOK, SourceTypeOK, History, Phases, Off, Unlimited,
           States
  <2>4. WatchdogHasClient' /\ Paced' /\ Reported'
    BY <2>1, <2>2 DEF WatchdogHasClient, Paced, Reported
  <2>5. Retried'
    BY <1>1, <2>2 DEF Retried, History
  <2> QED BY <2>3, <2>4, <2>5 DEF IInv
<1> QED BY <1>2, <1>3

\* A packet: the next one is asked for, or the limit is reached.
LEMMA PacketKeeps ==
    ASSUME IInv, NEW i \in DOMAIN sinks, NEW decoded \in BOOLEAN,
           Packet(i, decoded), History
    PROVE  IInv'
<1>1. /\ phase \in {"play", "streaming"}
      /\ Trouble \/ UNCHANGED troubles
      /\ maxFrames' = maxFrames
      /\ UNCHANGED <<interval, due>>
      /\ report' \in {report, "seen"}
      /\ posted' \in States /\ known' \in States /\ window' \in Off..DebounceTime
  <2>1. CASE decoded
    BY <2>1, UpdateStateTypes DEF Packet, AfterGettingFrame, IInv
  <2>2. CASE ~decoded
    BY <2>2 DEF Packet, AfterGettingFrame, IInv, TypeOK, handlerVars, States
  <2> QED BY <2>1, <2>2
<1>2. frameCount' \in 0..FrameBound
  BY SourceAssumption DEF Packet, AfterGettingFrame, IInv, TypeOK, SourceTypeOK
<1>3. CASE frameCount' < maxFrames
  <2>1. age' = 0 /\ UNCHANGED <<phase, tracks, current, sinks, watchdog, alive>>
    BY <1>3 DEF Packet, AfterGettingFrame
  <2>2. /\ sinks' \in [1..Len(tracks) -> {"none", "open", "ended"}]
        /\ alive' \in BOOLEAN
    BY <2>1 DEF IInv, TypeOK, SourceTypeOK
  <2> QED BY <1>1, <1>2, <2>1, <2>2, StreamKeeps
<1>4. CASE ~(frameCount' < maxFrames)
  <2>1. StopStream
    BY <1>4 DEF Packet, AfterGettingFrame
  <2>2. maxFrames' \in 0..Unlimited /\ phase # "none"
    BY <1>1 DEF IInv, TypeOK, SourceTypeOK
  <2> QED BY <1>1, <1>2, <2>1, <2>2, StopKeeps
<1> QED BY <1>3, <1>4

LEMMA DescribeAnsweredKeeps ==
    ASSUME IInv, NEW t \in Sessions, Alone(DescribeAnswered(t))
    PROVE  IInv'
<1>1. /\ phase = "describe" /\ History /\ UNCHANGED <<watcherVars, handlerVars>>
      /\ Trouble \/ UNCHANGED troubles
      /\ UNCHANGED <<maxFrames, frameCount>>
  BY DEF Alone, DescribeAnswered
<1>2. maxFrames' \in 0..Unlimited /\ frameCount' \in 0..FrameBound
  BY <1>1 DEF IInv, TypeOK, SourceTypeOK
<1>3. CASE t = <<>>
  <2>1. StopStream
    BY <1>3 DEF Alone, DescribeAnswered
  <2>2. /\ UNCHANGED <<interval, due>> /\ report' \in {report, "seen"}
        /\ posted' \in States /\ known' \in States /\ window' \in Off..DebounceTime
    BY <1>1 DEF watcherVars, handlerVars, IInv, TypeOK, States
  <2> QED BY <1>1, <1>2, <2>1, <2>2, StopKeeps
<1>4. CASE t # <<>>
  <2>1. /\ tracks' = t
        /\ sinks' = [j \in 1..Len(t) |-> "none"]
        /\ SetupNextSubsession(t, 0)
        /\ UNCHANGED <<watchdog, age, alive>>
    BY <1>4 DEF Alone, DescribeAnswered
  <2>2. t \in Seq(TrackKinds) /\ 0 \in 0..Len(t)
    BY SourceAssumption
  <2>3. phase' \in {"play", "setup"} /\ current' \in 0..Len(t)
    BY <2>1, <2>2, SetupNextTypes
  <2>4. /\ sinks' \in [1..Len(tracks') -> {"none", "open", "ended"}]
        /\ age' \in 0..Horizon
    BY <2>1 DEF IInv, TypeOK, SourceTypeOK
  <2> QED BY <1>1, <2>1, <2>2, <2>3, <2>4, HandshakeKeeps
<1> QED BY <1>3, <1>4

LEMMA SetupKeeps ==
    ASSUME IInv, Alone(SetupAnswered) \/ Alone(SetupFails)
    PROVE  IInv'
<1>1. /\ phase = "setup" /\ History /\ UNCHANGED <<watcherVars, handlerVars>>
      /\ Trouble \/ UNCHANGED troubles
      /\ SetupNextSubsession(tracks, current)
      /\ UNCHANGED <<tracks, watchdog, alive, maxFrames, frameCount>>
      /\ age' \in {0, age}
      /\ sinks' \in {sinks, [sinks EXCEPT ![current] = "open"]}
  BY DEF Alone, SetupAnswered, SetupFails
<1>2. tracks \in Seq(TrackKinds) /\ current \in 0..Len(tracks)
  BY DEF IInv, TypeOK, SourceTypeOK
<1>3. phase' \in {"play", "setup"} /\ current' \in 0..Len(tracks)
  BY <1>1, <1>2, SetupNextTypes
<1>4. /\ sinks' \in [1..Len(tracks') -> {"none", "open", "ended"}]
      /\ age' \in 0..Horizon
  BY <1>1, SourceAssumption DEF IInv, TypeOK, SourceTypeOK
<1> QED BY <1>1, <1>2, <1>3, <1>4, HandshakeKeeps

LEMMA HandshakeFailsKeeps ==
    ASSUME IInv, Alone(HandshakeFails)
    PROVE  IInv'
<1>1. /\ StopStream /\ Trouble /\ phase # "none" /\ History
      /\ UNCHANGED <<maxFrames, frameCount, interval, due, report, posted, known,
                     window>>
  BY DEF Alone, HandshakeFails, watcherVars, handlerVars
<1>2. /\ maxFrames' \in 0..Unlimited /\ frameCount' \in 0..FrameBound
      /\ posted' \in States /\ known' \in States /\ window' \in Off..DebounceTime
  BY <1>1 DEF IInv, TypeOK, SourceTypeOK, States
<1> QED BY <1>1, <1>2, StopKeeps

LEMMA PlayAnsweredKeeps ==
    ASSUME IInv, Alone(PlayAnswered)
    PROVE  IInv'
<1>1. /\ phase = "play" /\ phase' = "streaming" /\ watchdog' = WaitForFrame
      /\ UNCHANGED <<tracks, current, sinks, age, alive, maxFrames, frameCount,
                     troubles, interval, due, report, posted, known, window>>
      /\ History
  BY DEF Alone, PlayAnswered, watcherVars, handlerVars
<1>2. /\ sinks' \in [1..Len(tracks) -> {"none", "open", "ended"}]
      /\ alive' \in BOOLEAN /\ frameCount' \in 0..FrameBound
      /\ posted' \in States /\ known' \in States /\ window' \in Off..DebounceTime
  BY <1>1 DEF IInv, TypeOK, SourceTypeOK, States
<1> QED BY <1>1, <1>2, StreamKeeps

LEMMA SubsessionAfterPlayingKeeps ==
    ASSUME IInv, NEW i \in DOMAIN sinks, Alone(SubsessionAfterPlaying(i))
    PROVE  IInv'
<1>1. /\ History /\ Trouble
      /\ UNCHANGED <<maxFrames, frameCount, interval, due, report, posted, known,
                     window>>
  BY DEF Alone, SubsessionAfterPlaying, watcherVars, handlerVars
<1>2. /\ maxFrames' \in 0..Unlimited /\ frameCount' \in 0..FrameBound
      /\ posted' \in States /\ known' \in States /\ window' \in Off..DebounceTime
  BY <1>1 DEF IInv, TypeOK, SourceTypeOK, States
<1>3. CASE phase = "none" /\ StopStream
  <2>1. TypeOK'
    BY <1>1, <1>3, StopStreamTypes, TroubleTypes, SourceAssumption
       DEF IInv, TypeOK, SourceTypeOK, History, Phases, Off
  <2>2. WatchdogHasClient' /\ Paced' /\ Reported'
    BY <1>3, StopStreamTypes DEF WatchdogHasClient, Paced, Reported
  <2>3. Retried'
    BY <1>1, <1>3, StopStreamTypes DEF IInv, Retried, History
  <2> QED BY <2>1, <2>2, <2>3 DEF IInv
<1>4. CASE phase # "none" /\ StopStream
  BY <1>1, <1>2, <1>4, StopKeeps
<1>5. CASE ~StopStream
  <2>1. /\ sinks' = [sinks EXCEPT ![i] = "ended"]
        /\ UNCHANGED <<phase, tracks, current, watchdog, age, alive>>
    BY <1>5 DEF Alone, SubsessionAfterPlaying
  <2>2. sinks' \in [1..Len(tracks') -> {"none", "open", "ended"}]
    BY <2>1 DEF IInv, TypeOK, SourceTypeOK
  <2>3. TypeOK'
    BY <1>1, <1>2, <2>1, <2>2, TroubleTypes, SourceAssumption
       DEF IInv, TypeOK, SourceTypeOK, History
  <2>4. WatchdogHasClient' /\ Paced' /\ Retried' /\ Reported'
    BY <1>1, <2>1, SourceAssumption
       DEF IInv, TypeOK, SourceTypeOK, WatchdogHasClient, Paced, Retried, Reported,
           History
  <2> QED BY <2>3, <2>4 DEF IInv
<1> QED BY <1>3, <1>4, <1>5

\* A look of the watchdog: a stream it leaves alone has not been silent for
\* longer than the timeout.
LEMMA StreamWatchdogKeeps ==
    ASSUME IInv, Alone(StreamWatchdog)
    PROVE  IInv'
<1>1. /\ watchdog = 0 /\ phase = "streaming" /\ History
      /\ UNCHANGED <<maxFrames, frameCount, troubles, interval, due, report, posted,
                     known, window>>
  BY DEF Alone, StreamWatchdog, watcherVars, handlerVars, IInv, WatchdogHasClient,
         Off
<1>2. /\ maxFrames' \in 0..Unlimited /\ frameCount' \in 0..FrameBound
      /\ posted' \in States /\ known' \in States /\ window' \in Off..DebounceTime
  BY <1>1 DEF IInv, TypeOK, SourceTypeOK, States
<1>3. CASE age > WaitForFrame
  <2>1. StopStream
    BY <1>3 DEF Alone, StreamWatchdog
  <2> QED BY <1>1, <1>2, <2>1, StopKeeps
<1>4. CASE ~(age > WaitForFrame)
  <2>1. /\ watchdog' = WaitForFrame
        /\ UNCHANGED <<phase, tracks, current, sinks, age, alive>>
    BY <1>4 DEF Alone, StreamWatchdog
  <2>2. TypeOK'
    BY <1>1, <2>1, SourceAssumption
       DEF IInv, TypeOK, SourceTypeOK, History, Off
  <2>3. Paced'
    BY <1>1, <1>4, <2>1, SourceAssumption
       DEF IInv, TypeOK, SourceTypeOK, Paced, History
  <2>4. WatchdogHasClient' /\ Retried' /\ Reported'
    BY <1>1, <2>1, SourceAssumption
       DEF IInv, WatchdogHasClient, Retried, Reported, History, Off
  <2> QED BY <2>2, <2>3, <2>4 DEF IInv
<1> QED BY <1>3, <1>4

LEMMA CameraDiesKeeps ==
    ASSUME IInv, Alone(CameraDies)
    PROVE  IInv'
<1>1. /\ alive' = FALSE /\ Trouble /\ History
      /\ UNCHANGED <<phase, tracks, current, sinks, watchdog, age, maxFrames,
                     frameCount, interval, due, report, posted, known, window>>
  BY DEF Alone, CameraDies, watcherVars, handlerVars
<1>2. TypeOK'
  <2>1. troubles' \in 0..TroubleBound
    BY <1>1, TroubleTypes DEF IInv, TypeOK, SourceTypeOK
  <2>2. silent' \in 0..Horizon /\ downFor' \in 0..Horizon /\ dark' \in 0..Horizon
    BY <1>1, SourceAssumption DEF IInv, TypeOK, History
  <2> QED BY <1>1, <2>1, <2>2 DEF IInv, TypeOK, SourceTypeOK
<1>3. WatchdogHasClient' /\ Paced' /\ Retried' /\ Reported'
  BY <1>1, SourceAssumption
     DEF IInv, TypeOK, SourceTypeOK, WatchdogHasClient, Paced, Retried, Reported,
         History
<1> QED BY <1>2, <1>3 DEF IInv

\* Time passes only while nothing is due, so a tick takes from the time to the
\* next look, or the next check, what it adds to the silence, or the outage.
LEMMA TickKeeps ==
    ASSUME IInv, Tick
    PROVE  IInv'
<1>1. TypeOK'
  <2>1. troubles' \in 0..TroubleBound
    BY TroubleTypes DEF Tick, IInv, TypeOK, SourceTypeOK
  <2>2. /\ watchdog' \in Off..WaitForFrame /\ due' \in 0..MaxInterval
        /\ age' \in 0..Horizon /\ silent' \in 0..Horizon /\ downFor' \in 0..Horizon
        /\ dark' \in 0..Horizon /\ window' \in Off..DebounceTime
    BY SourceAssumption, WatcherAssumption
       DEF Tick, IInv, TypeOK, SourceTypeOK, Older, Off
  <2> QED BY <2>1, <2>2 DEF Tick, IInv, TypeOK, SourceTypeOK
<1>2. WatchdogHasClient'
  BY SourceAssumption DEF Tick, IInv, TypeOK, SourceTypeOK, WatchdogHasClient, Off
<1>3. Paced'
  <2> SUFFICES ASSUME phase' = "streaming"
               PROVE  silent' <= age' /\ silent' + watchdog' <= 2 * WaitForFrame
    BY DEF Paced
  <2>1. phase = "streaming" /\ watchdog # Off /\ watchdog' = watchdog - 1
    BY DEF Tick, IInv, WatchdogHasClient
  <2>2. silent' = Older(silent) /\ age' = Older(age)
    BY DEF Tick
  <2> QED BY <2>1, <2>2, SourceAssumption
          DEF IInv, TypeOK, SourceTypeOK, Paced, Older, Off
<1>4. Retried'
  BY SourceAssumption, WatcherAssumption
     DEF Tick, IInv, TypeOK, SourceTypeOK, Retried, Older
<1>5. Reported'
  BY DEF Tick, IInv, Reported
<1> QED BY <1>1, <1>2, <1>3, <1>4, <1>5 DEF IInv

\* A step of the handler alone.
LEMMA HandlerKeeps ==
    ASSUME IInv, DebounceTask \/ ResponseHandled, History
    PROVE  IInv'
<1>1. /\ UNCHANGED <<phase, tracks, current, sinks, watchdog, age, alive, maxFrames>>
      /\ UNCHANGED <<frameCount, troubles, interval, due, report, posted>>
      /\ window' \in {window, Off} /\ known' \in {known, report}
  BY DEF DebounceTask, ResponseHandled, sourceVars, clientVars, watcherVars
<1>2. TypeOK'
  <2>1. /\ posted' \in States /\ known' \in States /\ report' \in States
        /\ window' \in Off..DebounceTime
    BY <1>1, WatcherAssumption DEF IInv, TypeOK, Off, States
  <2>2. silent' \in 0..Horizon /\ downFor' \in 0..Horizon /\ dark' \in 0..Horizon
    BY SourceAssumption DEF IInv, TypeOK, History
  <2> QED BY <1>1, <2>1, <2>2 DEF IInv, TypeOK, SourceTypeOK
<1>3. WatchdogHasClient' /\ Paced' /\ Retried' /\ Reported'
  BY <1>1, SourceAssumption
     DEF IInv, TypeOK, SourceTypeOK, WatchdogHasClient, Paced, Retried, Reported,
         History
<1> QED BY <1>2, <1>3 DEF IInv

LEMMA StutterKeeps ==
    ASSUME IInv, UNCHANGED vars
    PROVE  IInv'
<1>1. /\ UNCHANGED <<phase, tracks, current, sinks, watchdog, age, alive, maxFrames>>
      /\ UNCHANGED <<frameCount, troubles, interval, due, report, silent, downFor>>
      /\ UNCHANGED <<posted, known, window, dark>>
  BY DEF vars, sourceVars, clientVars, watcherVars, handlerVars, historyVars
<1>2. TypeOK'
  BY <1>1 DEF IInv, TypeOK, SourceTypeOK
<1>3. WatchdogHasClient' /\ Paced' /\ Retried' /\ Reported'
  BY <1>1 DEF IInv, WatchdogHasClient, Paced, Retried, Reported
<1> QED BY <1>2, <1>3 DEF IInv

THEOREM InvariantHolds == Spec => []IInv
<1>1. ASSUME IInv, [Next]_vars PROVE IInv'
  BY <1>1, CheckAndRestartKeeps, PacketKeeps, DescribeAnsweredKeeps,
     HandshakeFailsKeeps, SetupKeeps, PlayAnsweredKeeps,
     SubsessionAfterPlayingKeeps, StreamWatchdogKeeps, CameraDiesKeeps,
     HandlerKeeps, TickKeeps, StutterKeeps
     DEF Next
<1> QED BY <1>1, InitHolds, PTL DEF Spec

-----------------------------------------------------------------------------
(* What follows for the properties the runs check.                         *)

\* Type correctness, for any sessions, timeouts and number of faults
\* (Live555.cxx, RestartWatcher.h).
THEOREM TypeCorrect == Spec => []TypeOK
BY InvariantHolds, PTL DEF IInv

\* The watchdog task is pending exactly while its client is streaming, so it
\* never runs on a closed client (Live555.cxx:115-121, 571-588, 637-653).
THEOREM WatchdogCorrect == Spec => []WatchdogHasClient
BY InvariantHolds, PTL DEF IInv

\* A silent stream is closed within twice waitForFrame, for any waitForFrame
\* (Live555.cxx:637-653).
THEOREM StallsAreBounded == Spec => []StallBounded
<1>1. IInv => StallBounded
  <2> SUFFICES ASSUME IInv, phase = "streaming" PROVE silent <= 2 * WaitForFrame
    BY DEF StallBounded
  <2>1. silent \in Nat /\ watchdog \in Off..WaitForFrame
    BY SourceAssumption DEF IInv, TypeOK, SourceTypeOK
  <2>2. silent + watchdog <= 2 * WaitForFrame /\ watchdog # Off
    BY DEF IInv, Paced, WatchdogHasClient
  <2> QED BY <2>1, <2>2, SourceAssumption DEF Off
<1> QED BY <1>1, InvariantHolds, PTL

\* A source that is down is tried again within maxInterval, for any intervals
\* (RestartWatcher.h:13-48).
THEOREM OutagesAreBounded == Spec => []OutageBounded
<1>1. IInv => OutageBounded
  BY WatcherAssumption DEF IInv, TypeOK, Retried, OutageBounded
<1> QED BY <1>1, InvariantHolds, PTL

-----------------------------------------------------------------------------
(* The state last posted.  A null payload that is dropped while the window  *)
(* is open leaves at most the rest of the window and one more interval:     *)
(* without a client, the time since the last frame and the window's rest    *)
(* add up to at most debounceTime (the window opened with a frame), and the *)
(* check that comes after the window posts.                                 *)

\* Without a client the next check is near enough, and with one so was the last.
Within(slack) ==
    IF phase = "none" THEN dark + due <= slack + MaxInterval ELSE dark <= slack

CalledFirst == posted = "seen" => report # "none"

NoDarkStream == phase = "streaming" => dark = 0

ReportRecent == report = "seen" => Within(0)

WindowCovers == posted = "seen" /\ window # Off => dark + window <= DebounceTime

PostedRecent == posted = "seen" /\ known # "unknown" => Within(DebounceTime)

Lingers == CalledFirst /\ NoDarkStream /\ ReportRecent /\ WindowCovers /\ PostedRecent

LEMMA DarkTypes ==
    ASSUME TypeOK
    PROVE  /\ dark \in Nat /\ due \in Nat /\ due <= MaxInterval
           /\ window \in Nat \cup {Off} /\ (window # Off => window <= DebounceTime)
           /\ report \in States /\ posted \in States /\ known \in States
BY SourceAssumption, WatcherAssumption DEF TypeOK, Off

\* A step that takes no time and does not start the source.
LEMMA QuietWithin ==
    ASSUME TypeOK, UNCHANGED due, dark' = dark \/ dark' = 0,
           phase = "none" => phase' = "none"
    PROVE  \A slack \in Nat : Within(slack) => Within(slack)'
BY DarkTypes, WatcherAssumption DEF Within

\* A step that takes no time, does not start the source and leaves the handler.
LEMMA QuietKeepsLingers ==
    ASSUME TypeOK, Lingers, History,
           UNCHANGED <<due, report, posted, known, window>>,
           phase = "none" => phase' = "none"
    PROVE  Lingers'
<1>1. dark' \in {dark, 0}
  BY DEF History
<1>2. \A slack \in Nat : Within(slack) => Within(slack)'
  BY <1>1, QuietWithin
<1>3. CalledFirst' /\ NoDarkStream'
  BY DEF Lingers, CalledFirst, NoDarkStream, History
<1>4. ReportRecent' /\ PostedRecent'
  BY <1>2, WatcherAssumption DEF Lingers, ReportRecent, PostedRecent
<1>5. WindowCovers'
  <2> SUFFICES ASSUME posted = "seen", window # Off
               PROVE  dark' + window <= DebounceTime
    BY DEF WindowCovers
  <2>1. dark + window <= DebounceTime
    BY DEF Lingers, WindowCovers
  <2> QED BY <1>1, <2>1, DarkTypes, WatcherAssumption
<1> QED BY <1>3, <1>4, <1>5 DEF Lingers

\* A frame's report: there is a stream, or one is being set up.
LEMMA FrameKeepsLingers ==
    ASSUME TypeOK, Lingers, History, UNCHANGED due,
           phase \in {"play", "streaming"}, UpdateState_Impl("seen")
    PROVE  Lingers'
<1>1. dark' = 0 /\ report' = "seen" /\ due' = due
  BY DEF History, Lingers, NoDarkStream, UpdateState_Impl
<1>2. \A slack \in Nat : Within(slack)'
  <2> SUFFICES ASSUME NEW slack \in Nat PROVE Within(slack)'
    OBVIOUS
  <2>1. 0 <= slack /\ 0 + due <= slack + MaxInterval
    BY DarkTypes, WatcherAssumption
  <2> QED BY <1>1, <2>1 DEF Within
<1>3. CalledFirst' /\ NoDarkStream' /\ ReportRecent' /\ PostedRecent'
  BY <1>1, <1>2, WatcherAssumption
     DEF CalledFirst, NoDarkStream, ReportRecent, PostedRecent
<1>4. WindowCovers'
  <2>1. window' = DebounceTime \/ (window' = window /\ window \in Nat \cup {Off})
    BY DarkTypes DEF UpdateState_Impl
  <2>2. window' # Off => window' <= DebounceTime /\ window' \in Nat
    BY <2>1, DarkTypes, WatcherAssumption
  <2> QED BY <1>1, <2>2 DEF WindowCovers
<1> QED BY <1>3, <1>4 DEF Lingers

\* The null payload is posted, dropped by an open window, or taken for known.
LEMMA CheckKeepsLingers ==
    ASSUME TypeOK, Lingers, History, CheckAndRestart
    PROVE  Lingers'
<1> USE DarkTypes, WatcherAssumption
<1>1. due' \in Nat /\ due' <= MaxInterval
  BY DEF CheckAndRestart, Doubled, TypeOK
<1>2. CASE IsActive
  <2>1. /\ phase # "none" /\ phase' = phase
        /\ UNCHANGED <<report, posted, known, window>>
    BY <1>2 DEF CheckAndRestart, IsActive, sourceVars, clientVars, handlerVars
  <2>2. dark' \in {dark, 0} /\ (phase' = "streaming" => dark' = 0)
    BY DEF History
  <2>3. \A slack \in Nat : Within(slack) => Within(slack)'
    BY <2>1, <2>2 DEF Within
  <2>4. CalledFirst' /\ NoDarkStream' /\ ReportRecent' /\ PostedRecent'
    BY <2>1, <2>2, <2>3
       DEF Lingers, CalledFirst, NoDarkStream, ReportRecent, PostedRecent
  <2>5. WindowCovers'
    <3> SUFFICES ASSUME posted = "seen", window # Off
                 PROVE  dark' + window <= DebounceTime
      BY <2>1 DEF WindowCovers
    <3>1. dark + window <= DebounceTime
      BY DEF Lingers, WindowCovers
    <3> QED BY <2>2, <3>1
  <2> QED BY <2>4, <2>5 DEF Lingers
<1>3. CASE ~IsActive
  <2>1. /\ UpdateState_Impl("unknown") /\ phase = "none"
        /\ phase' \in {"none", "describe"}
    BY <1>3 DEF CheckAndRestart, IsActive, StartStream, ClientWaiting, StopStream
  <2>2. report' = "unknown" /\ known' = known /\ dark' = dark
    BY <2>1 DEF UpdateState_Impl, History
  <2>3. CASE posted' = "unknown"
    BY <2>1, <2>2, <2>3
       DEF Lingers, CalledFirst, NoDarkStream, ReportRecent, WindowCovers, PostedRecent
  <2>4. CASE posted' # "unknown"
    <3>1. posted' = posted /\ window' = window /\ (window # Off \/ known = "unknown")
      BY <2>1, <2>4 DEF UpdateState_Impl
    <3>2. posted = "seen" /\ window # Off => dark <= DebounceTime
      BY DEF Lingers, WindowCovers
    <3>3. dark <= DebounceTime => Within(DebounceTime)'
      BY <1>1, <2>2 DEF Within
    <3>4. PostedRecent'
      BY <2>2, <3>1, <3>2, <3>3 DEF PostedRecent
    <3>5. CalledFirst' /\ NoDarkStream' /\ ReportRecent' /\ WindowCovers'
      BY <2>1, <2>2, <3>1
         DEF Lingers, CalledFirst, NoDarkStream, ReportRecent, WindowCovers
    <3> QED BY <3>4, <3>5 DEF Lingers
  <2> QED BY <2>3, <2>4
<1> QED BY <1>2, <1>3

LEMMA HandlerKeepsLingers ==
    ASSUME TypeOK, Lingers, History, DebounceTask \/ ResponseHandled
    PROVE  Lingers'
<1>1. /\ UNCHANGED <<phase, due, report, posted>>
      /\ window' \in {window, Off} /\ known' \in {known, report}
  BY DEF DebounceTask, ResponseHandled, sourceVars, clientVars, watcherVars
<1>2. dark' \in {dark, 0}
  BY DEF History
<1>3. \A slack \in Nat : Within(slack) => Within(slack)'
  BY <1>1, <1>2, QuietWithin
<1>4. CalledFirst' /\ NoDarkStream' /\ ReportRecent'
  BY <1>1, <1>3 DEF Lingers, CalledFirst, NoDarkStream, ReportRecent, History
<1>5. WindowCovers'
  <2> SUFFICES ASSUME posted = "seen", window' # Off
               PROVE  dark' + window' <= DebounceTime
    BY <1>1 DEF WindowCovers
  <2>1. window' = window /\ dark + window <= DebounceTime
    BY <1>1 DEF Lingers, WindowCovers
  <2> QED BY <1>2, <2>1, DarkTypes, WatcherAssumption
<1>6. PostedRecent'
  <2> SUFFICES ASSUME posted = "seen", known' # "unknown"
               PROVE  Within(DebounceTime)'
    BY <1>1 DEF PostedRecent
  <2>1. CASE known' = known
    BY <1>3, <2>1, WatcherAssumption DEF Lingers, PostedRecent
  <2>2. CASE known' = report
    <3>1. Within(0)
      BY <2>2, DarkTypes DEF Lingers, CalledFirst, ReportRecent, States
    <3>2. Within(DebounceTime)
      BY <3>1, DarkTypes, WatcherAssumption DEF Within
    <3> QED BY <1>3, <3>2, WatcherAssumption
  <2> QED BY <1>1, <2>1, <2>2
<1> QED BY <1>4, <1>5, <1>6 DEF Lingers

\* A tick takes from the window and from the interval what it adds to the
\* outage.
LEMMA TickKeepsLingers ==
    ASSUME TypeOK, Lingers, Tick
    PROVE  Lingers'
<1> USE DarkTypes, WatcherAssumption
<1>1. /\ UNCHANGED <<phase, report, posted, known>>
      /\ due > 0 /\ due' = due - 1
      /\ IF phase = "none" THEN dark' \in {dark, dark + 1} ELSE dark' = dark
      /\ window # 0 /\ window' = IF window = Off THEN Off ELSE window - 1
  BY DEF Tick, Older
<1>2. \A slack \in Nat : Within(slack) => Within(slack)'
  BY <1>1 DEF Within
<1>3. CalledFirst' /\ NoDarkStream' /\ ReportRecent' /\ PostedRecent'
  BY <1>1, <1>2 DEF Lingers, CalledFirst, NoDarkStream, ReportRecent, PostedRecent
<1>4. WindowCovers'
  <2> SUFFICES ASSUME posted = "seen", window # Off
               PROVE  dark' + window' <= DebounceTime
    BY <1>1 DEF WindowCovers
  <2>1. dark + window <= DebounceTime
    BY DEF Lingers, WindowCovers
  <2> QED BY <1>1, <2>1
<1> QED BY <1>3, <1>4 DEF Lingers

THEOREM LingersHolds == Spec => []Lingers
<1>1. Init => Lingers
  BY DEF Init, Lingers, CalledFirst, NoDarkStream, ReportRecent, WindowCovers,
         PostedRecent
<1>2. ASSUME IInv, Lingers, [Next]_vars PROVE Lingers'
  <2> USE <1>2 DEF IInv
  <2>1. CASE CheckAndRestart /\ History
    BY <2>1, CheckKeepsLingers
  <2>2. ASSUME NEW i \in DOMAIN sinks, NEW decoded \in BOOLEAN,
               Packet(i, decoded) /\ History
        PROVE  Lingers'
    <3>1. phase \in {"play", "streaming"} /\ UNCHANGED due
      BY <2>2 DEF Packet, AfterGettingFrame
    <3>2. CASE decoded
      BY <2>2, <3>1, <3>2, FrameKeepsLingers DEF Packet
    <3>3. CASE ~decoded
      BY <2>2, <3>1, <3>3, QuietKeepsLingers DEF Packet, handlerVars
    <3> QED BY <3>2, <3>3
  <2>3. ASSUME \/ \E t \in Sessions : Alone(DescribeAnswered(t))
               \/ Alone(HandshakeFails)
               \/ Alone(SetupAnswered) \/ Alone(SetupFails)
               \/ Alone(PlayAnswered)
               \/ \E i \in DOMAIN sinks : Alone(SubsessionAfterPlaying(i))
               \/ Alone(StreamWatchdog) \/ Alone(CameraDies)
        PROVE  Lingers'
    <3>1. UNCHANGED <<due, report, posted, known, window>> /\ History
      BY <2>3 DEF Alone, watcherVars, handlerVars
    <3>2. phase = "none" => phase' = "none"
      BY <2>3 DEF Alone, DescribeAnswered, HandshakeFails, SetupAnswered, SetupFails,
                  PlayAnswered, SubsessionAfterPlaying, StreamWatchdog, CameraDies,
                  StopStream
    <3> QED BY <3>1, <3>2, QuietKeepsLingers
  <2>4. CASE (DebounceTask \/ ResponseHandled) /\ History
    BY <2>4, HandlerKeepsLingers
  <2>5. CASE Tick
    BY <2>5, TickKeepsLingers
  <2>6. CASE UNCHANGED vars
    BY <2>6 DEF vars, sourceVars, clientVars, watcherVars, handlerVars, historyVars,
                Lingers, CalledFirst, NoDarkStream, ReportRecent, WindowCovers,
                PostedRecent, Within
  <2> QED BY <2>1, <2>2, <2>3, <2>4, <2>5, <2>6 DEF Next
<1> QED BY <1>1, <1>2, InvariantHolds, PTL DEF Spec

\* The state last posted is recent, with the handler's window in between and for
\* any intervals, timeouts and debounce time; a currentState_ that is unknown
\* already lifts the bound (RestartWatcher.h:22-28, AsyncHassHandler.cxx:56-69,
\* Live555.cxx:637-653).
THEOREM PostedStateIsRecent == Spec => []StateIsRecent
<1>1. IInv /\ Lingers /\ StallBounded => StateIsRecent
  <2> SUFFICES ASSUME IInv, Lingers, StallBounded, posted = "seen", known # "unknown"
               PROVE  \/ phase = "streaming" /\ silent <= 2 * WaitForFrame
                      \/ phase = "none" /\ dark <= DebounceTime + MaxInterval
                      \/ Handshaking /\ dark <= DebounceTime
    BY DEF StateIsRecent
  <2>1. phase \in Phases /\ dark \in Nat /\ due \in Nat
    BY SourceAssumption, WatcherAssumption DEF IInv, TypeOK, SourceTypeOK
  <2>2. CASE phase = "none"
    BY <2>1, <2>2, WatcherAssumption DEF Lingers, PostedRecent, Within
  <2>3. CASE phase = "streaming"
    BY <2>3 DEF StallBounded
  <2>4. CASE phase \notin {"none", "streaming"}
    BY <2>1, <2>4 DEF Lingers, PostedRecent, Within, Handshaking, Phases
  <2> QED BY <2>2, <2>3, <2>4
<1> QED BY <1>1, InvariantHolds, LingersHolds, StallsAreBounded, PTL

-----------------------------------------------------------------------------
(* The watcher over the source implements Supervisor.  What the source does *)
(* by itself moves the service to "up" or "down", or not at all; only the   *)
(* check brings it back to "connecting".                                    *)

\* A step of the source alone moves the service, or does not.
LEMMA SourceStepMoves ==
    ASSUME UNCHANGED <<interval, due, report>>,
           \/ phase' = phase
           \/ phase' = "none"
           \/ phase = "play" /\ phase' = "streaming"
           \/ {phase, phase'} \subseteq {"describe", "setup", "play"}
    PROVE  Watched!Moves \/ UNCHANGED <<Service, report, interval, due>>
BY DEF Service, Watched!Moves

LEMMA CheckImplements ==
    ASSUME IInv, CheckAndRestart
    PROVE  Watched!FindsItWorking \/ Watched!StartsIt
<1>1. CASE IsActive
  <2>1. /\ due = 0 /\ interval' = MinInterval /\ due' = MinInterval
        /\ UNCHANGED <<phase, report>>
    BY <1>1 DEF CheckAndRestart, sourceVars, clientVars
  <2>2. Service # "down" /\ Service' = Service
    BY <1>1, <2>1 DEF IsActive, Service
  <2> QED BY <2>1, <2>2 DEF Watched!FindsItWorking
<1>2. CASE ~IsActive
  <2>1. /\ due = 0 /\ report' = "unknown" /\ due' = interval'
        /\ interval' = IF 2 * interval < MaxInterval THEN 2 * interval ELSE MaxInterval
    BY <1>2 DEF CheckAndRestart, UpdateState_Impl, Doubled
  <2>2. phase' \in {"none", "describe"}
    BY <1>2 DEF CheckAndRestart, StartStream, ClientWaiting, StopStream
  <2>3. Service = "down" /\ Service' \in {"down", "connecting"}
    BY <1>2, <2>2 DEF IsActive, Service
  <2> QED BY <2>1, <2>3 DEF Watched!StartsIt
<1> QED BY <1>1, <1>2

\* A packet is heard of while there is a client, and may be its last.
LEMMA PacketImplements ==
    ASSUME NEW i \in DOMAIN sinks, NEW decoded \in BOOLEAN, Packet(i, decoded)
    PROVE  Watched!Speaks \/ Watched!Moves \/ UNCHANGED <<Service, report, interval, due>>
<1>1. /\ phase \in {"play", "streaming"} /\ phase' \in {phase, "none"}
      /\ UNCHANGED <<interval, due>>
      /\ report' = IF decoded THEN "seen" ELSE report
  BY DEF Packet, AfterGettingFrame, StopStream, UpdateState_Impl
<1>2. CASE decoded
  <2>1. Service # "down" /\ Service' \in {Service, "down"}
    BY <1>1 DEF Service
  <2> QED BY <1>1, <1>2, <2>1 DEF Watched!Speaks
<1>3. CASE ~decoded
  BY <1>1, <1>3, SourceStepMoves
<1> QED BY <1>2, <1>3

\* However the camera answers, the watcher keeps the promise of Supervisor, for
\* any sessions, timeouts and intervals (RestartWatcher.h:13-48, Live555.cxx).
THEOREM ImplementsSupervisor == Spec => Supervised
<1> DEFINE abstractVars == <<Service, report, interval, due>>
<1>1. Init => Watched!Init
  BY DEF Init, Watched!Init, Service
<1>2. ASSUME IInv, [Next]_vars
      PROVE  [Watched!Next]_abstractVars
  <2>1. CASE CheckAndRestart /\ History
    BY <1>2, <2>1, CheckImplements DEF Watched!Next
  <2>2. ASSUME NEW i \in DOMAIN sinks, NEW decoded \in BOOLEAN,
               Packet(i, decoded) /\ History
        PROVE  [Watched!Next]_abstractVars
    BY <2>2, PacketImplements DEF Watched!Next
  <2>3. ASSUME \/ \E t \in Sessions : Alone(DescribeAnswered(t))
               \/ Alone(HandshakeFails)
               \/ Alone(SetupAnswered) \/ Alone(SetupFails)
               \/ Alone(PlayAnswered)
               \/ \E i \in DOMAIN sinks : Alone(SubsessionAfterPlaying(i))
               \/ Alone(StreamWatchdog) \/ Alone(CameraDies)
        PROVE  [Watched!Next]_abstractVars
    <3>1. UNCHANGED <<interval, due, report>>
      BY <2>3 DEF Alone, watcherVars
    <3>2. \/ phase' = phase
          \/ phase' = "none"
          \/ phase = "play" /\ phase' = "streaming"
          \/ {phase, phase'} \subseteq {"describe", "setup", "play"}
      BY <2>3 DEF Alone, DescribeAnswered, HandshakeFails, SetupAnswered, SetupFails,
                  SetupNextSubsession, PlayAnswered, SubsessionAfterPlaying,
                  StreamWatchdog, CameraDies, StopStream
    <3> QED BY <3>1, <3>2, SourceStepMoves DEF Watched!Next
  <2>4. CASE Tick
    <3>1. due > 0 /\ due' = due - 1 /\ UNCHANGED <<phase, report, interval>>
      BY <2>4 DEF Tick
    <3>2. Service' = Service
      BY <3>1 DEF Service
    <3> QED BY <3>1, <3>2 DEF Watched!Next, Watched!TimePasses
  <2>5. CASE (DebounceTask \/ ResponseHandled) /\ History
    BY <2>5 DEF DebounceTask, ResponseHandled, sourceVars, clientVars, watcherVars,
                Service
  <2>6. CASE UNCHANGED vars
    BY <2>6 DEF vars, sourceVars, clientVars, watcherVars, Service
  <2> QED BY <1>2, <2>1, <2>2, <2>3, <2>4, <2>5, <2>6 DEF Next
<1> QED BY <1>1, <1>2, InvariantHolds, PTL DEF Spec, Supervised, Watched!Spec

=============================================================================
