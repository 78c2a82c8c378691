-------------------------- MODULE MCRestartWatcher --------------------------
(* Instances of RestartWatcher for TLC.                                    *)
EXTENDS RestartWatcher

\* One track, two of which one has no sink, two with sinks, one that cannot be
\* initiated before one that can, and the sessions that yield no frames.
MCSessions == {<<>>, <<"h264">>, <<"other">>, <<"broken", "h264">>,
               <<"h264", "other">>, <<"h264", "h264">>}

\* The sessions of the runs with liveness.
MCFewSessions == {<<"other">>, <<"h264">>, <<"h264", "h264">>}

MCFrameLimits == {2, Unlimited}
MCUnlimited == {Unlimited}

MCAnyPhase == {"describe", "setup", "play", "streaming"}

=============================================================================
