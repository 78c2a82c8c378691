SPECIFICATION Spec
CONSTANTS
    Handlers = {h1, h2}
    Fds = {s1, s2}
    Contexts = {c1, c2, c3}
    Tokens = {t1, t2}
    MaxTimeout = 2
    Rtsp = Rtsp
    Nobody = Nobody
    Null = Null
SYMMETRY Symmetry
INVARIANTS TypeOK WatchesAgree TimerServed
PROPERTY ServesLibcurl
