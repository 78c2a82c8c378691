SPECIFICATION FairSpec
CONSTANTS
    Feeds = {f1, f2, f3}
    NoFeed = NoFeed
    Clients = {c1}
    NoClient = NoClient
    NoMarker = NoMarker
    Images = {p, q}
    Empty = Empty
    CharMin <- MCCharMin
    CharLast = 2
INVARIANTS TypeOK OwnStream
PROPERTY NewestIsSeen
