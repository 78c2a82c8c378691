SPECIFICATION Spec
CONSTANTS
    Feeds = {f1, f2}
    NoFeed = NoFeed
    Clients = {c1}
    NoClient = NoClient
    NoMarker = NoMarker
    Images = {p, q}
    Empty = Empty
    CharMin <- MCCharMin
    CharLast = 2
INVARIANT ImagesWhole
