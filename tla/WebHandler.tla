----------------------------- MODULE WebHandler -----------------------------
(***************************************************************************)
(* The web server (src/src/Gui/WebHandler.cxx): the thread that brings     *)
(* frames registers feeds and encodes their images; the listener's thread  *)
(* answers requests and sends the images, again every 33 ms, to the        *)
(* connections whose two bytes of data match the stream's marker.          *)
(*                                                                         *)
(* A step of a thread is what happens between two points where the other   *)
(* can see or change something: a mutex taken or released, the vector      *)
(* jpgBuf swapped, its size read, its bytes read.                          *)
(***************************************************************************)
EXTENDS Integers, FiniteSets

CONSTANTS
    Feeds,      \* the ids of the feeds
    NoFeed,     \* stands for an id in a request that no feed has
    Clients,    \* the connections of browsers
    NoClient,
    Images,     \* tags of images; successive ones of a stream differ
    Empty,      \* a buffer that never held an image
    NoMarker,   \* the marker of a feed that is not in feedIds
    CharMin,    \* the range of char: -128 and 127 where it is signed,
    CharLast    \* 0 and 255 where it is not

Chars == CharMin..CharLast

ASSUME WebAssumption ==
    /\ NoFeed \notin Feeds
    /\ NoClient \notin Clients
    /\ Empty \notin Images
    /\ CharMin \in Int /\ CharLast \in Int
    /\ CharMin <= 0 /\ CharLast >= 1
    /\ NoMarker \notin Chars

\* 'L', the image, and 'M', the detector's model: c->data[0], marker[0].
Kinds == {"L", "M"}
Streams == Kinds \X Feeds

\* char(-1), the marker of a stream that has none yet.
MinusOne == IF CharMin = 0 THEN CharLast ELSE -1

VARIABLES
    feedMarker,     \* the marker of the next feed
    feedIds,        \* feedIds: the marker of each feed
    marker,         \* marker[1] of each stream's broadcast data
    jpgBuf,         \* what the vector jpgBuf of each stream holds
    writer,         \* where operator() is, in the frames' thread
    feed,           \* the feed it was called for, NoFeed outside it
    data,           \* c->data of each connection: kind and marker
    asked,          \* the stream each connection asked for last
    seen,           \* the image it was sent last since then
    sendingTo,      \* the connection BroadcastMjpegFrame is sending to
    sent,           \* the stream it is sending
    header,         \* the image whose size was sent
    from            \* which vector owns the bytes it reads: see ReadBytes

feedVars == <<feedMarker, feedIds, marker>>
writerVars == <<writer, feed>>
clientVars == <<data, asked, seen>>
sendVars == <<sendingTo, sent, header, from>>
vars == <<feedVars, jpgBuf, writerVars, clientVars, sendVars>>

NoStream == <<"-", NoFeed>>

\* Start: the listener runs, without feeds, before App builds the first.
Init ==
    /\ feedMarker = 1
    /\ feedIds = [f \in Feeds |-> NoMarker]
    /\ marker = [s \in Streams |-> MinusOne]
    /\ jpgBuf = [s \in Streams |-> Empty]
    /\ writer = "idle" /\ feed = NoFeed
    /\ data = [c \in Clients |-> [kind |-> "-", marker |-> 0]]
    /\ asked = [c \in Clients |-> NoStream]
    /\ seen = [c \in Clients |-> Empty]
    /\ sendingTo = NoClient /\ sent = NoStream /\ header = Empty /\ from = "nothing"

-----------------------------------------------------------------------------
(* The frames' thread: operator().                                         *)

\* The listener holds, shared, the mutex that the broadcast data points to: in
\* FeedImageData's constructor image and model have each other's.
BroadcastMutex(kind) == IF kind = "L" THEN "M" ELSE "L"

Sending == sendingTo # NoClient
ListenerHolds(kind, f) ==
    Sending /\ sent[2] = f /\ BroadcastMutex(sent[1]) = kind

\* operator() for a feed that is not known: under feedMappingMtx it and its
\* data are inserted. When the counter has wrapped the call returns, and so each
\* later one for the feed.
NewFeed(f) ==
    /\ writer = "idle" /\ feedIds[f] = NoMarker
    /\ feedMarker >= 0
    /\ feedIds' = [feedIds EXCEPT ![f] = feedMarker]
    /\ writer' = "registering" /\ feed' = f
    /\ UNCHANGED <<feedMarker, marker, jpgBuf, clientVars, sendVars>>

\* MUTANT: the counter is wider than a marker.
IncrementedWide(char) == char + 1

\* ++feedMarker, of an atomic char, wraps.
Incremented(char) == IF char = CharLast THEN CharMin ELSE char + 1

\* MUTANT: the counter stays where it is.
RegisterWithoutIncrement ==
    /\ writer = "registering" /\ writer' = "known"
    /\ marker' = [s \in Streams |-> IF s[2] = feed THEN feedIds[feed] ELSE marker[s]]
    /\ UNCHANGED <<feed, feedMarker, feedIds, jpgBuf, clientVars, sendVars>>

\* MUTANT: only one of the two streams gets its marker.
RegisterModelOnly ==
    /\ writer = "registering" /\ writer' = "known"
    /\ feedMarker' = Incremented(feedMarker)
    /\ marker' = [marker EXCEPT ![<<"M", feed>>] = feedIds[feed]]
    /\ UNCHANGED <<feed, feedIds, jpgBuf, clientVars, sendVars>>

\* The rest of the registration, before feedMappingMtx is released.
Register ==
    /\ writer = "registering" /\ writer' = "known"
    /\ feedMarker' = Incremented(feedMarker)
    /\ marker' = [s \in Streams |-> IF s[2] = feed THEN feedIds[feed] ELSE marker[s]]
    /\ UNCHANGED <<feed, feedIds, jpgBuf, clientVars, sendVars>>

KnownFeed(f) ==
    /\ writer = "idle" /\ feedIds[f] # NoMarker
    /\ feed' = f /\ writer' = "known"
    /\ UNCHANGED <<feedVars, jpgBuf, clientVars, sendVars>>

\* The frame is empty, or drawing throws.
NothingToShow ==
    /\ writer = "known" /\ writer' = "idle" /\ feed' = NoFeed
    /\ UNCHANGED <<feedVars, jpgBuf, clientVars, sendVars>>

EncodingPhase(kind) == IF kind = "L" THEN "encodingImage" ELSE "encodingModel"

\* The frames' thread holds the mutex of stream s and writes its image.
Encoding(s) == writer = EncodingPhase(s[1]) /\ feed = s[2]

\* imencode begins, under imageMtx_ or modelMtx_. It writes to imageJpeg_ or
\* modelJpeg_, whose contents matter to nobody but a listener that was still
\* reading them.
Encode(kind) ==
    /\ writer = IF kind = "L" THEN "known" ELSE "imageDone"
    /\ ~ListenerHolds(kind, feed)
    /\ writer' = EncodingPhase(kind)
    /\ UNCHANGED <<feed, jpgBuf, feedVars, clientVars, sendVars>>

\* The bytes the listener may be reading go with the vectors' contents.
Moved(s) == IF sent # s THEN from
            ELSE CASE from = "jpgBuf" -> "Jpeg_" [] from = "Jpeg_" -> "jpgBuf"
                   [] from = "nothing" -> "nothing"

\* imencode ends with another image, and the vectors are swapped.
Swap(kind, image) ==
    /\ writer = EncodingPhase(kind)
    /\ LET s == <<kind, feed>> IN
          /\ image # jpgBuf[s]
          /\ jpgBuf' = [jpgBuf EXCEPT ![s] = image]
          /\ from' = Moved(s)
    /\ IF kind = "L" THEN writer' = "imageDone" /\ UNCHANGED feed
                     ELSE writer' = "idle" /\ feed' = NoFeed
    /\ UNCHANGED <<feedVars, clientVars, sendingTo, sent, header>>

\* imencode throws.
EncodeFails(kind) ==
    /\ writer = EncodingPhase(kind)
    /\ writer' = "idle" /\ feed' = NoFeed
    /\ UNCHANGED <<feedVars, jpgBuf, clientVars, sendVars>>

-----------------------------------------------------------------------------
(* The listener's thread.                                                  *)

\* SafeGetFeedId, while nobody holds feedMappingMtx.
SafeGetFeedId(f) == IF f = NoFeed \/ feedIds[f] = NoMarker THEN 0 ELSE feedIds[f]

\* EventHandler, a request for /media/live/<f> or /media/model/<f>.
Request(c, kind, f) ==
    /\ ~Sending /\ writer # "registering"
    /\ data' = [data EXCEPT ![c] = [kind |-> kind, marker |-> SafeGetFeedId(f)]]
    /\ asked' = [asked EXCEPT ![c] = <<kind, f>>]
    /\ seen' = [seen EXCEPT ![c] = Empty]
    /\ UNCHANGED <<feedVars, jpgBuf, writerVars, sendVars>>

\* EventHandler, a request for /websocket: only the kind is set.
WebSocket(c) ==
    /\ ~Sending
    /\ data' = [data EXCEPT ![c] = [kind |-> "W", marker |-> data[c].marker]]
    /\ asked' = [asked EXCEPT ![c] = NoStream]
    /\ seen' = [seen EXCEPT ![c] = Empty]
    /\ UNCHANGED <<feedVars, jpgBuf, writerVars, sendVars>>

\* The connection is closed; another may take its place.
Close(c) ==
    /\ ~Sending
    /\ data' = [data EXCEPT ![c] = [kind |-> "-", marker |-> 0]]
    /\ asked' = [asked EXCEPT ![c] = NoStream]
    /\ seen' = [seen EXCEPT ![c] = Empty]
    /\ UNCHANGED <<feedVars, jpgBuf, writerVars, sendVars>>

\* BroadcastMjpegFrame finds a match, takes the mutex, and sends the size.
BeginSend(c, s) ==
    /\ ~Sending
    /\ data[c] = [kind |-> s[1], marker |-> marker[s]]
    /\ jpgBuf[s] # Empty
    /\ ~Encoding(<<BroadcastMutex(s[1]), s[2]>>)
    /\ sendingTo' = c /\ sent' = s /\ header' = jpgBuf[s] /\ from' = "nothing"
    /\ UNCHANGED <<feedVars, jpgBuf, writerVars, clientVars>>

\* mg_send is given the bytes of jpgBuf, and reads them.
ReadBytes ==
    /\ Sending /\ from = "nothing"
    /\ from' = "jpgBuf"
    /\ UNCHANGED <<feedVars, jpgBuf, writerVars, clientVars,
                   sendingTo, sent, header>>

\* The bytes have been copied, and the mutex is released.
EndSend ==
    /\ Sending /\ from # "nothing"
    /\ seen' = [seen EXCEPT ![sendingTo] = header]
    /\ sendingTo' = NoClient /\ sent' = NoStream /\ header' = Empty /\ from' = "nothing"
    /\ UNCHANGED <<feedVars, jpgBuf, writerVars, data, asked>>

-----------------------------------------------------------------------------
FramesThread ==
    \/ \E f \in Feeds : NewFeed(f) \/ KnownFeed(f)
    \/ Register \/ NothingToShow
    \/ \E kind \in Kinds : Encode(kind) \/ EncodeFails(kind)
    \/ \E kind \in Kinds, image \in Images : Swap(kind, image)

Listener ==
    \/ \E c \in Clients, kind \in Kinds, f \in Feeds \cup {NoFeed} : Request(c, kind, f)
    \/ \E c \in Clients : WebSocket(c) \/ Close(c)
    \/ \E c \in Clients, s \in Streams : BeginSend(c, s)
    \/ ReadBytes \/ EndSend

Next == FramesThread \/ Listener

Spec == Init /\ [][Next]_vars

\* A registration and an encoding come to their end, and the listener's passes, one
\* every 33 ms, go through all streams and connections; the frames' thread
\* does not keep it for ever from a mutex that is free again and again, since
\* a shared_mutex of glibc prefers readers.
FairSpec ==
    /\ Spec
    /\ WF_vars(Register)
    /\ WF_vars(\E kind \in Kinds :
                  EncodeFails(kind) \/ \E image \in Images : Swap(kind, image))
    /\ \A c \in Clients : SF_vars(\E s \in Streams : BeginSend(c, s))
    /\ WF_vars(ReadBytes \/ EndSend)

-----------------------------------------------------------------------------
(* Properties.                                                             *)

\* Type correctness.
TypeOK ==
    /\ feedMarker \in Chars
    /\ feedIds \in [Feeds -> Chars \cup {NoMarker}]
    /\ marker \in [Streams -> Chars]
    /\ jpgBuf \in [Streams -> Images \cup {Empty}]
    /\ writer \in {"idle", "registering", "known", "encodingImage", "imageDone",
                   "encodingModel"}
    /\ feed \in Feeds \cup {NoFeed}
    /\ data \in [Clients -> [kind : Kinds \cup {"-", "W"}, marker : Chars]]
    /\ asked \in [Clients -> (Kinds \X (Feeds \cup {NoFeed})) \cup {NoStream}]
    /\ seen \in [Clients -> Images \cup {Empty}]
    /\ sendingTo \in Clients \cup {NoClient}
    /\ sent \in Streams \cup {NoStream}
    /\ header \in Images \cup {Empty}
    /\ from \in {"nothing", "jpgBuf", "Jpeg_"}

\* A viewer is sent only the stream it asked for last: the bytes that
\* identify a stream (WebHandler.cxx:69) are of one stream only, although they
\* are compared while another thread hands them out, and the answer to an
\* unknown feed matches none.
OwnStream == Sending => asked[sendingTo] = sent

\* An image that lasts reaches every viewer of its stream, if its feed was
\* known when the viewer asked: no viewer waits for ever, by a marker that was
\* not set or a mutex that is not released, while there is an image to see.
Waiting(c, image) ==
    /\ asked[c] \in Streams /\ data[c].marker # 0
    /\ jpgBuf[asked[c]] = image /\ seen[c] # image

NewestIsSeen ==
    \A c \in Clients : \A image \in Images : []<>~Waiting(c, image)

\* A counter that wrapped has no marker left that no feed has: a signed one is
\* then refused, an unsigned one must not be asked for another.
CounterFits ==
    CharMin < 0 \/ (IsFiniteSet(Feeds) /\ Cardinality(Feeds) <= CharLast)

\* The rest of the inductive invariant where CounterFits. A feed in the maps has
\* a marker that was handed out, another than any other feed has; its streams
\* have it too, once it is registered, and until then no image. No marker is
\* left out.
Registered(f) ==
    feedIds[f] # NoMarker /\ ~(writer = "registering" /\ feed = f)

Registering ==
    /\ writer = "idle" <=> feed = NoFeed
    /\ writer # "idle" => feedIds[feed] # NoMarker
    /\ writer = "registering" => feedMarker = feedIds[feed]

MarkersHandedOut ==
    /\ feedMarker \in 1..CharLast \cup {CharMin}
    /\ \A f \in Feeds : feedIds[f] # NoMarker => feedIds[f] \in 1..CharLast
    /\ \A f \in Feeds : Registered(f) /\ feedMarker > 0 => feedIds[f] < feedMarker
    /\ \A m \in 1..CharLast : (feedMarker > 0 => m < feedMarker) =>
          \E f \in Feeds : Registered(f) /\ feedIds[f] = m

MarkersDistinct ==
    \A f, g \in Feeds :
        f # g /\ feedIds[f] # NoMarker => feedIds[f] # feedIds[g]

StreamsMarked ==
    \A s \in Streams :
        /\ Registered(s[2]) => marker[s] = feedIds[s[2]]
        /\ ~Registered(s[2]) => jpgBuf[s] = Empty

\* What a connection has asked for is what its data say, or its feed was unknown.
ConnectionsMarked ==
    \A c \in Clients :
        /\ asked[c] = NoStream => data[c].kind \notin Kinds
        /\ asked[c] # NoStream =>
              /\ data[c].kind = asked[c][1]
              /\ \/ data[c].marker = 0
                 \/ /\ asked[c][2] \in Feeds
                    /\ Registered(asked[c][2])
                    /\ data[c].marker = feedIds[asked[c][2]]

IInv ==
    /\ TypeOK
    /\ Registering
    /\ MarkersHandedOut
    /\ MarkersDistinct
    /\ StreamsMarked
    /\ ConnectionsMarked
    /\ OwnStream

\* "This frontend shows the current feed image": what is sent to a viewer is
\* one image, with its own size and its own bytes.
ImagesWhole ==
    /\ from = "jpgBuf" => jpgBuf[sent] = header
    /\ from = "Jpeg_" => ~Encoding(sent)

=============================================================================
