-------------------------- MODULE WebHandler_proofs -------------------------
(* Theorems about WebHandler.                                              *)
EXTENDS WebHandler, TLAPS, FiniteSetTheorems

\* Types and what writer says about feed go together: a feed that is being
\* registered has a marker to give to its streams.
LEMMA TypesInitially == Init => TypeOK /\ Registering
  BY WebAssumption
  DEF Init, TypeOK, Registering, Streams, Kinds, NoStream, MinusOne, Chars

LEMMA TypesByFramesThread ==
  ASSUME TypeOK, Registering, FramesThread
  PROVE  TypeOK' /\ Registering'
<1> USE WebAssumption DEF feedVars, writerVars, clientVars, sendVars
<1>1. ASSUME NEW f \in Feeds, NewFeed(f) PROVE TypeOK' /\ Registering'
  BY <1>1 DEF NewFeed, TypeOK, Registering, Chars
<1>2. ASSUME NEW f \in Feeds, KnownFeed(f) PROVE TypeOK' /\ Registering'
  BY <1>2 DEF KnownFeed, TypeOK, Registering
<1>3. ASSUME Register PROVE TypeOK' /\ Registering'
  <2>1. feed \in Feeds /\ feedIds[feed] \in Chars
    BY <1>3 DEF Register, TypeOK, Registering
  <2>2. marker' \in [Streams -> Chars]
    BY <1>3, <2>1 DEF Register, TypeOK, Streams
  <2>3. feedMarker' \in Chars
    BY <1>3 DEF Register, TypeOK, Incremented, Chars
  <2> QED  BY <1>3, <2>1, <2>2, <2>3 DEF Register, TypeOK, Registering
<1>4. ASSUME NothingToShow PROVE TypeOK' /\ Registering'
  BY <1>4 DEF NothingToShow, TypeOK, Registering
<1>5. ASSUME NEW kind \in Kinds, Encode(kind) PROVE TypeOK' /\ Registering'
  BY <1>5 DEF Encode, EncodingPhase, TypeOK, Registering
<1>6. ASSUME NEW kind \in Kinds, EncodeFails(kind) PROVE TypeOK' /\ Registering'
  BY <1>6 DEF EncodeFails, EncodingPhase, TypeOK, Registering
<1>7. ASSUME NEW kind \in Kinds, NEW image \in Images, Swap(kind, image)
      PROVE  TypeOK' /\ Registering'
  <2>1. from' \in {"nothing", "jpgBuf", "Jpeg_"}
    BY <1>7 DEF Swap, Moved, TypeOK
  <2>2. jpgBuf' \in [Streams -> Images \cup {Empty}]
    BY <1>7 DEF Swap, TypeOK
  <2> QED  BY <1>7, <2>1, <2>2 DEF Swap, EncodingPhase, TypeOK, Registering
<1> QED
  BY <1>1, <1>2, <1>3, <1>4, <1>5, <1>6, <1>7 DEF FramesThread

LEMMA TypesByListener ==
  ASSUME TypeOK, Registering, Listener
  PROVE  TypeOK' /\ Registering'
<1> USE WebAssumption DEF feedVars, writerVars, clientVars, sendVars
<1>1. ASSUME NEW c \in Clients, NEW kind \in Kinds, NEW f \in Feeds \cup {NoFeed},
             Request(c, kind, f)
      PROVE  TypeOK' /\ Registering'
  <2>1. SafeGetFeedId(f) \in Chars
    BY DEF SafeGetFeedId, TypeOK, Chars
  <2>2. data' \in [Clients -> [kind : Kinds \cup {"-", "W"}, marker : Chars]]
    BY <1>1, <2>1 DEF Request, TypeOK
  <2> QED  BY <1>1, <2>2 DEF Request, TypeOK, Registering
<1>2. ASSUME NEW c \in Clients, WebSocket(c) PROVE TypeOK' /\ Registering'
  <2>1. data' \in [Clients -> [kind : Kinds \cup {"-", "W"}, marker : Chars]]
    BY <1>2 DEF WebSocket, TypeOK
  <2> QED  BY <1>2, <2>1 DEF WebSocket, TypeOK, Registering
<1>3. ASSUME NEW c \in Clients, Close(c) PROVE TypeOK' /\ Registering'
  <2>1. data' \in [Clients -> [kind : Kinds \cup {"-", "W"}, marker : Chars]]
    BY <1>3 DEF Close, TypeOK, Chars
  <2> QED  BY <1>3, <2>1 DEF Close, TypeOK, Registering
<1>4. ASSUME NEW c \in Clients, NEW s \in Streams, BeginSend(c, s)
      PROVE  TypeOK' /\ Registering'
  BY <1>4 DEF BeginSend, TypeOK, Registering
<1>5. ASSUME ReadBytes PROVE TypeOK' /\ Registering'
  BY <1>5 DEF ReadBytes, TypeOK, Registering
<1>6. ASSUME EndSend PROVE TypeOK' /\ Registering'
  BY <1>6 DEF EndSend, Sending, TypeOK, Registering
<1> QED
  BY <1>1, <1>2, <1>3, <1>4, <1>5, <1>6 DEF Listener

\* Type correctness, for any feeds, connections and width of a char.
THEOREM TypeCorrect == Spec => []TypeOK
<1>1. TypeOK /\ Registering /\ [Next]_vars => TypeOK' /\ Registering'
  <2>1. ASSUME TypeOK, Registering, UNCHANGED vars PROVE TypeOK' /\ Registering'
    BY <2>1 DEF vars, feedVars, writerVars, clientVars, sendVars, TypeOK, Registering
  <2> QED  BY <2>1, TypesByFramesThread, TypesByListener DEF Next
<1> QED
  BY TypesInitially, <1>1, PTL DEF Spec

-----------------------------------------------------------------------------
(* The streams' markers.                                                   *)

\* What the two threads leave to each other.
Markers == MarkersHandedOut /\ MarkersDistinct /\ StreamsMarked

LEMMA MarkersInitially ==
  ASSUME CounterFits, Init
  PROVE  Markers /\ ConnectionsMarked /\ OwnStream
BY WebAssumption
DEF Init, Markers, MarkersHandedOut, MarkersDistinct, StreamsMarked, Registered,
    ConnectionsMarked, OwnStream, Sending, Streams, Kinds, NoStream

\* A step of the frames' thread that registers nothing leaves the markers and
\* the connections alone.
LEMMA MarkersKept ==
  ASSUME TypeOK, Markers, ConnectionsMarked, OwnStream,
         UNCHANGED <<feedVars, data, asked, sendingTo, sent>>,
         \A f \in Feeds : feedIds[f] # NoMarker => Registered(f),
         writer' # "registering",
         \A s \in Streams : jpgBuf'[s] # jpgBuf[s] => feedIds[s[2]] # NoMarker
  PROVE  Markers' /\ ConnectionsMarked' /\ OwnStream'
<1> USE DEF feedVars
<1>1. \A f \in Feeds : Registered(f)' <=> Registered(f)
  BY DEF Registered
<1>2. \A s \in Streams : s[2] \in Feeds
  BY DEF Streams
<1>3. MarkersHandedOut' /\ MarkersDistinct'
  BY <1>1 DEF Markers, MarkersHandedOut, MarkersDistinct
<1>4. StreamsMarked'
  BY <1>1, <1>2 DEF Markers, StreamsMarked
<1>5. ConnectionsMarked'
  BY <1>1 DEF ConnectionsMarked
<1>6. OwnStream'
  BY DEF OwnStream, Sending
<1> QED
  BY <1>3, <1>4, <1>5, <1>6 DEF Markers

\* A counter that is not refused is beyond the markers of all feeds, if a char
\* counts them: an unsigned one is 0 again only when each marker has a feed, and
\* then there is no feed left to ask for one.
LEMMA CounterHasRoom ==
  ASSUME CounterFits, TypeOK, Markers, NEW f \in Feeds, NewFeed(f)
  PROVE  feedMarker \in 1..CharLast
<1> SUFFICES ASSUME feedMarker \notin 1..CharLast PROVE FALSE
  OBVIOUS
<1>1. feedMarker = CharMin /\ feedMarker >= 0 /\ feedIds[f] = NoMarker
  BY DEF NewFeed, Markers, MarkersHandedOut
<1>2. ~(CharMin < 0) /\ ~(feedMarker > 0)
  BY <1>1, WebAssumption
<1>3. IsFiniteSet(Feeds) /\ Cardinality(Feeds) <= CharLast
  BY <1>2 DEF CounterFits
<1> DEFINE Others == Feeds \ {f}
           marked == [g \in Others |->
                        IF feedIds[g] \in 1..CharLast THEN feedIds[g] ELSE 1]
<1>4. /\ IsFiniteSet(Others) /\ Cardinality(Others) = Cardinality(Feeds) - 1
      /\ Cardinality(Feeds) \in Nat
  <2>1. Feeds = Others \cup {f} /\ f \notin Others
    OBVIOUS
  <2>2. IsFiniteSet(Others) /\ Cardinality(Others) \in Nat
    BY <1>3, FS_Subset, FS_CardinalityType
  <2>3. Cardinality(Others \cup {f}) = Cardinality(Others) + 1
    BY <2>1, <2>2, FS_AddElement
  <2> QED  BY <2>1, <2>2, <2>3
<1>5. marked \in Surjection(Others, 1..CharLast)
  <2>1. 1 \in 1..CharLast
    BY WebAssumption
  <2>2. marked \in [Others -> 1..CharLast]
    BY <2>1
  <2>3. ASSUME NEW m \in 1..CharLast PROVE \E g \in Others : marked[g] = m
    <3>1. PICK g \in Feeds : Registered(g) /\ feedIds[g] = m
      BY <1>2 DEF Markers, MarkersHandedOut
    <3>2. g # f
      BY <1>1, <3>1 DEF Registered
    <3> QED  BY <3>1, <3>2
  <2> QED  BY <2>2, <2>3 DEF Surjection
<1>6. Cardinality(1..CharLast) = CharLast
  <2>1. \A n \in Nat : Cardinality(1..n) = n
    BY FS_Interval
  <2> QED  BY <2>1, WebAssumption
<1>7. Cardinality(1..CharLast) <= Cardinality(Others)
  <2> HIDE DEF marked, Others
  <2> QED  BY <1>4, <1>5, FS_Surjection
<1> QED
  BY <1>3, <1>4, <1>6, <1>7, WebAssumption

\* A new feed takes a marker that no feed has.
LEMMA MarkersOfNewFeed ==
  ASSUME CounterFits, TypeOK, Registering, Markers, ConnectionsMarked, OwnStream,
         NEW f \in Feeds, NewFeed(f)
  PROVE  Markers' /\ ConnectionsMarked' /\ OwnStream'
<1> USE WebAssumption DEF feedVars, clientVars, sendVars
<1>1. /\ feedIds' = [feedIds EXCEPT ![f] = feedMarker]
      /\ feedIds \in [Feeds -> Chars \cup {NoMarker}]
      /\ feedIds[f] = NoMarker
      /\ UNCHANGED <<feedMarker, marker, jpgBuf, data, asked, sendingTo>>
      /\ writer = "idle" /\ writer' = "registering" /\ feed' = f
  BY DEF NewFeed, TypeOK
<1>2. feedMarker \in 1..CharLast
  BY CounterHasRoom
<1>3. \A g \in Feeds : Registered(g)' <=> Registered(g)
  BY <1>1 DEF Registered
<1>4. \A g \in Feeds : g # f => feedIds'[g] = feedIds[g]
  BY <1>1
<1>5. \A g \in Feeds : Registered(g) => g # f /\ feedIds[g] < feedMarker
  BY <1>1, <1>2 DEF Registered, Markers, MarkersHandedOut
<1>6. MarkersHandedOut'
  <2>1. ASSUME NEW m \in 1..CharLast, feedMarker > 0 => m < feedMarker
        PROVE  \E g \in Feeds : Registered(g)' /\ feedIds'[g] = m
    <3>1. PICK g \in Feeds : Registered(g) /\ feedIds[g] = m
      BY <2>1 DEF Markers, MarkersHandedOut
    <3> QED  BY <3>1, <1>3, <1>4, <1>5
  <2>2. /\ \A g \in Feeds : feedIds'[g] # NoMarker => feedIds'[g] \in 1..CharLast
        /\ \A g \in Feeds : Registered(g)' => feedIds'[g] < feedMarker
        /\ feedMarker' = feedMarker
    BY <1>1, <1>2, <1>3, <1>4, <1>5 DEF Markers, MarkersHandedOut
  <2> QED  BY <1>2, <2>1, <2>2 DEF MarkersHandedOut
<1>7. MarkersDistinct'
  <2> SUFFICES ASSUME NEW g \in Feeds, NEW h \in Feeds, g # h,
                      feedIds'[g] # NoMarker
               PROVE  feedIds'[g] # feedIds'[h]
    BY DEF MarkersDistinct
  <2>1. CASE g = f
    <3>1. feedIds'[g] = feedMarker /\ feedIds'[h] = feedIds[h]
      BY <2>1, <1>1, <1>4
    <3>2. CASE feedIds[h] = NoMarker
      BY <3>1, <3>2, <1>2 DEF Chars
    <3>3. CASE feedIds[h] # NoMarker
      <4>1. Registered(h)
        BY <3>3, <1>1 DEF Registered
      <4>2. feedIds[h] \in 1..CharLast
        BY <3>3 DEF Markers, MarkersHandedOut
      <4> QED  BY <3>1, <4>1, <4>2, <1>2, <1>5
    <3> QED  BY <3>2, <3>3
  <2>2. CASE h = f
    <3>1. feedIds'[h] = feedMarker /\ feedIds'[g] = feedIds[g] /\ g # f
      BY <2>2, <1>1, <1>4
    <3>2. Registered(g)
      BY <3>1, <1>1 DEF Registered
    <3>3. feedIds[g] \in 1..CharLast
      BY <3>1 DEF Markers, MarkersHandedOut
    <3> QED  BY <3>1, <3>2, <3>3, <1>2, <1>5
  <2>3. CASE g # f /\ h # f
    BY <2>3, <1>4 DEF Markers, MarkersDistinct
  <2> QED  BY <2>1, <2>2, <2>3
<1>8. StreamsMarked'
  <2>1. \A s \in Streams : s[2] \in Feeds
    BY DEF Streams
  <2> QED  BY <2>1, <1>1, <1>3, <1>4, <1>5 DEF Markers, StreamsMarked
<1>9. ConnectionsMarked'
  BY <1>1, <1>3, <1>4, <1>5 DEF ConnectionsMarked
<1>10. OwnStream'
  BY DEF NewFeed, OwnStream, Sending
<1> QED
  BY <1>6, <1>7, <1>8, <1>9, <1>10 DEF Markers

\* Its streams take it over, and the counter goes on, or wraps for good.
LEMMA MarkersOfRegister ==
  ASSUME CounterFits, TypeOK, Registering, Markers, ConnectionsMarked, OwnStream,
         Register
  PROVE  Markers' /\ ConnectionsMarked' /\ OwnStream'
<1> USE WebAssumption DEF feedVars, clientVars, sendVars
<1>1. /\ feed \in Feeds /\ feedIds[feed] = feedMarker /\ feedIds[feed] # NoMarker
      /\ feedMarker' = Incremented(feedMarker)
      /\ UNCHANGED <<feed, feedIds, jpgBuf, data, asked, sendingTo, sent>>
      /\ writer = "registering" /\ writer' = "known"
      /\ \A s \in Streams :
            marker'[s] = IF s[2] = feed THEN feedIds[feed] ELSE marker[s]
  BY DEF Register, Registering, TypeOK
<1>2. feedMarker \in 1..CharLast
  BY <1>1 DEF Markers, MarkersHandedOut
<1>3. feedMarker' = CharMin \/ (feedMarker' = feedMarker + 1 /\ feedMarker' \in 1..CharLast)
  BY <1>1, <1>2 DEF Incremented
<1>4. \A g \in Feeds : Registered(g)' <=> feedIds[g] # NoMarker
  BY <1>1 DEF Registered
<1>5. \A g \in Feeds : g # feed => (Registered(g)' <=> Registered(g))
  BY <1>1 DEF Registered
<1>6. MarkersHandedOut'
  <2>1. ASSUME NEW g \in Feeds, Registered(g)', feedMarker' > 0
        PROVE  feedIds[g] < feedMarker'
    <3>1. feedMarker' = feedMarker + 1
      BY <2>1, <1>3
    <3>2. CASE g = feed
      BY <3>1, <3>2, <1>1, <1>2
    <3>3. CASE g # feed
      <4>1. Registered(g) /\ feedIds[g] # NoMarker
        BY <2>1, <3>3, <1>5, <1>4
      <4>2. feedIds[g] \in 1..CharLast /\ feedIds[g] < feedMarker
        BY <4>1, <1>2 DEF Markers, MarkersHandedOut
      <4> QED  BY <3>1, <4>2, <1>2
    <3> QED  BY <3>2, <3>3
  <2>2. \A g \in Feeds : feedIds'[g] # NoMarker => feedIds'[g] \in 1..CharLast
    BY <1>1 DEF Markers, MarkersHandedOut
  <2>3. ASSUME NEW m \in 1..CharLast, feedMarker' > 0 => m < feedMarker'
        PROVE  \E g \in Feeds : Registered(g)' /\ feedIds'[g] = m
    <3>1. m \in Int /\ (m = feedMarker \/ m < feedMarker)
      BY <2>3, <1>1, <1>2, <1>3, WebAssumption DEF Incremented
    <3>2. CASE m = feedMarker
      BY <3>2, <1>1, <1>4
    <3>3. CASE m < feedMarker
      <4>1. PICK g \in Feeds : Registered(g) /\ feedIds[g] = m
        BY <3>3 DEF Markers, MarkersHandedOut
      <4> QED  BY <4>1, <1>1, <1>4 DEF Registered
    <3> QED  BY <3>1, <3>2, <3>3
  <2> QED  BY <2>1, <2>2, <2>3, <1>1, <1>3 DEF MarkersHandedOut
<1>7. MarkersDistinct'
  BY <1>1 DEF Markers, MarkersDistinct
<1>8. StreamsMarked'
  <2> SUFFICES ASSUME NEW s \in Streams
               PROVE  /\ Registered(s[2])' => marker'[s] = feedIds[s[2]]
                      /\ ~Registered(s[2])' => jpgBuf[s] = Empty
    BY <1>1 DEF StreamsMarked
  <2>1. s[2] \in Feeds
    BY DEF Streams
  <2>2. CASE s[2] = feed
    BY <2>1, <2>2, <1>1, <1>4
  <2>3. CASE s[2] # feed
    BY <2>1, <2>3, <1>1, <1>5 DEF Markers, StreamsMarked
  <2> QED  BY <2>2, <2>3
<1>9. ConnectionsMarked'
  <2>1. \A g \in Feeds : Registered(g) => Registered(g)'
    BY <1>4 DEF Registered
  <2> QED  BY <2>1, <1>1 DEF ConnectionsMarked
<1>10. OwnStream'
  BY <1>1 DEF OwnStream, Sending
<1> QED
  BY <1>6, <1>7, <1>8, <1>9, <1>10 DEF Markers

LEMMA MarkersByFramesThread ==
  ASSUME CounterFits, TypeOK, Registering, Markers, ConnectionsMarked, OwnStream,
         FramesThread
  PROVE  Markers' /\ ConnectionsMarked' /\ OwnStream'
<1> USE DEF feedVars, clientVars, sendVars
<1> DEFINE Settled == \A f \in Feeds : feedIds[f] # NoMarker => Registered(f)
<1>1. ASSUME NEW f \in Feeds, KnownFeed(f)
      PROVE  Markers' /\ ConnectionsMarked' /\ OwnStream'
  <2>1. Settled
    BY <1>1 DEF KnownFeed, Registered
  <2> QED  BY <1>1, <2>1, MarkersKept DEF KnownFeed
<1>2. ASSUME NothingToShow PROVE Markers' /\ ConnectionsMarked' /\ OwnStream'
  <2>1. Settled
    BY <1>2 DEF NothingToShow, Registered
  <2> QED  BY <1>2, <2>1, MarkersKept DEF NothingToShow
<1>3. ASSUME NEW kind \in Kinds, Encode(kind)
      PROVE  Markers' /\ ConnectionsMarked' /\ OwnStream'
  <2>1. Settled
    BY <1>3 DEF Encode, Registered
  <2>2. writer' # "registering"
    BY <1>3 DEF Encode, EncodingPhase
  <2> QED  BY <1>3, <2>1, <2>2, MarkersKept DEF Encode
<1>4. ASSUME NEW kind \in Kinds, EncodeFails(kind)
      PROVE  Markers' /\ ConnectionsMarked' /\ OwnStream'
  <2>1. Settled
    BY <1>4 DEF EncodeFails, EncodingPhase, Registered
  <2> QED  BY <1>4, <2>1, MarkersKept DEF EncodeFails
<1>5. ASSUME NEW kind \in Kinds, NEW image \in Images, Swap(kind, image)
      PROVE  Markers' /\ ConnectionsMarked' /\ OwnStream'
  <2>1. Settled
    BY <1>5 DEF Swap, EncodingPhase, Registered
  <2>2. writer' # "registering"
    BY <1>5 DEF Swap
  <2>3. feedIds[feed] # NoMarker
    BY <1>5 DEF Swap, EncodingPhase, Registering
  <2>4. \A s \in Streams : jpgBuf'[s] # jpgBuf[s] => s = <<kind, feed>>
    BY <1>5 DEF Swap, TypeOK
  <2>5. UNCHANGED <<feedVars, data, asked, sendingTo, sent>>
    BY <1>5 DEF Swap
  <2>6. \A s \in Streams : jpgBuf'[s] # jpgBuf[s] => feedIds[s[2]] # NoMarker
    BY <2>3, <2>4
  <2> QED  BY <2>1, <2>2, <2>5, <2>6, MarkersKept
<1> QED
  BY <1>1, <1>2, <1>3, <1>4, <1>5, MarkersOfNewFeed, MarkersOfRegister
  DEF FramesThread

-----------------------------------------------------------------------------
(* The connections.                                                        *)

\* The listener changes no marker.
LEMMA MarkersUnread ==
  ASSUME Markers, UNCHANGED <<feedVars, jpgBuf, writerVars>>
  PROVE  Markers'
BY DEF Markers, MarkersHandedOut, MarkersDistinct, StreamsMarked, Registered,
       feedVars, writerVars

LEMMA ConnectionsByListener ==
  ASSUME CounterFits, TypeOK, Registering, Markers, ConnectionsMarked, OwnStream,
         Listener
  PROVE  Markers' /\ ConnectionsMarked' /\ OwnStream'
<1> USE WebAssumption DEF feedVars, writerVars, clientVars, sendVars
<1>1. ASSUME NEW c \in Clients, NEW kind \in Kinds, NEW f \in Feeds \cup {NoFeed},
             Request(c, kind, f)
      PROVE  Markers' /\ ConnectionsMarked' /\ OwnStream'
  <2>1. Markers'
    BY <1>1, MarkersUnread DEF Request
  <2>2. \A g \in Feeds : Registered(g)' <=> Registered(g)
    BY <1>1 DEF Request, Registered
  <2>3. f \in Feeds /\ feedIds[f] # NoMarker => Registered(f)
    BY <1>1 DEF Request, Registered
  <2>4. /\ data'[c] = [kind |-> kind, marker |-> SafeGetFeedId(f)]
        /\ asked'[c] = <<kind, f>>
        /\ \A d \in Clients : d # c => data'[d] = data[d] /\ asked'[d] = asked[d]
    BY <1>1 DEF Request, TypeOK
  <2>5. /\ data'[c].kind = asked'[c][1]
        /\ data'[c].marker = SafeGetFeedId(f) /\ asked'[c][2] = f
        /\ asked'[c] # NoStream
    BY <2>4 DEF NoStream, Kinds
  <2>6. \/ SafeGetFeedId(f) = 0
        \/ f \in Feeds /\ Registered(f) /\ SafeGetFeedId(f) = feedIds[f]
    BY <2>3 DEF SafeGetFeedId
  <2>7. ConnectionsMarked'
    <3> SUFFICES ASSUME NEW d \in Clients
                 PROVE  /\ asked'[d] = NoStream => data'[d].kind \notin Kinds
                        /\ asked'[d] # NoStream =>
                              /\ data'[d].kind = asked'[d][1]
                              /\ \/ data'[d].marker = 0
                                 \/ /\ asked'[d][2] \in Feeds
                                    /\ Registered(asked[d][2])'
                                    /\ data'[d].marker = feedIds'[asked'[d][2]]
      BY DEF ConnectionsMarked
    <3>1. UNCHANGED feedIds
      BY <1>1 DEF Request
    <3>2. CASE d = c
      BY <3>1, <3>2, <2>2, <2>5, <2>6
    <3>3. CASE d # c
      BY <3>1, <3>3, <2>2, <2>4 DEF ConnectionsMarked
    <3> QED  BY <3>2, <3>3
  <2>8. OwnStream'
    BY <1>1 DEF Request, OwnStream, Sending
  <2> QED  BY <2>1, <2>7, <2>8
<1>2. ASSUME NEW c \in Clients, NEW d \in [kind : {"-", "W"}, marker : Chars],
             ~Sending, data' = [data EXCEPT ![c] = d],
             asked' = [asked EXCEPT ![c] = NoStream],
             UNCHANGED <<feedVars, jpgBuf, writerVars, sendVars>>
      PROVE  Markers' /\ ConnectionsMarked' /\ OwnStream'
  <2>1. Markers'
    BY <1>2, MarkersUnread
  <2>2. \A g \in Feeds : Registered(g)' <=> Registered(g)
    BY <1>2 DEF Registered
  <2>3. /\ data'[c] = d /\ asked'[c] = NoStream
        /\ \A e \in Clients : e # c => data'[e] = data[e] /\ asked'[e] = asked[e]
    BY <1>2 DEF TypeOK
  <2>4. d.kind \notin Kinds
    BY DEF Kinds
  <2>5. ConnectionsMarked'
    BY <1>2, <2>2, <2>3, <2>4 DEF ConnectionsMarked
  <2>6. OwnStream'
    BY <1>2 DEF OwnStream, Sending
  <2> QED  BY <2>1, <2>5, <2>6
<1>3. ASSUME NEW c \in Clients, WebSocket(c)
      PROVE  Markers' /\ ConnectionsMarked' /\ OwnStream'
  <2>1. [kind |-> "W", marker |-> data[c].marker] \in [kind : {"-", "W"}, marker : Chars]
    BY DEF TypeOK
  <2> QED  BY <1>3, <2>1, <1>2 DEF WebSocket
<1>4. ASSUME NEW c \in Clients, Close(c)
      PROVE  Markers' /\ ConnectionsMarked' /\ OwnStream'
  <2>1. [kind |-> "-", marker |-> 0] \in [kind : {"-", "W"}, marker : Chars]
    BY DEF Chars
  <2> QED  BY <1>4, <2>1, <1>2 DEF Close
<1>5. ASSUME NEW c \in Clients, NEW s \in Streams, BeginSend(c, s)
      PROVE  Markers' /\ ConnectionsMarked' /\ OwnStream'
  <2>1. Markers'
    BY <1>5, MarkersUnread DEF BeginSend
  <2>2. ConnectionsMarked'
    BY <1>5 DEF BeginSend, ConnectionsMarked, Registered
  <2>3. s[1] \in Kinds /\ s[2] \in Feeds /\ s = <<s[1], s[2]>>
    BY DEF Streams
  <2>4. data[c].kind = s[1] /\ data[c].marker = marker[s] /\ jpgBuf[s] # Empty
    BY <1>5 DEF BeginSend
  <2>5. Registered(s[2]) /\ marker[s] = feedIds[s[2]] /\ feedIds[s[2]] # NoMarker
    BY <2>3, <2>4 DEF Markers, StreamsMarked, Registered
  <2>6. marker[s] # 0
    BY <2>3, <2>5 DEF Markers, MarkersHandedOut
  <2>7. asked[c] # NoStream
    BY <2>3, <2>4 DEF ConnectionsMarked
  <2>8. /\ asked[c][1] = s[1] /\ asked[c][2] \in Feeds
        /\ feedIds[asked[c][2]] = feedIds[s[2]]
    BY <2>4, <2>5, <2>6, <2>7 DEF ConnectionsMarked
  <2>9. asked[c][2] = s[2]
    BY <2>3, <2>5, <2>8 DEF Markers, MarkersDistinct
  <2>10. asked[c] = <<asked[c][1], asked[c][2]>>
    BY <2>7 DEF TypeOK
  <2>11. asked[c] = s
    BY <2>3, <2>8, <2>9, <2>10
  <2>12. OwnStream'
    BY <1>5, <2>11 DEF BeginSend, OwnStream
  <2> QED  BY <2>1, <2>2, <2>12
<1>6. ASSUME ReadBytes PROVE Markers' /\ ConnectionsMarked' /\ OwnStream'
  <2>1. Markers'
    BY <1>6, MarkersUnread DEF ReadBytes
  <2> QED
    BY <1>6, <2>1 DEF ReadBytes, ConnectionsMarked, Registered, OwnStream, Sending
<1>7. ASSUME EndSend PROVE Markers' /\ ConnectionsMarked' /\ OwnStream'
  <2>1. Markers'
    BY <1>7, MarkersUnread DEF EndSend
  <2> QED
    BY <1>7, <2>1 DEF EndSend, ConnectionsMarked, Registered, OwnStream, Sending
<1> QED
  BY <1>1, <1>3, <1>4, <1>5, <1>6, <1>7 DEF Listener

\* No viewer is ever sent another stream than the one it asked for: where char
\* is signed, for any number of feeds, since those beyond the counter's range are
\* refused; where it is unsigned, for as many feeds as a char counts, 255 of
\* eight bits (WebHandler.cxx:54-84, 96-112, 231-260).
THEOREM ViewersGetTheirOwn ==
  ASSUME CounterFits
  PROVE  Spec => []OwnStream
<1>1. Init => IInv
  BY TypesInitially, MarkersInitially DEF IInv, Markers
<1>2. IInv /\ [Next]_vars => IInv'
  <2> SUFFICES ASSUME IInv, [Next]_vars PROVE IInv'
    OBVIOUS
  <2>1. TypeOK /\ Registering /\ Markers /\ ConnectionsMarked /\ OwnStream
    BY DEF IInv, Markers
  <2>2. CASE FramesThread
    BY <2>1, <2>2, TypesByFramesThread, MarkersByFramesThread DEF IInv, Markers
  <2>3. CASE Listener
    BY <2>1, <2>3, TypesByListener, ConnectionsByListener DEF IInv, Markers
  <2>4. CASE UNCHANGED vars
    <3>1. TypeOK' /\ Registering'
      BY <2>1, <2>4 DEF vars, feedVars, writerVars, clientVars, sendVars, TypeOK,
                        Registering
    <3>2. Markers'
      BY <2>1, <2>4, MarkersUnread DEF vars
    <3>3. ConnectionsMarked' /\ OwnStream'
      BY <2>1, <2>4 DEF vars, feedVars, writerVars, clientVars, sendVars,
                        ConnectionsMarked, Registered, OwnStream, Sending
    <3> QED  BY <3>1, <3>2, <3>3 DEF IInv, Markers
  <2> QED  BY <2>2, <2>3, <2>4 DEF Next
<1>3. IInv => OwnStream
  BY DEF IInv
<1> QED
  BY <1>1, <1>2, <1>3, PTL DEF Spec

=============================================================================
