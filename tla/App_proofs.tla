----------------------------- MODULE App_proofs -----------------------------
(***************************************************************************)
(* Proofs about App, for any number of feeds.                              *)
(***************************************************************************)
EXTENDS App, TLAPS

Closing == {"getting", "posting", "success"}

\* The entities the loop of the exit has passed: each had its last POST.
Passed ==
    main \in Closing => \A f \in Feed : f < at /\ HasHandler(f) =>
        f \in updated /\ (shown[f] = "unknown" \/ f \in unheard \cup overtaken)

\* An http source is not passed when the sources are started, so that the event
\* loop runs, and ends, only without one.
NoHttpPassed ==
    /\ main = "starting" => \A f \in Feed : f < at => feeds[f].scheme # "http"
    /\ main \in {"looping"} \cup Closing => \A f \in Feed : feeds[f].scheme # "http"

\* Where the exit's loop is.
AtEntity ==
    /\ main = "posting" => at \in Feed
    /\ main = "success" => at \notin Feed

\* Before the exit no entity had its last POST.
NoneUpdated ==
    main \in {"building", "starting", "streaming", "looping"} => updated = {}

IInv == TypeOK /\ Passed /\ NoHttpPassed /\ AtEntity /\ NoneUpdated

LEMMA InitHolds == Init => IInv
<1> SUFFICES ASSUME Init PROVE IInv
  OBVIOUS
<1>1. at \in 1..(FeedCount + 1)
  BY AppAssumption DEF Init
<1>2. /\ nextState \in [Feed -> States] /\ sent \in [Feed -> SUBSET States]
      /\ main \in Phases \cup Ended /\ watchVar \in BOOLEAN
  BY DEF Init, States, Phases
<1>3. TypeOK
  BY <1>1, <1>2 DEF Init, TypeOK
<1>4. Passed /\ NoHttpPassed /\ AtEntity /\ NoneUpdated
  BY DEF Init, Passed, NoHttpPassed, AtEntity, NoneUpdated, Closing
<1> QED BY <1>3, <1>4 DEF IInv

\* Each step keeps the types.
LEMMA TypesKept == ASSUME IInv, [Next]_vars PROVE TypeOK'
<1> USE AppAssumption DEF IInv, TypeOK, Feed, Phases, Ended, States
<1>1. CASE BuildFeed
  BY <1>1 DEF BuildFeed
<1>2. CASE InstallSignals \/ StartSource \/ HttpFrame
  <2>1. CASE InstallSignals
    BY <2>1 DEF InstallSignals
  <2>2. CASE StartSource
    BY <2>2 DEF StartSource
  <2>3. CASE HttpFrame
    BY <2>3 DEF HttpFrame
  <2> QED BY <1>2, <2>1, <2>2, <2>3
<1>3. ASSUME NEW f \in Feed, UpdaterPosts(f) PROVE TypeOK'
  BY <1>3 DEF UpdaterPosts
<1>4. ASSUME NEW f \in Feed, NEW state \in States, LoopReports(f, state) PROVE TypeOK'
  BY <1>4 DEF LoopReports
<1>5. ASSUME NEW f \in Feed, NEW state \in States, Arrives(f, state) PROVE TypeOK'
  <2>1. overtaken' \in SUBSET Feed
    BY <1>5 DEF Arrives
  <2>2. shown' \in [Feed -> States] /\ sent' \in [Feed -> SUBSET States]
    BY <1>5 DEF Arrives
  <2> QED BY <1>5, <2>1, <2>2 DEF Arrives
<1>6. CASE Signal
  BY <1>6 DEF Signal
<1>7. CASE LoopEnds \/ NoEntity \/ SyncGet \/ Return
  <2>1. CASE LoopEnds
    BY <2>1 DEF LoopEnds
  <2>2. CASE NoEntity
    BY <2>2 DEF NoEntity
  <2>3. CASE SyncGet
    BY <2>3 DEF SyncGet
  <2>4. CASE Return
    BY <2>4 DEF Return
  <2> QED BY <1>7, <2>1, <2>2, <2>3, <2>4
<1>8. ASSUME NEW outcome \in Outcomes, SyncPost(outcome) PROVE TypeOK'
  <2>1. shown' \in [Feed -> States]
    BY <1>8 DEF SyncPost, Outcomes
  <2>2. at \in Feed
    BY <1>8 DEF SyncPost, AtEntity
  <2> QED BY <1>8, <2>1, <2>2 DEF SyncPost
<1>9. CASE UNCHANGED vars
  BY <1>9 DEF vars
<1> QED BY <1>1, <1>2, <1>3, <1>4, <1>5, <1>6, <1>7, <1>8, <1>9 DEF Next

\* Each step keeps what the control says.
LEMMA ControlKept ==
    ASSUME IInv, [Next]_vars PROVE NoHttpPassed' /\ AtEntity' /\ NoneUpdated'
<1> USE AppAssumption DEF IInv, TypeOK, Feed, NoHttpPassed, AtEntity, NoneUpdated,
                          Closing
<1>1. CASE BuildFeed \/ InstallSignals
  <2>1. CASE BuildFeed
    BY <2>1 DEF BuildFeed
  <2>2. CASE InstallSignals
    BY <2>2 DEF InstallSignals
  <2> QED BY <1>1, <2>1, <2>2
<1>2. CASE StartSource
  BY <1>2 DEF StartSource
<1>3. CASE HttpFrame \/ \E f \in Feed : UpdaterPosts(f)
  BY <1>3 DEF HttpFrame, UpdaterPosts
<1>4. ASSUME NEW f \in Feed, NEW state \in States,
             LoopReports(f, state) \/ Arrives(f, state)
      PROVE  NoHttpPassed' /\ AtEntity' /\ NoneUpdated'
  BY <1>4 DEF LoopReports, Arrives
<1>5. CASE Signal \/ LoopEnds
  BY <1>5 DEF Signal, LoopEnds
<1>6. CASE NoEntity \/ SyncGet \/ Return
  BY <1>6 DEF NoEntity, SyncGet, Return
<1>7. ASSUME NEW outcome \in Outcomes, SyncPost(outcome)
      PROVE  NoHttpPassed' /\ AtEntity' /\ NoneUpdated'
  BY <1>7 DEF SyncPost
<1>8. CASE UNCHANGED vars
  BY <1>8 DEF vars
<1> QED BY <1>1, <1>2, <1>3, <1>4, <1>5, <1>6, <1>7, <1>8 DEF Next

\* Each step keeps what is known of the entities the exit has passed.
LEMMA PassedKept == ASSUME IInv, [Next]_vars PROVE Passed'
<1> USE AppAssumption DEF IInv, TypeOK, Feed, Passed, Closing, HasHandler
<1>1. CASE BuildFeed \/ InstallSignals \/ StartSource \/ HttpFrame
  BY <1>1 DEF BuildFeed, InstallSignals, StartSource, HttpFrame
<1>2. ASSUME NEW f \in Feed, UpdaterPosts(f) PROVE Passed'
  BY <1>2 DEF UpdaterPosts
<1>3. ASSUME NEW f \in Feed, NEW state \in States, LoopReports(f, state) PROVE Passed'
  BY <1>3 DEF LoopReports
<1>4. ASSUME NEW f \in Feed, NEW state \in States, Arrives(f, state) PROVE Passed'
  BY <1>4 DEF Arrives
<1>5. CASE Signal \/ LoopEnds
  BY <1>5 DEF Signal, LoopEnds
<1>6. CASE NoEntity \/ SyncGet \/ Return
  BY <1>6 DEF NoEntity, SyncGet, Return
<1>7. ASSUME NEW outcome \in Outcomes, SyncPost(outcome) PROVE Passed'
  <2>1. CASE outcome = "failed"
    BY <1>7, <2>1 DEF SyncPost
  <2>2. CASE outcome # "failed"
    <3>1. \A f \in Feed : shown'[f] = IF f = at /\ outcome = "ok" THEN "unknown"
                                      ELSE shown[f]
      BY <1>7, <2>2 DEF SyncPost, Outcomes
    <3>2. outcome = "untyped" => at \in unheard'
      BY <1>7 DEF SyncPost
    <3>3. unheard \subseteq unheard' /\ overtaken' = overtaken
      BY <1>7 DEF SyncPost
    <3>4. updated' = updated \cup {at} /\ at' = at + 1 /\ main = "posting"
          /\ feeds' = feeds
      BY <1>7, <2>2 DEF SyncPost
    <3> QED BY <2>2, <3>1, <3>2, <3>3, <3>4 DEF Outcomes
  <2> QED BY <2>1, <2>2
<1>8. CASE UNCHANGED vars
  BY <1>8 DEF vars
<1> QED BY <1>1, <1>2, <1>3, <1>4, <1>5, <1>6, <1>7, <1>8 DEF Next

THEOREM InvariantHolds == Spec => []IInv
<1>1. IInv /\ [Next]_vars => IInv'
  BY TypesKept, ControlKept, PassedKept DEF IInv
<1> QED BY InitHolds, <1>1, PTL DEF Spec

\* Type correctness, for any number of feeds (main.cxx).
THEOREM TypeCorrect == Spec => []TypeOK
BY InvariantHolds, PTL DEF IInv

\* After a clean exit each entity shows "unknown", but for the refusals without a
\* content type and the late POSTs, for any number of feeds (main.cxx:207-217).
THEOREM CleanExitShowsUnknown == Spec => []SuccessMeansUnknown
<1>1. IInv => SuccessMeansUnknown
  BY AppAssumption
     DEF IInv, TypeOK, Feed, Passed, AtEntity, Closing, SuccessMeansUnknown, HasHandler
<1> QED BY InvariantHolds, <1>1, PTL

\* No POST is begun for an entity after its last one, for any number of feeds:
\* a program with an updater thread does not come to its exit (Http.cxx:47).
THEOREM LastWordKept == Spec => LastWord
<1>1. IInv /\ [Next]_vars => [\A f \in updated : sent'[f] \subseteq sent[f]]_vars
  <2> SUFFICES ASSUME IInv, Next, NEW f \in updated
               PROVE  sent'[f] \subseteq sent[f]
    OBVIOUS
  <2> USE DEF IInv, TypeOK
  <2>1. f \in Feed
    OBVIOUS
  <2>2. main \notin {"building", "starting", "streaming", "looping"}
    BY DEF NoneUpdated
  <2>3. ASSUME NEW g \in Feed, UpdaterPosts(g) PROVE FALSE
    BY <2>2, <2>3 DEF UpdaterPosts, UpdaterRuns, NoHttpPassed, Closing, Phases, Ended
  <2>4. ASSUME NEW g \in Feed, NEW state \in States, Arrives(g, state)
        PROVE  sent'[f] \subseteq sent[f]
    BY <2>1, <2>4 DEF Arrives
  <2>5. CASE BuildFeed \/ InstallSignals \/ StartSource \/ HttpFrame \/ LoopEnds
    BY <2>2, <2>5 DEF BuildFeed, InstallSignals, StartSource, HttpFrame, LoopEnds
  <2>6. ASSUME NEW g \in Feed, NEW state \in States, LoopReports(g, state)
        PROVE  FALSE
    BY <2>2, <2>6 DEF LoopReports
  <2>7. CASE Signal \/ NoEntity \/ SyncGet \/ Return
    BY <2>7 DEF Signal, NoEntity, SyncGet, Return
  <2>8. ASSUME NEW outcome \in Outcomes, SyncPost(outcome)
        PROVE  sent'[f] \subseteq sent[f]
    BY <2>8 DEF SyncPost
  <2> QED BY <2>3, <2>4, <2>5, <2>6, <2>7, <2>8 DEF Next
<1> QED BY InvariantHolds, <1>1, PTL DEF Spec, LastWord

=============================================================================
