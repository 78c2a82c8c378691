------------------------ MODULE AsyncFileSave_proofs ------------------------
(***************************************************************************)
(* Proofs about AsyncFileSave, for any number of requests, any limit, any  *)
(* debounce time, and whatever goes wrong.                                 *)
(***************************************************************************)
EXTENDS AsyncFileSave, AsyncDebouncer_proofs

-----------------------------------------------------------------------------
(* The inductive invariant.  A new request finds its id in nobody's hands  *)
(* because the counter is ahead of every context and of every request that *)
(* an exception left (CounterAhead, ThrownIsLetGo); the                    *)
(* window's remaining time and the calm behind it add up to at least the   *)
(* debounce time, because motion moves the window's end (Gate).            *)

CounterAhead == \A id \in easyCtxs \cup caught : id < contextId

\* Nobody works any more on a request for which an exception was caught.
ThrownIsLetGo ==
    /\ caught \cap transfers = {} /\ caught \cap unread = {}
    /\ caught \cap writes = {} /\ caught \cap signals = {}
    /\ caught \cap removals = {}

Gate ==
    /\ OneTaskPerWindow(debouncer)
    /\ IF debouncer.updateAllowed
       THEN windowLeft = Off /\ calm = DebounceTime
       ELSE windowLeft # Off /\ calm + windowLeft >= DebounceTime

StagesApart ==
    /\ transfers \subseteq easyCtxs /\ unread \subseteq easyCtxs
    /\ writes \subseteq easyCtxs /\ signals \subseteq easyCtxs
    /\ removals \subseteq easyCtxs
    /\ transfers \cap unread = {} /\ transfers \cap writes = {}
    /\ transfers \cap signals = {} /\ transfers \cap removals = {}
    /\ unread \cap writes = {} /\ unread \cap signals = {}
    /\ unread \cap removals = {} /\ writes \cap signals = {}
    /\ writes \cap removals = {} /\ signals \cap removals = {}

RequestTypes ==
    /\ contextId \in 1..(MaxId + 1)
    /\ easyCtxs \subseteq Ids /\ transfers \subseteq Ids /\ unread \subseteq Ids
    /\ body \in [Ids -> {"none", "image", "cut"}] /\ caught \subseteq Ids
    /\ writes \subseteq Ids /\ signals \subseteq Ids /\ removals \subseteq Ids
    /\ lost \subseteq Ids
    /\ saved \in Seq(Ids) /\ Len(saved) <= Limit
    /\ disk \in [Ids -> Contents]

WindowTypes ==
    /\ debouncer \in Debouncer
    /\ windowLeft \in Off..DebounceTime
    /\ calm \in 0..DebounceTime

WindowInv == WindowTypes /\ Gate

\* Only a response that is an image is written.
WritesHaveBody == \A id \in writes : body[id] # "none"

RequestInv ==
    /\ RequestTypes
    /\ StagesApart
    /\ ThrownIsLetGo
    /\ WritesHaveBody
    /\ NoForgottenFile
    /\ CounterAhead

\* StagesApart is PointersLive, stage by stage.
LEMMA PointersLiveByStage == StagesApart => PointersLive
<1>1. /\ DOMAIN Stages = 1..5
      /\ Stages[1] = transfers /\ Stages[2] = unread /\ Stages[3] = writes
      /\ Stages[4] = signals /\ Stages[5] = removals
  BY DEF Stages
<1>2. 1..5 = {1, 2, 3, 4, 5}
  OBVIOUS
<1>3. \A s, t \in 1..5 : Stages[s] \cap Stages[t] = Stages[t] \cap Stages[s]
  OBVIOUS
<1> QED BY <1>1, <1>2, <1>3 DEF PointersLive, StagesApart

-----------------------------------------------------------------------------
(* The window.                                                             *)

LEMMA OperatorKeepsWindow ==
    ASSUME WindowInv, NEW motion \in BOOLEAN, Operator(motion)
    PROVE  WindowInv'
<1> DEFINE saving == debouncer.updateAllowed /\ motion
           opened == IF saving THEN Debounce(debouncer, DebounceTime) ELSE debouncer
           moving == ~opened.updateAllowed /\ motion
<1>1. /\ debouncer' = IF moving THEN Debounce(opened, DebounceTime) ELSE opened
      /\ windowLeft' = IF moving THEN DebounceTime ELSE windowLeft
      /\ calm' = IF motion THEN 0 ELSE calm
  BY DEF Operator
<1>2. debouncer \in Debouncer /\ OneTaskPerWindow(debouncer) /\ DebounceTime \in Int
  BY FileSaveAssumption DEF WindowInv, WindowTypes, Gate
<1>3. CASE motion
  <2>1. /\ opened \in Debouncer /\ OneTaskPerWindow(opened)
        /\ ~opened.updateAllowed
    BY <1>2, <1>3, DebounceOpensWindow
  <2>2. debouncer' = Debounce(opened, DebounceTime)
    BY <1>1, <1>3, <2>1
  <2>3. /\ debouncer' \in Debouncer /\ OneTaskPerWindow(debouncer')
        /\ ~debouncer'.updateAllowed
    BY <1>2, <2>1, <2>2, DebounceOpensWindow
  <2>4. windowLeft' = DebounceTime /\ calm' = 0
    BY <1>1, <1>3, <2>1
  <2> QED BY <2>3, <2>4, FileSaveAssumption
          DEF WindowInv, WindowTypes, Gate, Off, OneTaskPerWindow
<1>4. CASE ~motion
  <2>1. UNCHANGED windowVars
    BY <1>1, <1>4 DEF windowVars
  <2> QED BY <2>1 DEF WindowInv, WindowTypes, Gate, windowVars, OneTaskPerWindow
<1> QED BY <1>3, <1>4

LEMMA DebounceTaskKeepsWindow ==
    ASSUME WindowInv, DebounceTask
    PROVE  WindowInv'
<1>1. PICK token \in debouncer.scheduled :
         debouncer' = DebounceUpdateProc(debouncer, token)
  BY DEF DebounceTask
<1>2. /\ debouncer' \in Debouncer /\ OneTaskPerWindow(debouncer')
      /\ debouncer'.updateAllowed
  BY <1>1, DebounceTaskEndsWindow DEF WindowInv, WindowTypes, Gate
<1>3. ~debouncer.updateAllowed
  BY <1>1 DEF WindowInv, Gate, OneTaskPerWindow
<1>4. windowLeft = 0 /\ windowLeft' = Off /\ calm' = calm
  BY DEF DebounceTask
<1>5. calm = DebounceTime
  BY <1>3, <1>4, FileSaveAssumption DEF WindowInv, WindowTypes, Gate
<1> QED BY <1>2, <1>4, <1>5, FileSaveAssumption
        DEF WindowInv, WindowTypes, Gate, Off, OneTaskPerWindow

LEMMA TickKeepsWindow ==
    ASSUME WindowInv, Tick
    PROVE  WindowInv'
BY FileSaveAssumption
   DEF WindowInv, WindowTypes, Gate, Tick, Off, OneTaskPerWindow

THEOREM WindowInvariant == Spec => []WindowInv
<1>1. Init => WindowInv
  BY FileSaveAssumption
     DEF Init, WindowInv, WindowTypes, Gate, NewDebouncer, Debouncer, NullToken, Off,
         OneTaskPerWindow
<1>2. ASSUME WindowInv, [Next]_vars PROVE WindowInv'
  <2>1. CASE UNCHANGED windowVars
    BY <1>2, <2>1 DEF WindowInv, WindowTypes, Gate, windowVars, OneTaskPerWindow
  <2>2. ASSUME NEW motion \in BOOLEAN, Operator(motion) PROVE WindowInv'
    BY <1>2, <2>2, OperatorKeepsWindow
  <2>3. CASE DebounceTask
    BY <1>2, <2>3, DebounceTaskKeepsWindow
  <2>4. CASE Tick
    BY <1>2, <2>4, TickKeepsWindow
  <2>5. CASE \/ SocketAction
             \/ \E id \in Ids : AioCompletes(id) \/ AioSigHandler(id) \/ RemovalTask(id)
    BY <2>1, <2>5 DEF SocketAction, AioCompletes, AioSigHandler, RemovalTask
  <2>6. CASE UNCHANGED vars
    BY <2>1, <2>6 DEF vars
  <2> QED BY <1>2, <2>2, <2>3, <2>4, <2>5, <2>6 DEF Next
<1> QED BY <1>1, <1>2, PTL DEF Spec

\* An image is asked for only after a calm of debounceTime, for every
\* debounceTime (AsyncFileSave.cxx:164-179, AsyncDebouncer.cxx:10-34).
THEOREM EpisodesHaveOneImage == Spec => OneImagePerEpisode
<1>1. ASSUME WindowInv, [Next]_vars PROVE [contextId' # contextId => calm = DebounceTime]_vars
  <2> SUFFICES ASSUME contextId' # contextId PROVE calm = DebounceTime
    OBVIOUS
  <2>1. PICK motion \in BOOLEAN : Operator(motion)
    BY <1>1 DEF Next, DebounceTask, Tick, SocketAction, AioCompletes, AioSigHandler,
                RemovalTask, vars, requestVars
  <2>2. debouncer.updateAllowed
    BY <2>1 DEF Operator, requestVars
  <2> QED BY <1>1, <2>2 DEF WindowInv, Gate
<1> QED BY <1>1, WindowInvariant, PTL DEF Spec, OneImagePerEpisode

-----------------------------------------------------------------------------
(* The requests and their files.                                           *)

\* Filing a path loses no other path but the oldest, and keeps to the limit.
LEMMA PushBackFiles ==
    ASSUME RequestTypes, NEW id \in Ids, PushBack(id)
    PROVE  /\ saved' \in Seq(Ids) /\ Len(saved') <= Limit
           /\ (SavedIds \ Oldest) \cup {id} \subseteq SavedIds'
<1>1. saved \in Seq(Ids) /\ Len(saved) \in 0..Limit /\ Limit \in Nat \ {0}
  BY FileSaveAssumption DEF RequestTypes
<1>2. CASE Len(saved) = Limit
  <2>1. saved' = Append(Tail(saved), id)
    BY <1>2 DEF PushBack, Full
  <2>2. /\ Tail(saved) \in Seq(Ids) /\ Len(Tail(saved)) = Limit - 1
        /\ \A n \in 2..Limit : Tail(saved)[n - 1] = saved[n]
    BY <1>1, <1>2
  <2>3. /\ saved' \in Seq(Ids) /\ Len(saved') = Limit /\ saved'[Limit] = id
        /\ \A n \in 2..Limit : saved'[n - 1] = saved[n]
    BY <1>1, <2>1, <2>2
  <2>4. ASSUME NEW x \in SavedIds \ Oldest PROVE x \in SavedIds'
    <3>1. PICK n \in DOMAIN saved : x = saved[n]
      BY <2>4 DEF SavedIds
    <3>2. n \in 2..Limit
      BY <1>1, <1>2, <2>4, <3>1 DEF Oldest, Full
    <3>3. n - 1 \in DOMAIN saved' /\ saved'[n - 1] = x
      BY <2>3, <3>1, <3>2
    <3> QED BY <3>3 DEF SavedIds
  <2>5. id \in SavedIds'
    BY <1>1, <2>3 DEF SavedIds
  <2> QED BY <2>3, <2>4, <2>5, <1>1
<1>3. CASE Len(saved) < Limit
  <2>1. saved' = Append(saved, id)
    BY <1>3, <1>1 DEF PushBack, Full
  <2>2. /\ saved' \in Seq(Ids) /\ Len(saved') = Len(saved) + 1
        /\ saved'[Len(saved) + 1] = id
        /\ \A n \in 1..Len(saved) : saved'[n] = saved[n]
    BY <1>1, <2>1
  <2>3. ASSUME NEW x \in SavedIds PROVE x \in SavedIds'
    <3>1. PICK n \in DOMAIN saved : x = saved[n]
      BY <2>3 DEF SavedIds
    <3>2. n \in DOMAIN saved' /\ saved'[n] = x
      BY <1>1, <2>2, <3>1
    <3> QED BY <3>2 DEF SavedIds
  <2>4. id \in SavedIds'
    BY <1>1, <2>2 DEF SavedIds
  <2> QED BY <1>1, <1>3, <2>2, <2>3, <2>4
<1> QED BY <1>1, <1>2, <1>3

\* RemoveContext forgets no file: the one whose context goes is filed, and the
\* one whose path is dropped is deleted first.
LEMMA RemoveContextFiles ==
    ASSUME RequestTypes, NoForgottenFile, NEW id \in Ids, NEW deleted,
           RemoveContext(id, deleted), caught \subseteq caught'
    PROVE  /\ saved' \in Seq(Ids) /\ Len(saved') <= Limit
           /\ disk' \in [Ids -> Contents]
           /\ easyCtxs' = easyCtxs \ {id}
           /\ NoForgottenFile'
<1>1. /\ disk' = DiskWithout(deleted \cup Oldest)
      /\ easyCtxs' = easyCtxs \ {id}
      /\ PushBack(id)
  BY DEF RemoveContext
<1>2. /\ saved' \in Seq(Ids) /\ Len(saved') <= Limit
      /\ (SavedIds \ Oldest) \cup {id} \subseteq SavedIds'
  BY <1>1, PushBackFiles
<1>3. disk' \in [Ids -> Contents]
  BY <1>1 DEF DiskWithout, RequestTypes, Contents
<1>4. NoForgottenFile'
  <2> SUFFICES ASSUME NEW x \in Ids, disk'[x] # "absent"
               PROVE  x \in SavedIds' \cup easyCtxs' \cup caught'
    BY DEF NoForgottenFile
  <2>1. x \notin Oldest /\ disk[x] # "absent"
    BY <1>1 DEF DiskWithout
  <2>2. x \in SavedIds \cup easyCtxs \cup caught
    BY <2>1 DEF NoForgottenFile
  <2> QED BY <1>1, <1>2, <2>1, <2>2
<1> QED BY <1>1, <1>2, <1>3, <1>4

LEMMA SaveKeeps ==
    ASSUME RequestInv, SaveFileAtEndpoint, UNCHANGED writeVars
    PROVE  RequestInv'
<1>1. ASSUME contextId \in Ids, contextId' = contextId + 1,
             disk' = [disk EXCEPT ![contextId] = "created"],
             UNCHANGED <<unread, body, saved>>,
             \/ /\ easyCtxs' = easyCtxs \cup {contextId}
                /\ transfers' = transfers \cup {contextId}
                /\ caught' = caught
             \/ /\ caught' = caught \cup {contextId}
                /\ easyCtxs' = easyCtxs /\ transfers' = transfers
      PROVE  RequestInv'
  <2>1. contextId \notin easyCtxs /\ contextId \notin caught
    BY <1>1 DEF RequestInv, CounterAhead, RequestTypes, Ids
  <2>2. RequestTypes'
    <3>1. disk' \in [Ids -> Contents]
      BY <1>1 DEF RequestInv, RequestTypes, Contents
    <3>2. contextId' \in 1..(MaxId + 1)
      BY <1>1, FileSaveAssumption DEF Ids
    <3> QED BY <1>1, <3>1, <3>2 DEF RequestInv, RequestTypes, writeVars
  <2>3. StagesApart' /\ ThrownIsLetGo' /\ WritesHaveBody'
    BY <1>1, <2>1
       DEF RequestInv, StagesApart, ThrownIsLetGo, WritesHaveBody, writeVars
  <2>4. NoForgottenFile'
    BY <1>1 DEF RequestInv, RequestTypes, NoForgottenFile, SavedIds
  <2>5. CounterAhead'
    <3> SUFFICES ASSUME NEW id \in easyCtxs' \cup caught' PROVE id < contextId'
      BY DEF CounterAhead
    <3>1. id \in Ids /\ (id = contextId \/ id < contextId)
      BY <1>1 DEF RequestInv, RequestTypes, CounterAhead
    <3> QED BY <1>1, <3>1 DEF Ids
  <2> QED BY <2>2, <2>3, <2>4, <2>5 DEF RequestInv
<1>2. CASE UNCHANGED <<requestVars, fileVars>>
  BY <1>2 DEF RequestInv, RequestTypes, StagesApart, ThrownIsLetGo, WritesHaveBody,
              NoForgottenFile, SavedIds, CounterAhead, requestVars, fileVars, writeVars
<1> QED BY <1>1, <1>2 DEF SaveFileAtEndpoint

LEMMA SocketActionKeeps ==
    ASSUME RequestInv, SocketAction
    PROVE  RequestInv'
<1>1. PICK ended \in SUBSET transfers :
        /\ \E got \in [ended -> Bodies] :
              body' = [id \in Ids |-> IF id \in ended THEN got[id] ELSE body[id]]
        /\ transfers' = transfers \ ended
        /\ CheckMultiInfo(unread \cup ended)
  BY DEF SocketAction
<1> DEFINE done == unread \cup ended
<1>2. PICK read \in SUBSET done : \E refused, threw, deleted \in SUBSET read :
        LET failed == {id \in read : body'[id] = "none"} IN
        /\ refused # {} => "refused" \in Faults
        /\ threw # {} => "unremovable" \in Faults
        /\ refused \cap failed = {}
        /\ threw \subseteq failed \cup refused
        /\ (failed \cup refused) \ threw \subseteq deleted
        /\ deleted \subseteq (failed \cup refused) \ (IF Full THEN threw \ failed ELSE threw)
        /\ unread' = done \ read
        /\ writes' = writes \cup (read \ (failed \cup refused))
        /\ caught' = caught \cup threw
        /\ \/ /\ failed \subseteq threw /\ read = done
              /\ disk' = DiskWithout(deleted)
              /\ UNCHANGED <<saved, easyCtxs>>
           \/ \E id \in read :
                 /\ failed \ threw = {id}
                 /\ RemoveContext(id, deleted)
  BY <1>1, Zenon DEF CheckMultiInfo
<1> DEFINE failed == {id \in read : body'[id] = "none"}
<1>3. PICK refused \in SUBSET read, threw \in SUBSET read, deleted \in SUBSET read :
        /\ refused \cap failed = {}
        /\ threw \subseteq failed \cup refused
        /\ unread' = done \ read
        /\ writes' = writes \cup (read \ (failed \cup refused))
        /\ caught' = caught \cup threw
        /\ \/ /\ disk' = DiskWithout(deleted)
              /\ UNCHANGED <<saved, easyCtxs>>
           \/ \E id \in read :
                 /\ failed \ threw = {id}
                 /\ RemoveContext(id, deleted)
  BY <1>2
<1>4. UNCHANGED <<contextId, signals, removals, lost>>
  BY DEF SocketAction
<1>5. body' \in [Ids -> {"none", "image", "cut"}]
  BY <1>1, FileSaveAssumption DEF RequestInv, RequestTypes
<1>6. done \subseteq Ids /\ done \subseteq easyCtxs /\ read \subseteq done
  BY DEF RequestInv, RequestTypes, StagesApart
<1>7. /\ saved' \in Seq(Ids) /\ Len(saved') <= Limit
      /\ disk' \in [Ids -> Contents]
      /\ NoForgottenFile'
      /\ \/ easyCtxs' = easyCtxs
         \/ \E id \in failed \ threw : easyCtxs' = easyCtxs \ {id}
  <2>1. CASE /\ disk' = DiskWithout(deleted)
             /\ UNCHANGED <<saved, easyCtxs>>
    <3>1. disk' \in [Ids -> Contents]
      BY <2>1 DEF RequestInv, RequestTypes, DiskWithout, Contents
    <3>2. \A x \in Ids : disk'[x] # "absent" => disk[x] # "absent"
      BY <2>1 DEF DiskWithout
    <3>3. SavedIds' = SavedIds
      BY <2>1 DEF SavedIds
    <3>4. NoForgottenFile'
      BY <1>3, <2>1, <3>2, <3>3 DEF RequestInv, NoForgottenFile
    <3> QED BY <2>1, <3>1, <3>4 DEF RequestInv, RequestTypes
  <2>2. ASSUME NEW id \in read, failed \ threw = {id}, RemoveContext(id, deleted)
        PROVE  /\ saved' \in Seq(Ids) /\ Len(saved') <= Limit
               /\ disk' \in [Ids -> Contents]
               /\ NoForgottenFile'
               /\ id \in failed \ threw /\ easyCtxs' = easyCtxs \ {id}
    <3>1. id \in Ids /\ caught \subseteq caught'
      BY <1>3, <1>6
    <3> QED BY <2>2, <3>1, RemoveContextFiles DEF RequestInv
  <2> QED BY <1>3, <2>1, <2>2
<1>8. RequestTypes'
  BY <1>1, <1>3, <1>4, <1>5, <1>6, <1>7 DEF RequestInv, RequestTypes
<1>9. StagesApart' /\ ThrownIsLetGo'
  <2> HIDE DEF done
  <2>1. /\ transfers' \subseteq transfers \ done /\ unread' = done \ read
        /\ writes' \subseteq writes \cup (read \ (failed \cup threw))
        /\ caught' \subseteq caught \cup read /\ caught' \cap writes' \subseteq caught \cup writes
        /\ signals' = signals /\ removals' = removals
        /\ \A x \in easyCtxs \ easyCtxs' : x \in failed
    BY <1>1, <1>3, <1>4, <1>6, <1>7 DEF done, RequestInv, StagesApart
  <2>2. done \subseteq transfers \cup unread /\ read \subseteq done
    BY DEF done
  <2> QED BY <1>3, <2>1, <2>2 DEF RequestInv, StagesApart, ThrownIsLetGo
<1>10. CounterAhead'
  BY <1>3, <1>4, <1>6, <1>7 DEF RequestInv, CounterAhead
<1>11. WritesHaveBody'
  <2> SUFFICES ASSUME NEW id \in writes' PROVE body'[id] # "none"
    BY DEF WritesHaveBody
  <2>1. CASE id \in writes
    <3>1. id \in Ids /\ id \notin ended /\ body[id] # "none"
      BY <2>1 DEF RequestInv, RequestTypes, StagesApart, WritesHaveBody
    <3>2. body'[id] = body[id]
      BY <1>1, <3>1
    <3> QED BY <3>1, <3>2
  <2>2. CASE id \notin writes
    BY <1>3, <2>2
  <2> QED BY <2>1, <2>2
<1> QED BY <1>7, <1>8, <1>9, <1>10, <1>11 DEF RequestInv

LEMMA AioCompletesKeeps ==
    ASSUME RequestInv, NEW id \in Ids, AioCompletes(id)
    PROVE  RequestInv'
<1>1. /\ id \in writes /\ writes' = writes \ {id}
      /\ signals' \in {signals, {id}} /\ lost' \in {lost, lost \cup {id}}
      /\ UNCHANGED <<removals, saved, requestVars>>
  BY DEF AioCompletes
<1>2. PICK c \in Contents : disk' = disk \/ disk' = [disk EXCEPT ![id] = c]
  <2> HIDE DEF Contents
  <2>1. body[id] \in Contents /\ "part" \in Contents
    <3>1. body \in [Ids -> {"none", "image", "cut"}] /\ body[id] # "none"
      BY <1>1 DEF RequestInv, RequestTypes, WritesHaveBody
    <3>2. body[id] \in {"image", "cut"}
      BY <3>1
    <3> QED BY <3>2 DEF Contents
  <2>2. CASE disk' = [disk EXCEPT ![id] = body[id]]
    BY <2>1, <2>2
  <2>3. CASE disk' = [disk EXCEPT ![id] = "part"]
    BY <2>1, <2>3
  <2>4. CASE disk' = disk
    BY <2>1, <2>4
  <2>5. \/ disk' = [disk EXCEPT ![id] = body[id]]
        \/ disk' = [disk EXCEPT ![id] = "part"]
        \/ UNCHANGED disk
    BY Zenon DEF AioCompletes
  <2> QED BY <2>2, <2>3, <2>4, <2>5
<1>3. id \in easyCtxs
  BY <1>1 DEF RequestInv, StagesApart
<1>4. RequestTypes'
  BY <1>1, <1>2 DEF RequestInv, RequestTypes, requestVars
<1>5. StagesApart' /\ ThrownIsLetGo' /\ WritesHaveBody'
  BY <1>1, <1>3
     DEF RequestInv, StagesApart, ThrownIsLetGo, WritesHaveBody, requestVars
<1>6. NoForgottenFile'
  BY <1>1, <1>2, <1>3 DEF RequestInv, RequestTypes, NoForgottenFile, SavedIds, requestVars
<1>7. CounterAhead'
  BY <1>1 DEF RequestInv, CounterAhead, requestVars
<1> QED BY <1>4, <1>5, <1>6, <1>7 DEF RequestInv

LEMMA AioSigHandlerKeeps ==
    ASSUME RequestInv, NEW id \in Ids, AioSigHandler(id)
    PROVE  RequestInv'
<1>1. /\ id \in signals /\ signals' = signals \ {id}
      /\ removals' \in {removals, removals \cup {id}}
      /\ UNCHANGED <<writes, lost, fileVars, requestVars>>
  BY DEF AioSigHandler
<1>2. RequestTypes' /\ CounterAhead'
  BY <1>1 DEF RequestInv, RequestTypes, CounterAhead, fileVars, requestVars
<1>3. StagesApart' /\ ThrownIsLetGo' /\ WritesHaveBody'
  BY <1>1 DEF RequestInv, StagesApart, ThrownIsLetGo, WritesHaveBody, requestVars
<1>4. NoForgottenFile'
  BY <1>1 DEF RequestInv, NoForgottenFile, SavedIds, fileVars, requestVars
<1> QED BY <1>2, <1>3, <1>4 DEF RequestInv

LEMMA RemovalTaskKeeps ==
    ASSUME RequestInv, NEW id \in Ids, RemovalTask(id)
    PROVE  RequestInv'
<1>1. /\ id \in removals /\ removals' = removals \ {id}
      /\ RemoveContext(id, {})
      /\ UNCHANGED <<writes, signals, lost, contextId, transfers, unread, body, caught>>
  BY DEF RemovalTask
<1>2. /\ saved' \in Seq(Ids) /\ Len(saved') <= Limit
      /\ disk' \in [Ids -> Contents]
      /\ easyCtxs' = easyCtxs \ {id}
      /\ NoForgottenFile'
  BY <1>1, RemoveContextFiles DEF RequestInv
<1>3. RequestTypes'
  BY <1>1, <1>2 DEF RequestInv, RequestTypes
<1>4. StagesApart' /\ ThrownIsLetGo' /\ WritesHaveBody'
  BY <1>1, <1>2 DEF RequestInv, StagesApart, ThrownIsLetGo, WritesHaveBody
<1>5. CounterAhead'
  BY <1>1, <1>2 DEF RequestInv, CounterAhead
<1> QED BY <1>2, <1>3, <1>4, <1>5 DEF RequestInv

THEOREM RequestInvariant == Spec => []RequestInv
<1>1. Init => RequestInv
  <2> SUFFICES ASSUME Init PROVE RequestInv
    OBVIOUS
  <2>1. RequestTypes
    BY FileSaveAssumption DEF Init, RequestTypes, Contents
  <2>2. StagesApart /\ ThrownIsLetGo /\ WritesHaveBody
    BY DEF Init, StagesApart, ThrownIsLetGo, WritesHaveBody
  <2>3. NoForgottenFile /\ CounterAhead
    BY DEF Init, NoForgottenFile, CounterAhead
  <2> QED BY <2>1, <2>2, <2>3 DEF RequestInv
<1>2. ASSUME RequestInv, [Next]_vars PROVE RequestInv'
  <2>1. CASE UNCHANGED <<requestVars, writeVars, fileVars>>
    BY <1>2, <2>1 DEF RequestInv, RequestTypes, StagesApart, ThrownIsLetGo, WritesHaveBody,
                      NoForgottenFile, SavedIds, CounterAhead, requestVars, writeVars, fileVars
  <2>2. ASSUME NEW motion \in BOOLEAN, Operator(motion) PROVE RequestInv'
    <3>1. CASE debouncer.updateAllowed /\ motion
      BY <1>2, <2>2, <3>1, SaveKeeps DEF Operator
    <3>2. CASE ~(debouncer.updateAllowed /\ motion)
      BY <2>1, <2>2, <3>2 DEF Operator
    <3> QED BY <3>1, <3>2
  <2>3. CASE DebounceTask \/ Tick
    BY <2>1, <2>3 DEF DebounceTask, Tick
  <2>4. CASE SocketAction
    BY <1>2, <2>4, SocketActionKeeps
  <2>5. ASSUME NEW id \in Ids, AioCompletes(id) \/ AioSigHandler(id) \/ RemovalTask(id)
        PROVE  RequestInv'
    BY <1>2, <2>5, AioCompletesKeeps, AioSigHandlerKeeps, RemovalTaskKeeps
  <2>6. CASE UNCHANGED vars
    BY <2>1, <2>6 DEF vars
  <2> QED BY <1>2, <2>2, <2>3, <2>4, <2>5, <2>6 DEF Next
<1> QED BY <1>1, <1>2, PTL DEF Spec

\* Type correctness, for any number of requests and any limit.
THEOREM TypeCorrect == Spec => []TypeOK
<1>1. RequestInv /\ WindowInv => TypeOK
  BY DEF RequestInv, RequestTypes, WindowInv, WindowTypes, TypeOK
<1> QED BY <1>1, RequestInvariant, WindowInvariant, PTL

\* No context is removed while something still points to it, whatever fails
\* (AsyncFileSave.cxx:219-287, 395-420, 438-461).
THEOREM PointersStayLive == Spec => []PointersLive
<1>1. RequestInv => PointersLive
  BY PointersLiveByStage DEF RequestInv
<1> QED BY <1>1, RequestInvariant, PTL

\* For any limit and whatever fails, a file on the disk is listed, or has a
\* context, or was left by an exception that was caught and logged, which is the
\* only way in which one is forgotten (AsyncFileSave.cxx:93-162, 219-287, 438-461).
THEOREM NoFileIsForgotten == Spec => []NoForgottenFile
<1>1. RequestInv => NoForgottenFile
  BY DEF RequestInv
<1> QED BY <1>1, RequestInvariant, PTL

-----------------------------------------------------------------------------
(* The requests and the window: AsyncFileSave implements RateLimiter.      *)

\* Only a request that is made moves the counter, and it is made in a window
\* that it opens.
LEMMA RequestOpensWindow ==
    ASSUME WindowInv, NEW motion \in BOOLEAN, Operator(motion), motion,
           debouncer.updateAllowed
    PROVE  debouncer.scheduled = {} /\ debouncer'.scheduled # {}
<1> DEFINE opened == Debounce(debouncer, DebounceTime)
<1>1. debouncer \in Debouncer /\ OneTaskPerWindow(debouncer) /\ DebounceTime \in Int
  BY FileSaveAssumption DEF WindowInv, WindowTypes, Gate
<1>2. opened \in Debouncer /\ OneTaskPerWindow(opened) /\ ~opened.updateAllowed
  BY <1>1, DebounceOpensWindow
<1>3. debouncer' = Debounce(opened, DebounceTime)
  BY <1>2 DEF Operator
<1>4. OneTaskPerWindow(debouncer') /\ ~debouncer'.updateAllowed
  BY <1>1, <1>2, <1>3, DebounceOpensWindow
<1> QED BY <1>1, <1>4 DEF OneTaskPerWindow

\* Without a request that is made, motion at most moves an open window.
LEMMA NoRequestKeepsWindow ==
    ASSUME WindowInv, NEW motion \in BOOLEAN, Operator(motion),
           ~(debouncer.updateAllowed /\ motion)
    PROVE  /\ contextId' = contextId
           /\ debouncer.scheduled = {} <=> debouncer'.scheduled = {}
<1>1. debouncer \in Debouncer /\ OneTaskPerWindow(debouncer) /\ DebounceTime \in Int
  BY FileSaveAssumption DEF WindowInv, WindowTypes, Gate
<1>2. contextId' = contextId
  BY DEF Operator, requestVars
<1>3. CASE ~debouncer.updateAllowed /\ motion
  <2>1. debouncer' = Debounce(debouncer, DebounceTime)
    BY <1>3 DEF Operator
  <2>2. OneTaskPerWindow(debouncer') /\ ~debouncer'.updateAllowed
    BY <1>1, <2>1, DebounceOpensWindow
  <2> QED BY <1>1, <1>2, <1>3, <2>2 DEF OneTaskPerWindow
<1>4. CASE ~motion
  BY <1>2, <1>4 DEF Operator
<1> QED BY <1>3, <1>4

\* Seen through its pending debounce task and the requests it has made, the
\* file saver is a rate limiter, for every debounce time
\* (AsyncFileSave.cxx:164-179, AsyncDebouncer.cxx:10-34).
THEOREM ImplementsRateLimiter == Spec => RateLimited
<1> DEFINE Open == IF debouncer.scheduled = {} THEN {} ELSE {"saver"}
           Sent == [c \in {"saver"} |-> 1..(contextId - 1)]
<1>1. Init => Limiter!Init
  <2> SUFFICES ASSUME Init PROVE Limiter!Init
    OBVIOUS
  <2>1. debouncer.scheduled = {} /\ contextId = 1
    BY DEF Init, NewDebouncer
  <2>2. 1..(contextId - 1) = {}
    BY <2>1
  <2> QED BY <2>1, <2>2 DEF Limiter!Init
<1>2. WindowInv /\ RequestInv /\ [Next]_vars => [Limiter!Next]_<<Open, Sent>>
  <2> SUFFICES ASSUME WindowInv, RequestInv, [Next]_vars
               PROVE  Limiter!Next \/ UNCHANGED <<Open, Sent>>
    OBVIOUS
  <2>1. ASSUME contextId' = contextId,
               debouncer.scheduled = {} <=> debouncer'.scheduled = {}
        PROVE  UNCHANGED <<Open, Sent>>
    BY <2>1
  <2>2. ASSUME NEW motion \in BOOLEAN, Operator(motion)
        PROVE  Limiter!Next \/ UNCHANGED <<Open, Sent>>
    <3>1. CASE debouncer.updateAllowed /\ motion
      <4>1. Open = {} /\ Open' = {"saver"}
        BY <2>2, <3>1, RequestOpensWindow
      <4>2. SaveFileAtEndpoint
        BY <2>2, <3>1 DEF Operator
      <4>3. \/ contextId \in Ids /\ contextId' = contextId + 1
            \/ contextId' = contextId
        BY <4>2 DEF SaveFileAtEndpoint, requestVars
      <4>4. CASE contextId \in Ids /\ contextId' = contextId + 1
        <5>1. /\ contextId \notin Sent["saver"]
              /\ 1..(contextId' - 1) = 1..(contextId - 1) \cup {contextId}
          BY <4>4, FileSaveAssumption DEF Ids
        <5>2. Sent' = [Sent EXCEPT !["saver"] = @ \cup {contextId}]
          BY <5>1
        <5>3. Limiter!Request("saver")
          BY <4>4, <5>1, <5>2 DEF Limiter!Request
        <5> QED BY <4>1, <5>3 DEF Limiter!Send, Limiter!Next
      <4>5. CASE contextId' = contextId
        BY <4>1, <4>5 DEF Limiter!Send, Limiter!Next
      <4> QED BY <4>3, <4>4, <4>5
    <3>2. CASE ~(debouncer.updateAllowed /\ motion)
      BY <2>1, <2>2, <3>2, NoRequestKeepsWindow
    <3> QED BY <3>1, <3>2
  <2>3. CASE DebounceTask
    <3>1. PICK token \in debouncer.scheduled :
             debouncer' = DebounceUpdateProc(debouncer, token)
      BY <2>3 DEF DebounceTask
    <3>2. OneTaskPerWindow(debouncer') /\ debouncer'.updateAllowed
      BY <3>1, DebounceTaskEndsWindow DEF WindowInv, WindowTypes, Gate
    <3>3. Open = {"saver"} /\ Open' = {} /\ UNCHANGED Sent
      BY <2>3, <3>1, <3>2 DEF OneTaskPerWindow, DebounceTask, requestVars
    <3> QED BY <3>3 DEF Limiter!EndWindow, Limiter!Next
  <2>4. CASE \/ Tick \/ SocketAction
             \/ \E id \in Ids : AioCompletes(id) \/ AioSigHandler(id) \/ RemovalTask(id)
    BY <2>1, <2>4 DEF Tick, SocketAction, AioCompletes, AioSigHandler, RemovalTask,
                      requestVars, windowVars
  <2>5. CASE UNCHANGED vars
    BY <2>1, <2>5 DEF vars, windowVars, requestVars
  <2> QED BY <2>2, <2>3, <2>4, <2>5 DEF Next
<1> QED BY <1>1, <1>2, WindowInvariant, RequestInvariant, PTL
        DEF Spec, RateLimited, Limiter!Spec

-----------------------------------------------------------------------------
(* The directory: AsyncFileSave implements Archive.                        *)

\* No path is listed twice, none while its context is alive, and none that the
\* counter has not reached.
FiledOnce ==
    /\ \A n \in DOMAIN saved : saved[n] < contextId /\ saved[n] \notin easyCtxs
    /\ \A m, n \in DOMAIN saved : saved[m] = saved[n] => m = n

\* What the list holds after a path is filed, place by place.
LEMMA PushBackPlaces ==
    ASSUME RequestTypes, NEW id \in Ids, PushBack(id)
    PROVE  LET drop == IF Full THEN 1 ELSE 0
               last == Len(saved) + 1 - drop
           IN  /\ last \in Nat \ {0} /\ DOMAIN saved' = 1..last
               /\ saved'[last] = id
               /\ \A n \in 1..(last - 1) :
                     n + drop \in DOMAIN saved /\ saved'[n] = saved[n + drop]
<1>1. saved \in Seq(Ids) /\ Len(saved) \in 0..Limit /\ Limit \in Nat \ {0}
  BY FileSaveAssumption DEF RequestTypes
<1>2. CASE Len(saved) = Limit
  <2>1. /\ Tail(saved) \in Seq(Ids) /\ Len(Tail(saved)) = Limit - 1
        /\ \A n \in 1..(Limit - 1) : Tail(saved)[n] = saved[n + 1]
    BY <1>1, <1>2
  <2>2. saved' = Append(Tail(saved), id)
    BY <1>2 DEF PushBack, Full
  <2>3. /\ DOMAIN saved' = 1..Limit /\ saved'[Limit] = id
        /\ \A n \in 1..(Limit - 1) : saved'[n] = saved[n + 1]
    BY <1>1, <2>1, <2>2
  <2> QED BY <1>1, <1>2, <2>3 DEF Full
<1>3. CASE Len(saved) # Limit
  <2>1. saved' = Append(saved, id)
    BY <1>3 DEF PushBack, Full
  <2>2. /\ DOMAIN saved' = 1..(Len(saved) + 1) /\ saved'[Len(saved) + 1] = id
        /\ \A n \in 1..Len(saved) : saved'[n] = saved[n]
    BY <1>1, <2>1
  <2> QED BY <1>1, <1>3, <2>2 DEF Full
<1> QED BY <1>2, <1>3

LEMMA RemoveContextFilesOnce ==
    ASSUME RequestInv, FiledOnce, NEW id \in easyCtxs, NEW deleted,
           RemoveContext(id, deleted), UNCHANGED contextId
    PROVE  FiledOnce'
<1> DEFINE drop == IF Full THEN 1 ELSE 0
           last == Len(saved) + 1 - drop
<1>1. id \in Ids /\ id < contextId /\ PushBack(id) /\ easyCtxs' = easyCtxs \ {id}
  BY DEF RequestInv, RequestTypes, CounterAhead, RemoveContext
<1>2. /\ last \in Nat \ {0} /\ DOMAIN saved' = 1..last
      /\ saved'[last] = id
      /\ \A n \in 1..(last - 1) :
            n + drop \in DOMAIN saved /\ saved'[n] = saved[n + drop]
  BY <1>1, PushBackPlaces DEF RequestInv
<1>3. drop \in {0, 1}
  OBVIOUS
<1> HIDE DEF drop, last
<1>4. ASSUME NEW n \in 1..(last - 1)
      PROVE  /\ saved'[n] < contextId /\ saved'[n] \notin easyCtxs
             /\ saved'[n] # id
  BY <1>2, <1>4 DEF FiledOnce
<1>5. ASSUME NEW n \in DOMAIN saved'
      PROVE  saved'[n] < contextId' /\ saved'[n] \notin easyCtxs'
  <2>1. n = last \/ n \in 1..(last - 1)
    BY <1>2
  <2> QED BY <1>1, <1>2, <1>4, <2>1
<1>6. ASSUME NEW m \in DOMAIN saved', NEW n \in DOMAIN saved', saved'[m] = saved'[n]
      PROVE  m = n
  <2>1. /\ m \in Int /\ n \in Int /\ last \in Int
        /\ m = last \/ m \in 1..(last - 1)
        /\ n = last \/ n \in 1..(last - 1)
    BY <1>2
  <2>2. CASE m = last \/ n = last
    BY <1>2, <1>4, <1>6, <2>1, <2>2
  <2>3. CASE m \in 1..(last - 1) /\ n \in 1..(last - 1)
    <3>1. m + drop = n + drop
      BY <1>2, <1>6, <2>3 DEF FiledOnce
    <3> QED BY <1>3, <2>1, <3>1
  <2> QED BY <2>1, <2>2, <2>3
<1> QED BY <1>5, <1>6 DEF FiledOnce

THEOREM FilesAreFiledOnce == Spec => []FiledOnce
<1>1. Init => FiledOnce
  BY DEF Init, FiledOnce
<1>2. ASSUME RequestInv, FiledOnce, [Next]_vars PROVE FiledOnce'
  <2>1. CASE UNCHANGED <<saved, easyCtxs, contextId>>
    BY <1>2, <2>1 DEF FiledOnce
  <2>2. ASSUME NEW motion \in BOOLEAN, Operator(motion) PROVE FiledOnce'
    <3>1. CASE UNCHANGED <<requestVars, fileVars>>
      BY <2>1, <3>1 DEF requestVars, fileVars
    <3>2. CASE /\ contextId \in Ids /\ contextId' = contextId + 1
               /\ easyCtxs' \subseteq easyCtxs \cup {contextId} /\ saved' = saved
      <4>1. ASSUME NEW n \in DOMAIN saved
            PROVE  /\ saved[n] \in Int /\ contextId \in Int
                   /\ saved[n] < contextId /\ saved[n] \notin easyCtxs
        <5>1. saved[n] \in Ids
          BY <1>2 DEF RequestInv, RequestTypes
        <5> QED BY <1>2, <3>2, <5>1 DEF FiledOnce, Ids
      <4>2. ASSUME NEW n \in DOMAIN saved'
            PROVE  saved'[n] < contextId' /\ saved'[n] \notin easyCtxs'
        BY <3>2, <4>1
      <4> QED BY <1>2, <3>2, <4>2 DEF FiledOnce
    <3> QED BY <2>2, <3>1, <3>2 DEF Operator, SaveFileAtEndpoint
  <2>3. CASE SocketAction
    <3>1. PICK ended \in SUBSET transfers : CheckMultiInfo(unread \cup ended)
      BY <2>3 DEF SocketAction
    <3>2. unread \cup ended \subseteq easyCtxs /\ UNCHANGED contextId
      BY <1>2, <2>3 DEF RequestInv, StagesApart, SocketAction
    <3>3. \/ UNCHANGED <<saved, easyCtxs>>
          \/ \E id \in easyCtxs, deleted \in SUBSET easyCtxs : RemoveContext(id, deleted)
      BY <3>1, <3>2 DEF CheckMultiInfo
    <3> QED BY <1>2, <2>1, <3>2, <3>3, RemoveContextFilesOnce
  <2>4. ASSUME NEW id \in Ids, RemovalTask(id) PROVE FiledOnce'
    <3>1. id \in easyCtxs /\ RemoveContext(id, {}) /\ UNCHANGED contextId
      BY <1>2, <2>4 DEF RequestInv, StagesApart, RemovalTask
    <3> QED BY <1>2, <3>1, RemoveContextFilesOnce
  <2>5. CASE \/ DebounceTask \/ Tick \/ UNCHANGED vars
             \/ \E id \in Ids : AioCompletes(id) \/ AioSigHandler(id)
    BY <2>1, <2>5 DEF DebounceTask, Tick, AioCompletes, AioSigHandler, vars,
                      requestVars, fileVars
  <2> QED BY <1>2, <2>2, <2>3, <2>4, <2>5 DEF Next
<1> QED BY <1>1, <1>2, RequestInvariant, PTL DEF Spec

Working == easyCtxs \cup caught

\* RemoveContext keeps a file, whichever requests' files it deletes besides, and
\* whichever exceptions were caught before.
LEMMA RemoveContextKeepsInArchive ==
    ASSUME RequestInv, RequestInv', FiledOnce, NEW id \in easyCtxs, id \notin caught',
           NEW deleted \in SUBSET easyCtxs, RemoveContext(id, deleted),
           caught \subseteq caught', caught' \subseteq caught \cup easyCtxs
    PROVE  Directory!Keep(id)
<1>1. /\ disk' = DiskWithout(deleted \cup Oldest) /\ PushBack(id)
      /\ Working' = Working \ {id} /\ disk' \in [Ids -> Contents]
  BY DEF RemoveContext, RequestInv, RequestTypes, Working
<1>2. Directory!OnlyChanges(Working \cup (IF Directory!Full THEN {saved[1]} ELSE {}))
  BY <1>1 DEF Directory!OnlyChanges, Directory!Full, DiskWithout, Oldest, Full, Working
<1>3. Directory!Full => disk'[saved[1]] = "absent"
  <2> SUFFICES ASSUME Directory!Full PROVE disk'[saved[1]] = "absent"
    OBVIOUS
  <2>1. saved \in Seq(Ids) /\ Len(saved) = Limit /\ Limit \in Nat \ {0}
    BY FileSaveAssumption DEF RequestInv, RequestTypes, Directory!Full
  <2>2. saved[1] \in Ids /\ saved[1] \in Oldest
    BY <2>1 DEF Oldest, Full
  <2> QED BY <1>1, <2>2 DEF DiskWithout
<1> QED BY <1>1, <1>2, <1>3 DEF Directory!Keep, Directory!Full, PushBack, Full, Working

\* A step that leaves the list and the files of others alone is work.
LEMMA WorkOnOwnFiles ==
    ASSUME RequestInv', saved' = saved, Working' = Working,
           \A x \in Ids : x \notin easyCtxs => disk'[x] = disk[x]
    PROVE  Directory!Work
BY DEF RequestInv, RequestTypes, Directory!Work, Directory!OnlyChanges, Working

\* The file saver's directory is an archive of the files last finished, for any
\* limit and whatever fails: no file in the list is touched before its turn
\* (AsyncFileSave.cxx:93-162, 219-287, 395-420, 438-461).
THEOREM ImplementsArchive == Spec => Archived
<1>1. Init => Directory!Init
  BY DEF Init, Directory!Init, Working
<1>2. ASSUME RequestInv, RequestInv', FiledOnce, [Next]_vars
      PROVE  [Directory!Next]_<<Working, saved, disk>>
  <2>1. CASE UNCHANGED <<Working, saved, disk>>
    BY <2>1
  <2>2. ASSUME NEW motion \in BOOLEAN, Operator(motion)
        PROVE  Directory!Next \/ UNCHANGED <<Working, saved, disk>>
    <3>1. CASE UNCHANGED <<requestVars, fileVars>>
      BY <3>1 DEF requestVars, fileVars, Working
    <3>2. CASE /\ contextId \in Ids
               /\ Working' = Working \cup {contextId}
               /\ disk' = [disk EXCEPT ![contextId] = "created"] /\ saved' = saved
      <4>1. contextId \in Int /\ contextId \notin Working
        BY <1>2, <3>2 DEF RequestInv, RequestTypes, CounterAhead, Ids, Working
      <4>2. \A n \in DOMAIN saved : saved[n] # contextId
        BY <1>2, <4>1 DEF FiledOnce
      <4>3. disk[contextId] = "absent"
        BY <1>2, <3>2, <4>1, <4>2 DEF RequestInv, NoForgottenFile, SavedIds, Working
      <4>4. Directory!OnlyChanges({contextId})
        BY <1>2, <3>2 DEF RequestInv, RequestTypes, Directory!OnlyChanges
      <4>5. Directory!Begin(contextId)
        BY <3>2, <4>1, <4>2, <4>3, <4>4 DEF Directory!Begin, Working
      <4> QED BY <3>2, <4>5 DEF Directory!Next
    <3> QED BY <2>2, <3>1, <3>2 DEF Operator, SaveFileAtEndpoint, Working
  <2>3. CASE SocketAction
    <3>1. PICK ended \in SUBSET transfers : CheckMultiInfo(unread \cup ended)
      BY <2>3 DEF SocketAction
    <3>2. unread \cup ended \subseteq easyCtxs
      BY <1>2 DEF RequestInv, StagesApart
    <3>3. \E threw, deleted \in SUBSET easyCtxs :
             /\ caught' = caught \cup threw
             /\ \/ UNCHANGED <<saved, easyCtxs>> /\ disk' = DiskWithout(deleted)
                \/ \E id \in easyCtxs \ threw :
                      id \in unread \cup ended /\ RemoveContext(id, deleted)
      BY <3>1, <3>2 DEF CheckMultiInfo
    <3>4. PICK threw \in SUBSET easyCtxs, deleted \in SUBSET easyCtxs :
             /\ caught' = caught \cup threw
             /\ \/ UNCHANGED <<saved, easyCtxs>> /\ disk' = DiskWithout(deleted)
                \/ \E id \in easyCtxs \ threw :
                      id \in unread \cup ended /\ RemoveContext(id, deleted)
      BY <3>3
    <3>5. CASE UNCHANGED <<saved, easyCtxs>> /\ disk' = DiskWithout(deleted)
      <4>1. \A x \in Ids : x \notin easyCtxs => disk'[x] = disk[x]
        BY <3>5 DEF DiskWithout
      <4>2. Working' = Working
        BY <3>4, <3>5 DEF Working
      <4> QED BY <1>2, <3>5, <4>1, <4>2, WorkOnOwnFiles DEF Directory!Next
    <3>6. ASSUME NEW id \in easyCtxs \ threw, id \in unread \cup ended,
                 RemoveContext(id, deleted)
          PROVE  Directory!Next
      <4>1. id \in Ids /\ id \notin caught'
        BY <1>2, <3>4, <3>6 DEF RequestInv, RequestTypes, ThrownIsLetGo
      <4>2. caught \subseteq caught' /\ caught' \subseteq caught \cup easyCtxs
        BY <3>4
      <4> QED BY <1>2, <3>6, <4>1, <4>2, RemoveContextKeepsInArchive DEF Directory!Next
    <3> QED BY <3>4, <3>5, <3>6
  <2>4. ASSUME NEW id \in Ids, AioCompletes(id) PROVE Directory!Next
    <3>1. id \in easyCtxs /\ saved' = saved /\ Working' = Working
      BY <1>2, <2>4 DEF RequestInv, StagesApart, AioCompletes, requestVars, Working
    <3>2. \/ disk' = [disk EXCEPT ![id] = body[id]]
          \/ disk' = [disk EXCEPT ![id] = "part"]
          \/ disk' = disk
      BY <2>4, Zenon DEF AioCompletes
    <3>3. \A x \in Ids : x \notin easyCtxs => disk'[x] = disk[x]
      BY <1>2, <3>1, <3>2 DEF RequestInv, RequestTypes
    <3> QED BY <1>2, <3>1, <3>3, WorkOnOwnFiles DEF Directory!Next
  <2>5. ASSUME NEW id \in Ids, RemovalTask(id) PROVE Directory!Next
    <3>1. /\ id \in easyCtxs /\ RemoveContext(id, {})
          /\ id \notin caught' /\ caught' = caught
      BY <1>2, <2>5 DEF RequestInv, StagesApart, ThrownIsLetGo, RemovalTask
    <3> QED BY <1>2, <3>1, RemoveContextKeepsInArchive DEF Directory!Next
  <2>6. CASE \/ DebounceTask \/ Tick \/ UNCHANGED vars
             \/ \E id \in Ids : AioSigHandler(id)
    BY <2>6 DEF DebounceTask, Tick, AioSigHandler, vars, requestVars, fileVars, Working
  <2> QED BY <1>2, <2>1, <2>2, <2>3, <2>4, <2>5, <2>6 DEF Next
<1>3. QED
  BY <1>1, <1>2, RequestInvariant, FilesAreFiledOnce, PTL
     DEF Spec, Archived, Directory!Spec, Working

=============================================================================
