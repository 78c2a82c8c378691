---------------------------- MODULE AsyncFileSave ---------------------------
(***************************************************************************)
(* One AsyncFileSave (src/src/Callback/AsyncFileSave.cxx, its Linux        *)
(* branches): on motion it asks a URL for an image, and when libcurl has   *)
(* the whole response it hands the buffer to POSIX asynchronous I/O, whose *)
(* signal schedules the task that files the image and drops the context.   *)
(*                                                                         *)
(* A file is named by the id of its request, for names are times of the    *)
(* clock, with fractions of a second, and requests are at least            *)
(* debounceTime apart.  Ids number the requests whose file was created;    *)
(* the code's contextId does not count those of them whose set-up then     *)
(* failed, which have no context, so the others are in the same order.     *)
(* Time is counted in ticks for the debouncer alone.                       *)
(***************************************************************************)
EXTENDS Sequences, AsyncDebouncer

CONSTANTS
    MaxId,          \* BOUND: image requests made in a behaviour
    Limit,          \* capacity of savedFilePaths_ (SetLimitSavedFilePaths)
    DebounceTime,   \* debounceTime, in ticks
    Bodies,         \* how a transfer may end: "none", "image", "cut"
    Faults          \* what else may go wrong: see Fault below

Ids == 1..MaxId

\* "setup": libcurl does not take the request for which a file was created;
\* "together": transfers end in one call of libcurl; "refused": aio_write does
\* not take the request; "error" and "short": it fails, or writes less than it
\* was given; "lost": its signal finds one pending, and signals do not queue;
\* "unremovable": a file is not removed, but std::filesystem::remove throws.
AllFaults == {"setup", "together", "refused", "error", "short", "lost", "unremovable"}

ASSUME FileSaveAssumption ==
    /\ MaxId \in Nat
    /\ Limit \in Nat \ {0}
    /\ DebounceTime \in Nat \ {0}
    /\ Bodies \subseteq {"none", "image", "cut"}
    /\ Faults \subseteq AllFaults

VARIABLES
    debouncer,      \* the AsyncDebouncer base
    windowLeft,     \* ticks until its task runs, or Off
    contextId,      \* contextId
    easyCtxs,       \* the keys of easyCtxs_
    transfers,      \* the requests libcurl is working on
    unread,         \* those whose CURLMSG_DONE has not been read
    body,           \* what a response was: "none" for any status but 200, 201
    caught,         \* the requests for which an exception was caught and logged
    writes,         \* contexts whose aio_write is under way
    signals,        \* the contexts of pending IO_SIGNALs
    removals,       \* contexts whose removal task is scheduled
    lost,           \* those whose signal merged with a pending one
    saved,          \* savedFilePaths_
    disk,           \* the destination directory
    calm            \* ticks since a frame showed motion

windowVars == <<debouncer, windowLeft, calm>>
requestVars == <<contextId, easyCtxs, transfers, unread, body, caught>>
writeVars == <<writes, signals, removals, lost>>
fileVars == <<saved, disk>>
vars == <<windowVars, requestVars, writeVars, fileVars>>

Off == -1

Init ==
    /\ debouncer = NewDebouncer /\ windowLeft = Off
    /\ contextId = 1
    /\ easyCtxs = {} /\ transfers = {} /\ unread = {}
    /\ body = [id \in Ids |-> "none"] /\ caught = {}
    /\ writes = {} /\ signals = {} /\ removals = {} /\ lost = {}
    /\ saved = <<>>
    /\ disk = [id \in Ids |-> "absent"]
    /\ calm = DebounceTime

-----------------------------------------------------------------------------
(* The detector's frames, and the debounce window.                         *)

\* SaveFileAtEndpoint: the file is created, and the request handed to libcurl;
\* if that throws, the context goes and the file stays. If the file cannot be
\* opened nothing else happens.
SaveFileAtEndpoint ==
    \/ /\ contextId \in Ids
       /\ contextId' = contextId + 1
       /\ disk' = [disk EXCEPT ![contextId] = "created"]
       /\ \/ /\ easyCtxs' = easyCtxs \cup {contextId}
             /\ transfers' = transfers \cup {contextId}
             /\ UNCHANGED caught
          \/ /\ "setup" \in Faults
             /\ caught' = caught \cup {contextId}
             /\ UNCHANGED <<easyCtxs, transfers>>
       /\ UNCHANGED <<unread, body, saved>>
    \/ UNCHANGED <<requestVars, fileVars>>

\* MUTANT: motion does not move the end of the window.
OperatorWithoutReschedule(motion) ==
    /\ IF debouncer.updateAllowed /\ motion
       THEN SaveFileAtEndpoint /\ debouncer' = Debounce(debouncer, DebounceTime)
                               /\ windowLeft' = DebounceTime
       ELSE UNCHANGED <<requestVars, fileVars, debouncer, windowLeft>>
    /\ calm' = IF motion THEN 0 ELSE calm
    /\ UNCHANGED writeVars

\* operator()(data), motion standing for a payload with regions of interest.
\* lastRois is never assigned, so every frame with motion is a rising edge.
\* The second Debounce moves the window the first may just have opened.
Operator(motion) ==
    LET saving == debouncer.updateAllowed /\ motion
        opened == IF saving THEN Debounce(debouncer, DebounceTime) ELSE debouncer
        moving == ~opened.updateAllowed /\ motion
    IN  /\ IF saving THEN SaveFileAtEndpoint
                     ELSE UNCHANGED <<requestVars, fileVars>>
        /\ debouncer' = IF moving THEN Debounce(opened, DebounceTime) ELSE opened
        /\ windowLeft' = IF moving THEN DebounceTime ELSE windowLeft
        /\ calm' = IF motion THEN 0 ELSE calm
        /\ UNCHANGED writeVars

\* The scheduler runs the task that ends the window.
DebounceTask ==
    /\ windowLeft = 0
    /\ \E token \in debouncer.scheduled :
          debouncer' = DebounceUpdateProc(debouncer, token)
    /\ windowLeft' = Off
    /\ UNCHANGED <<calm, requestVars, writeVars, fileVars>>

\* A task that is due runs before time goes on.
Tick ==
    /\ windowLeft # 0
    /\ windowLeft' = IF windowLeft = Off THEN Off ELSE windowLeft - 1
    /\ calm' = IF calm < DebounceTime THEN calm + 1 ELSE calm
    /\ UNCHANGED <<debouncer, requestVars, writeVars, fileVars>>

-----------------------------------------------------------------------------
(* Filing an image.                                                        *)

SavedIds == {saved[n] : n \in DOMAIN saved}

Full == Len(saved) = Limit

\* MUTANT: the buffer's capacity is never set.
PushBackGrowing(id) == saved' = Append(saved, id)

\* boost::circular_buffer::push_back, which drops the front of a full buffer.
PushBack(id) ==
    saved' = Append(IF Full THEN Tail(saved) ELSE saved, id)

\* MUTANT: the front goes also from a buffer that has room.
OldestOfAny == IF saved = <<>> THEN {} ELSE {saved[1]}

\* The file that RemoveContext deletes before it files another.
Oldest == IF Full THEN {saved[1]} ELSE {}

DiskWithout(ids) == [id \in Ids |-> IF id \in ids THEN "absent" ELSE disk[id]]

\* MUTANT: the file of the path that is dropped stays on the disk.
RemoveContextKeepingOldest(id, deleted) ==
    /\ disk' = DiskWithout(deleted)
    /\ PushBack(id)
    /\ easyCtxs' = easyCtxs \ {id}

\* RemoveContext, after the files `deleted' have been removed.
RemoveContext(id, deleted) ==
    /\ disk' = DiskWithout(deleted \cup Oldest)
    /\ PushBack(id)
    /\ easyCtxs' = easyCtxs \ {id}

-----------------------------------------------------------------------------
(* The end of transfers.                                                   *)

\* MUTANT: the context is dropped with its handle.
CheckMultiInfoErasing(done) ==
    /\ unread' = {}
    /\ writes' = writes \cup {id \in done : body'[id] # "none"}
    /\ easyCtxs' = easyCtxs \ done
    /\ UNCHANGED <<disk, saved, caught>>

\* CheckMultiInfo, with the messages `done' to read in libcurl's order. A
\* response that is an image goes to aio_write, and the file is deleted if that
\* refuses it; its context stays in any case. Of a response that is no image
\* the file is deleted and the context removed, and the function returns. Where
\* a file cannot be removed, the refused or failed request's own or the oldest
\* of a full list, the exception is caught and the next message read; the
\* context then stays.
CheckMultiInfo(done) ==
    \E read \in SUBSET done : \E refused, threw, deleted \in SUBSET read :
        LET failed == {id \in read : body'[id] = "none"} IN
        /\ refused # {} => "refused" \in Faults
        /\ threw # {} => "unremovable" \in Faults
        /\ refused \cap failed = {}
        /\ threw \subseteq failed \cup refused
        /\ (failed \cup refused) \ threw \subseteq deleted
        /\ deleted \subseteq (failed \cup refused) \ (IF Full THEN threw \ failed ELSE threw)
        /\ unread' = done \ read
        /\ writes' = writes \cup (read \ (failed \cup refused))
        /\ caught' = caught \cup threw
        /\ \/ /\ failed \subseteq threw /\ read = done
              /\ disk' = DiskWithout(deleted)
              /\ UNCHANGED <<saved, easyCtxs>>
           \/ \E id \in read :
                 /\ failed \ threw = {id}
                 /\ RemoveContext(id, deleted)

\* BackgroundHandlerProc and TimeoutHandlerProc: curl_multi_socket_action may
\* end some transfers, and messages are read. A superfluous timer task may also
\* come when there are no transfers.
SocketAction ==
    /\ \E ended \in SUBSET transfers :
          /\ (\E i, j \in ended : i # j) => "together" \in Faults
          /\ \E got \in [ended -> Bodies] :
                body' = [id \in Ids |-> IF id \in ended THEN got[id] ELSE body[id]]
          /\ transfers' = transfers \ ended
          /\ CheckMultiInfo(unread \cup ended)
    /\ UNCHANGED <<contextId, signals, removals, lost, windowVars>>

-----------------------------------------------------------------------------
(* The end of writes.                                                      *)

\* The kernel and the C library finish a write and raise IO_SIGNAL.
AioCompletes(id) ==
    /\ id \in writes
    /\ writes' = writes \ {id}
    /\ \/ disk' = [disk EXCEPT ![id] = body[id]]
       \/ "short" \in Faults /\ disk' = [disk EXCEPT ![id] = "part"]
       \/ "error" \in Faults /\ UNCHANGED disk
    /\ IF signals = {}
       THEN signals' = {id} /\ UNCHANGED lost
       ELSE "lost" \in Faults /\ lost' = lost \cup {id} /\ UNCHANGED signals
    /\ UNCHANGED <<removals, saved, requestVars, windowVars>>

\* MUTANT: only a complete write schedules the removal of its context.
AioSigHandlerKeepingErrors(id) ==
    /\ id \in signals
    /\ signals' = signals \ {id}
    /\ removals' = IF disk[id] = body[id] THEN removals \cup {id} ELSE removals
    /\ UNCHANGED <<writes, lost, fileVars, requestVars, windowVars>>

\* AioSigHandler: a write that was short keeps its context, any other end of a
\* write schedules its removal.
AioSigHandler(id) ==
    /\ id \in signals
    /\ signals' = signals \ {id}
    /\ removals' = IF disk[id] = "part"
                   THEN removals ELSE removals \cup {id}
    /\ UNCHANGED <<writes, lost, fileVars, requestVars, windowVars>>

\* The task AioSigHandler scheduled. If the oldest file cannot be removed, its
\* exception ends the process before anything has changed, which is where the
\* behaviour ends.
RemovalTask(id) ==
    /\ id \in removals
    /\ removals' = removals \ {id}
    /\ RemoveContext(id, {})
    /\ UNCHANGED <<writes, signals, lost, contextId, transfers, unread, body, caught,
                   windowVars>>

Next ==
    \/ \E motion \in BOOLEAN : Operator(motion)
    \/ DebounceTask
    \/ Tick
    \/ SocketAction
    \/ \E id \in Ids : AioCompletes(id) \/ AioSigHandler(id) \/ RemovalTask(id)

Spec == Init /\ [][Next]_vars

\* The server answers every request, writes end, and the event loop goes on and
\* runs what is due; nothing makes motion happen, and libcurl has sockets and
\* timers of its own only for transfers.
FairSpec ==
    /\ Spec
    /\ WF_vars(transfers # {} /\ SocketAction)
    /\ \A id \in Ids : /\ WF_vars(AioCompletes(id))
                       /\ WF_vars(AioSigHandler(id))
                       /\ WF_vars(RemovalTask(id))

-----------------------------------------------------------------------------
(* Properties.                                                             *)

\* "part" is what a short write leaves, "cut" a response that was cut short.
Contents == {"absent", "created", "image", "cut", "part"}

\* Type correctness; the list of saved paths stays within its capacity.
TypeOK ==
    /\ debouncer \in Debouncer
    /\ windowLeft \in Off..DebounceTime
    /\ contextId \in 1..(MaxId + 1)
    /\ easyCtxs \subseteq Ids /\ transfers \subseteq Ids /\ unread \subseteq Ids
    /\ body \in [Ids -> {"none", "image", "cut"}] /\ caught \subseteq Ids
    /\ writes \subseteq Ids /\ signals \subseteq Ids /\ removals \subseteq Ids
    /\ lost \subseteq Ids
    /\ saved \in Seq(Ids) /\ Len(saved) <= Limit
    /\ disk \in [Ids -> Contents]
    /\ calm \in 0..DebounceTime

\* A context's life: it is in one stage at a time.
Stages == <<transfers, unread, writes, signals, removals>>

\* Every reference to a context, held by libcurl, by the kernel, by a signal
\* or by a task, points to one that is still in the map, and no context is in
\* two hands: none is removed twice, none while its buffer is being written
\* (CheckMultiInfo, AioSigHandler, RemoveContext).
PointersLive ==
    /\ \A s \in DOMAIN Stages : Stages[s] \subseteq easyCtxs
    /\ \A s, t \in DOMAIN Stages : s # t => Stages[s] \cap Stages[t] = {}

\* No file is forgotten that was not left by an exception: what is on the disk is
\* in the list that limits it, or has a context, or its request's set-up threw
\* after the file was created and the catch only logged it
\* (SaveFileAtEndpoint, CheckMultiInfo, RemoveContext).
NoForgottenFile ==
    \A id \in Ids : disk[id] # "absent" => id \in SavedIds \cup easyCtxs \cup caught

\* An image is asked for only when there has been no motion for debounceTime:
\* one image per episode of motion, although lastRois never remembers a frame
\* (operator()).
OneImagePerEpisode ==
    [][contextId' # contextId => calm = DebounceTime]_vars

\* What keeps a context for ever, since nothing tries again: aio_write refused
\* it, or wrote a part; its signal was lost; a file that could not be removed
\* threw while its message was read; or its message waits behind a failed
\* response, and there are no transfers left to have it read.
Refused(id) == body[id] # "none" /\ disk[id] = "absent"
Abandoned(id) ==
    \/ Refused(id) \/ disk[id] = "part" \/ id \in lost \/ id \in caught
    \/ id \in unread /\ transfers = {}

\* Every context goes, also after a failed response or a write that failed, or
\* is abandoned in one of these ways (CheckMultiInfo, AioSigHandler).
ContextsEnd ==
    \A id \in Ids : id \in easyCtxs ~> (id \notin easyCtxs \/ Abandoned(id))

\* One request per window: the file saver implements the abstract rate limiter,
\* a window being open while its task is in the scheduler's queue.
Limiter == INSTANCE RateLimiter
    WITH Clients <- {"saver"}, Requests <- Ids,
         open <- IF debouncer.scheduled = {} THEN {} ELSE {"saver"},
         sent <- [c \in {"saver"} |-> 1..(contextId - 1)]

RateLimited == Limiter!Spec

\* The directory is an archive of the files last finished: a file in the list
\* keeps its contents until it is the oldest of a full list and another is
\* filed, and then it is deleted; a request's file is in nobody else's hands,
\* and one that an exception left is never finished (SaveFileAtEndpoint,
\* CheckMultiInfo, RemoveContext).
Directory == INSTANCE Archive
    WITH Files <- Ids, Absent <- "absent",
         working <- easyCtxs \cup caught, kept <- saved, contents <- disk

Archived == Directory!Spec

\* GetPendingFileOperations comes back to 0: every context goes.
PendingFileOperationsEnd ==
    \A id \in Ids : [](id \in easyCtxs => <>(id \notin easyCtxs))

=============================================================================
