# Verification of the motion detection add-on

TLA+ models of the C++ program in `src/`, model-checked with TLC and proved
about with TLAPS. The program watches video feeds for motion, keeps a sensor in
Home Assistant up to date for each feed, saves an image when motion begins, and
shows the feeds in a web page.

Line numbers are those of the files under `src/src/` and `src/include/`.

## 1. The system

```
 camera --RTSP--> Live555VideoSource --+                       +--> AsyncHassHandler ----HTTP--> Home Assistant
                    ^   RestartWatcher |  frame      payload   |    (rtsp feeds)
                    +------ restarts   +--> Detector ----------+--> ThreadedHassHandler --HTTP--> Home Assistant
 camera --HTTP--> HttpVideoSource -----+    (motion)           |    (http feeds)
                                                               +--> AsyncFileSave --HTTP--> snapshot URL, disk
                                                               +--> WebHandler (thread) --> browsers
```

`App` (`main.cxx`) builds one chain per feed. Frames, detection and the handlers
are synchronous calls (`EventHandler::OnEvent`) in the thread that runs the
live555 event loop; libcurl's multi interface and POSIX asynchronous I/O are
driven from the same loop. Other threads: one updater per
`ThreadedHassHandler`, one listener in `WebHandler`.

### Inventory

| Component | State | Operations | What makes it correct |
|---|---|---|---|
| `AsyncDebouncer` | flag, task token | `Debounce`, `DebounceUpdateProc` | the flag is down exactly while the remembered task is pending |
| `BaseHassHandler` | `currentState_`, `nextState_` | response handlers, change test | `currentState_` is what Home Assistant has |
| `AsyncHassHandler` | contexts by id, multi handle, static `contextId` | `Register`, `UpdateState_Impl`, `CheckMultiInfo`, libcurl's procs | no handle outlives its context; one POST per debounce window; the initial state is learned |
| libcurl's callbacks, in `AsyncHassHandler` and `AsyncFileSave` | `socketCtxs_`, the timer task's token, the scheduler's handlers of descriptors | `SocketCallback`, `TimeoutCallback`, `BackgroundHandlerProc`, `TimeoutHandlerProc` | what libcurl asked for is watched, with live pointers; its timers are served |
| `ThreadedHassHandler` | `mtx_`, the updater's thread | `Start`, `Stop`, `UpdateState_Impl`, the loop | a lasting report is shown; what was acknowledged is what was posted; frames are not kept waiting for good; the join returns |
| `SyncHassHandler` | buffer | GET then POST | "unknown" at exit |
| `Live555VideoSource` | RTSP client, session, sinks, watchdog task | handshake handlers, packets, BYE, watchdog, `StopStream` | no task outlives its client; a stall is closed in time |
| `RestartWatcher` | interval | `CheckAndRestart` | an outage is followed by a retry within `maxInterval`, and by "unknown", which the handler may drop in its debounce window |
| `HttpVideoSource` | `isActive_` | a blocking loop of GETs | stops when told |
| `AsyncFileSave` | contexts, `savedFilePaths_`, aio control blocks, debouncer | `operator()`, `CheckMultiInfo`, signal handler, `RemoveContext` | one image per episode; no context is used after it is gone, and each goes or is in a named situation in which it stays; the list limits the files |
| `EventHandler`, `VideoSource` | callbacks, frame | `Subscribe`, `OnEvent`, `SetFrame` | every subscriber sees every event |
| `Detector`, `MOGMotionDetector` | background model | `FeedFrame` | regions above a size |
| `WebHandler` | feed markers, images, connections | listener loop, `operator()` | a viewer gets the stream it asked for, and the newest image; images are not read while swapped |
| `App` | sources, exit variable | start-up, loop, shutdown | every feed starts; "unknown" is the last state |
| options, curl wrappers, tools, logger, web pages | none of interest | | |

### What is hard

- **Two requests of one handler under way**, each response looked up under the
  key of the *next* request (`AsyncHassHandler.cxx:65,78,93`), a counter shared
  by all handlers, and transfers that end together or are cut short.
- **Debounce windows** that are opened, moved and ended by tasks in another
  library's queue.
- **Time-outs against late events**: the stream watchdog, the restart back-off,
  the debounce of the updater's thread, replies that are lost after Home
  Assistant applied the request.
- **Bare pointers** held by libcurl, the kernel, signals and delayed tasks.
- **Partial failure**: one track of several ends, one response of several is an
  error, a write falls short, the set-up of a request throws after its file was
  created, a file cannot be removed while messages are read.
- **Signals that do not queue** carry the ends of writes.
- **Two threads on the web server's data**: markers of one byte are handed out
  under one mutex and compared without it; images are written under one mutex
  and read under another.
- **Descriptors that are reused** by another handler or by the RTSP client, on
  one scheduler that keeps a bare pointer for each.
- **A mutex held during a request** that has no time-out, while the thread of the
  frames waits for it.

`PROJECT.json` lists each hazard with its line and the properties about it, or
the reason why there is none.

## 2. Modules

| Module | Models | Extends / instantiates |
|---|---|---|
| `AsyncDebouncer` | the debouncer, as functions of a record | |
| `AsyncHassHandler` | the event-loop handlers, their libcurl handles, Home Assistant | `AsyncDebouncer`; `RateLimiter` through a refinement mapping |
| `RateLimiter` | abstract: an attempt opens a window, and no request is made inside one | |
| `CurlSockets` | the callbacks by which libcurl asks for events, and the procs that bring them, which `AsyncHassHandler` and `AsyncFileSave` have in common | `MultiSocket` through a refinement mapping |
| `MultiSocket` | abstract: what libcurl's multi_socket interface asks of whoever waits for its events | |
| `Live555Source` | the RTSP client of one source and its camera | |
| `RestartWatcher` | the watcher composed with the source, the clock, and the debounce window of the source's handler | `Live555Source`; `Supervisor` through a refinement mapping |
| `Supervisor` | abstract: who alone starts a service that is down, when, and whom he tells before | |
| `AsyncFileSave` | downloading, writing and filing images | `AsyncDebouncer`; `RateLimiter` and `Archive` through refinement mappings |
| `Archive` | abstract: a directory keeps the last files that were finished, at most so many, and drops the oldest | |
| `ThreadedHassHandler` | the updater thread, the frames' thread, Home Assistant | |
| `WebHandler` | registration and encoding in the frames' thread, requests and broadcasts in the listener's | |
| `App` | the process: start-up, the http sources' loop, signals, the event loop, the exit with `SyncHassHandler` | |
| `MCAsyncHassHandler`, `MCRestartWatcher`, `MCCurlSockets`, `MCWebHandler` | definitions for TLC's instances | |
| `*_proofs` | theorems about the module of that name | `TLAPS` |

A definition keeps the name of its function. Definitions whose comment begins
with `MUTANT` are the same code with a plausible bug; each property of a passing
run is shown to fail for one of them, so that it is known to depend on the code.

### `AsyncDebouncer`

A record has `updateAllowed`, `taskToken`, and `scheduled`, the tasks of this
debouncer that are in the scheduler's queue. Three tokens are enough for a fresh
one always to exist (`FreshTokenExists` is proved). Neither real client ever
debounces with time left to move except `AsyncFileSave`, so that model is the
one that exercises the second branch.

### `AsyncHassHandler`

Per handler: the ids in `easyCtxs_`, the ids attached to the multi handle, the
finished transfers whose message is unread, `currentState_`, `nextState_`, the
debouncer. A request's record carries what the network did with it: whether Home
Assistant has applied it, what it answered, and how much of the answer arrived.
`HassHandles` may apply a request at any time after it was sent, also one that
the client has dropped. `Private(id) == id + 1` is what the code puts in
`CURLOPT_PRIVATE`, because `contextId++` has already been evaluated.

Each message of `CheckMultiInfo` is a step, and `EventLoopIdle` keeps other
callbacks from interleaving, since they run in the same thread.
`HandlePostResponse` includes the exception of reading an absent `entity_id`,
which leaves a null member behind. JSON documents are reduced to the report they
carry and the state of that member; attributes that Home Assistant adds are not
modelled.

### `CurlSockets`

The part of `AsyncHassHandler` and `AsyncFileSave` that is the same in both files:
`AsyncHassHandler` sees of it only that some transfers end (`SocketAction`).
`calling` is the handler whose libcurl is at work; until it returns only its
callbacks happen, all in the event loop's thread. `event` is the descriptor it was
called for, if for one. `owner` and `asked` are
libcurl's side: who has a descriptor open, and what it asked for last. `socketp`
is the pointer libcurl passes back to `SocketCallback`. `context` is memory: a
context that no map holds may be overwritten by the next one (`Live`), so that a
stale pointer would show a wrong handler. The RTSP client opens and closes
descriptors on the same scheduler.

`TimeoutCallback` never unschedules the task of an earlier timer when it
schedules a new one; the superfluous ones call libcurl, which finds nothing due.
Unscheduling by the token of a task that has run does nothing. libcurl sets a
timer anew when it finds it expired (`expired`).

### `Live555Source` and `RestartWatcher`

`phase` is the answer the client waits for; `StopStream` is the whole chain
`StopStream_Impl`, `shutdownStream`, `~StreamClientState`. `SetupNextSubsession`
is called by the actions that call it. Tracks are of three kinds, by what the
code does with them. `RestartWatcher` adds the timers, of the handler what decides
whether a report is posted, and three history variables, `silent`, `downFor` and
`dark`.

`report` is what the handler was last called with, `posted` what it last sent to
Home Assistant, `known` the state in its `currentState_`, and `window` the rest of
its debounce window. `UpdateState_Impl` drops what is reported while the window is
open, the watcher's null payload too (`AsyncHassHandler.cxx:57`): nothing posts it
when the window ends, so "unknown" then waits for the watcher's next check.
`ResponseHandled` is a response at any time; it takes the last report for the state
Home Assistant has, also when that was not posted (`BaseHassHandler.cxx:166`). All
reports of frames are `seen`, of which two may differ. Whether a POST arrives is in
`AsyncHassHandler`.

Time is in ticks. A timer that is due runs before the next tick: nothing in this
composition blocks the loop. A camera in order sends a packet before the
watchdog's time is over; every misbehaviour (a refused request, an undecodable
packet, silence, death) is taken from a budget, `troubles`.

Ages are counted up to `Horizon`, which is larger than every bound they are
compared with; frames up to `FrameBound`, and the default limit of `StartStream`
is one more.

### `AsyncFileSave`

A context is in one hand after another: libcurl (`transfers`), an unread message
(`unread`), the kernel (`writes`), a pending signal (`signals`), a removal task
(`removals`). `Faults` selects what may go wrong beyond a failed or truncated
download. `calm` is a history variable for one property. Files are named by
request id: names are times of the system clock with fractions of a second, and
requests are at least `debounceTime` apart, so that they differ unless the clock is
set back. Ids number the requests whose file was created; the code's `contextId`
does not count those whose set-up then threw, which changes no order. `lost`
remembers the contexts whose signal was lost, and `caught` the requests for which an
exception was caught and logged, for the exceptions of two properties.

An exception in `SaveFileAtEndpoint` after `open()` (lines 138-155) destroys the
context and leaves the file. One of `std::filesystem::remove` in `CheckMultiInfo`
(lines 260, 268, and 445 within `RemoveContext`) leaves the context in the map with
its handle removed, and the next message is read. In the removal task nobody
catches it: the exception leaves the event loop before the task has changed
anything and the process ends, so that such a behaviour is the beginning of one
that is modelled. Of the calls before the `try` (`is_directory`, `make_shared`) no
exception is modelled.

The Linux branches are modelled. The signal handler runs between two steps of
the loop; a signal that interrupts the scheduler's own list operations is a data
race that the model does not cover. `Limit` is at least 1; it is `saveImageLimit`
of the options, which no document mentions, and counts the files of this run only:
those of earlier runs stay in the directory.

### `ThreadedHassHandler`

The updater is `created`, `waiting`, `posting` or `ended`; it holds `mtx_` while
posting. A frame arrives in two steps: `Frame`, the thread that brings it comes
to `UpdateState_Impl`, and `Report`, it has got the mutex. A wait may end at any
time: notified, timed out or spuriously. Home Assistant applies the POST under way
at some time (`HassApplies`), and it ends `ok`, `failed` (an error with a content
type, or a failed transfer) or `untyped` (an error without a content type). One
that ended otherwise than `ok` before it was applied may still be, at any later
time, also after a later POST (`HassAppliesLate`). `curl_easy_perform` is called through `CurlWrapper`,
which throws when a transfer fails, so that only `ok` and `untyped` reach the
assignment of `lastStateUpdate`. The initial delay uses whichever of the two
debounce times the new thread reads, since `App` sets the real one after
`Start`. `shownBy` is a history variable: whether Home Assistant shows what came
with a POST that was answered, with the one under way, or with one whose answer
was never read. No timeout is set on a POST (line 58), and none is assumed to end.

### `WebHandler`

The listener is one thread, so one connection is enough to follow: what it sends
to one does not depend on the others. A step of either thread ends where the
other can see or change something. `feedMappingMtx` is held from `NewFeed` to
`Register`, which keeps `SafeGetFeedId` out; `BroadcastMjpegFrame` compares
markers without it. `BroadcastMutex` is the crossing of the two mutexes in
`FeedImageData`'s constructor. `jpgBuf` and the encoder's own vector exchange
their storage in `Swap`, so `from` says which of them owns the bytes that the
listener reads. Images of a stream are tags of which successive ones differ, so
two are enough. The kinds `L` and `M`, a websocket's `W`, and the marker are the
bytes of `c->data` and of the broadcast data.

The counter is a `char`: `CharMin` and `CharLast` are its range, and `Incremented`
wraps. Where `char` is signed the counter goes below zero after 127 feeds (the
comment in line 234 says 128), and later feeds are never shown; `warnOnce` is
never set, so the warning is repeated with each frame. Where it is unsigned, as on
aarch64, which `src/motion_detection_addon/config.yaml` lists, it comes to 0 and
then to markers that are in use: with more feeds than there are positive markers,
255, `OwnStream` then fails (a configuration with `CharMin` 0, `CharLast` 2 and
three feeds shows it). `CounterFits` says that this cannot happen. A viewer that asks for a feed
before its first frame is given the marker 0 and is never sent an image;
`NewestIsSeen` excepts it.

### `App`

`main` is where the main thread is, `at` the feed it is at in each of its loops.
A feed is reduced to what the control depends on: its scheme and whether it has
an entity and of which kind; a feed whose scheme App does not know is skipped, so
`FeedCount` feeds stand for all smaller numbers too. The order of
`opts.feeds`, an unordered map, is any. What the handlers do inside their own
modules is here a choice: an updater thread posts `nextState` whenever it
exists, an event-loop handler may post what is reported to it. The handler of an
entity of an unsupported kind throws; the source catches that for a frame
(`Live555.cxx:373`), but not the watcher for its null payload, so `LoopReports` fails
the process. `sent` holds what
they have on the network; `Arrives` applies or loses it at any time, also after
the process has ended. Two POSTs of one entity with the same state on the network
at once count as one. `HttpVideoSource`'s loop has no step out of it: only
`StopStream` clears `isActive_`, and its only caller would be the thread in the
loop.

## 3. What is checked

Passing runs; deadlock is checked in all but `app`, where the process ends.

| Run | Instance | Properties |
|---|---|---|
| `async_hass` | 2 handlers, 2 reports, 4 requests, positive debounce | `TypeOK`, `DebounceWindows`, `NeverTwoCancelled`, `NoDanglingHandle`, `ErasedByPredecessor`, refinement `RateLimited` |
| `curl_sockets` | 2 handlers, 2 descriptors, 3 contexts, 2 pending tasks each | `TypeOK`, `WatchesAgree`, `TimerServed`, refinement `ServesLibcurl` |
| `watched_stream` | 6 session kinds, 3 troubles anywhere, death in any phase | `TypeOK`, `WatchdogHasClient`, `StallBounded`, `OutageBounded`, `StateIsRecent`, liveness `RecoversOrHangs`, refinement `Supervised` |
| `file_save` | 3 requests, limit 2, every fault | `TypeOK`, `PointersLive`, `NoForgottenFile`, `OneImagePerEpisode`, liveness `ContextsEnd`, refinements `RateLimited`, `Archived` |
| `threaded_hass` | 3 states, 3 requests may go wrong | `TypeOK`, `AcknowledgedIsCurrent`, `ShownIsCurrent`, liveness `Converges`, `FramesGoOn`, `StopEnds` |
| `web` | 3 feeds, a `char` up to 2, 1 connection, 2 images | `TypeOK`, `OwnStream`, liveness `NewestIsSeen` |
| `app` | all lists of up to 2 feeds | `TypeOK`, `SuccessMeansUnknown`, `LastWord`, `SignalEndsApp` |

What they say:

- `DebounceWindows`: no lost task mutes a sensor for ever, no stray one ends a
  window early. `RateLimited`: one POST per window, as refinement of
  `RateLimiter`, with a window being open while the *scheduler* holds the task.
- `NoDanglingHandle`: although the wrong context is erased, its handle has left
  the multi handle by then, and the shared counter never makes one handler find
  another's context. `NeverTwoCancelled`: a response drops at most the request
  made next, and never two in a row. `ErasedByPredecessor`: a context goes only when the
  request just before it, of the same handler, has completed; so a handler's first
  context, and each that follows another handler's, is never freed.
- `WatchdogHasClient`: the task with a bare pointer to the client is pending
  exactly while there is a streaming client. `StallBounded`: at most twice
  `waitForFrame` of silence. `OutageBounded`: at most `maxInterval` between two
  attempts. `StateIsRecent`: the state a sensor was last given is of a stream that
  has been silent for at most twice `waitForFrame`, or of a source that has been
  without a client for at most `debounceTime` + `maxInterval`, for a null payload
  that falls into the debounce window is dropped and the next one comes an interval
  later. When that check begins a handshake inside the window, the old state stays for
  as long as the camera makes the handshake last, beyond at most `debounceTime`
  without a client. It excepts a handler whose `currentState_` says "unknown"
  already, which a null payload that was dropped may bring about: that one never
  posts it, and without the exception the property is false. `RecoversOrHangs`: however a stream
  fails, frames come again, unless a handshake is never answered, the case of the
  violated run below. `Supervised`, a refinement of `Supervisor`: only the watcher
  brings a client back that has gone, when its interval has passed, which doubles
  up to `maxInterval`, and not before the handler was told that nothing is known.
- `WatchesAgree`: for each descriptor the scheduler has the flags and the pointer
  of what libcurl asked for last, the pointer is to a living context of that
  descriptor and of the handler that asked, and the maps hold nothing else, so
  that nothing calls the wrong handler although descriptors change hands.
  `TimerServed`: libcurl is called when its timer expires, a tick late when it
  asked for a call at once. `ServesLibcurl`, a refinement of `MultiSocket`: a
  handler's libcurl is called for a descriptor only while that handler is the one
  that wants events on it, and no time passes by a timer that is over.
- `PointersLive`: every pointer to a context that another party holds is valid,
  and only one party holds it. `NoForgottenFile`: every file on the disk is in
  the list that limits them, or has a context, or is left of a request whose set-up
  threw after the file was created, which no list limits and nothing deletes.
  `OneImagePerEpisode`: only a frame
  after `debounceTime` of calm asks for an image, although `lastRois` is never
  assigned (`AsyncFileSave.cxx:166`). `Archived`, a refinement of `Archive`: a file that was
  finished stays as it is until it is the oldest of a full list and another is
  finished. `RateLimited`: the same `RateLimiter` as above; here a window also opens when the request comes to nothing.
  `ContextsEnd`: each context goes, or is in one of five situations in which the
  code keeps it: `aio_write` refused it, the write fell short, its
  signal was lost, a file could not be removed when its message was read
  (`AsyncFileSave.cxx:273`), or its message is behind that of a failed response
  (`AsyncFileSave.cxx:271`) with no transfer left to have it read. The contexts and
  files of these requests are not bounded by anything in the code.
- `OwnStream`: whoever asked for what, and whenever feeds were registered, what is
  sent to a connection is the stream it asked for last. `NewestIsSeen`: an image
  that stays the newest is sent to each viewer of its stream.
- `AcknowledgedIsCurrent`: `currentState_`, assigned from a variable that another
  thread writes, is what Home Assistant acknowledged. `ShownIsCurrent`: it is also
  what Home Assistant shows, unless a POST is under way or what is shown came with
  one whose answer was never read. `Converges`: a report that lasts is acknowledged
  and shown in the end, with the same exception, which is real: Home Assistant then
  shows another state than `currentState_`, and a report that goes back to
  `currentState_` is no change and is never posted. `FramesGoOn`: the
  source is never kept waiting for good by the mutex. `StopEnds`: the
  destructor returns. These three say "or a POST never ends" (`PostHangs`): the code
  does nothing to end one, and such a POST, under the mutex, does keep the source,
  the destructor and the sensor where they are.
- `SuccessMeansUnknown`: a clean exit leaves every entity "unknown", with two
  exceptions that the code allows: an error response without a content type, and
  a POST of the event loop that arrives after the last one, so that this overtaking
  is described and not excluded. `LastWord`: the
  program itself sends nothing more for an entity after that. It holds because a
  program with an updater thread never leaves its http source's loop; were the
  loop to look at the exit variable, the thread would have to be stopped first.
  `SignalEndsApp`: SIGTERM ends a program of rtsp feeds; with an http feed the
  main thread stays in that feed's loop, later feeds never start, and the signal
  only sets a variable.

### Bounds

- Four requests are enough for a response to find the next context, for that
  context's own request to be unanswered, and for the pattern to repeat, which
  is what the properties of that module speak of; two handlers are enough for
  neighbouring ids to have different owners, and the second of them has three
  requests in a row. A debounce time of 0 is left to the proofs. After the last
  id the windows then open stay open, so that a bound never looks like a rate
  limit.
- `WaitForFrame` 3, intervals 1 to 4 and `Horizon` 8 give three back-off steps, a
  watchdog that looks twice within a stall, and ages past every limit. Three
  troubles allow a death, a failed restart and a broken handshake in a row. A
  debounce time of 2 lets the window close before, between and after two checks of
  the watcher; the bound 2 + 4 is reached.
- Three image requests and a limit of 2 fill the list and drop from it; two
  requests under way at once need two windows to open before the first download
  ends, which the instance allows.
- Two descriptors, two handlers and an RTSP client let each take over a descriptor
  from each; three contexts leave one that is free when all descriptors are
  watched; two tasks of a handler let a superfluous one stand beside the last.
  Names are symmetric there and in `async_hass`.
- Three feeds and a `char` up to 2 let the counter wrap below zero and refuse a
  feed; one viewer asks, leaves and comes back between any two of its steps.
- `FaultBound` lets a POST be refused or lost, retried, lost again, and applied
  after a later one, with the
  debounce time above the poll time so that one wake-up finds it not yet over.
- Two feeds give every pair of schemes and entities in both orders: an http feed
  before and after an rtsp feed, and an entity whose exit fails before another.

The proofs hold without these bounds, except that `MaxContextId`, `MaxId`,
`Horizon`, `MaxTimeout`, the troubles and the faults stay arbitrary finite numbers.

### Fairness

- `RestartWatcher`: the loop runs due tasks and time goes on; a camera that is
  alive answers the handshake and sends frames. Nothing is assumed of a dead
  camera or of errors.
- `AsyncFileSave`: libcurl's timers and sockets call the handler while transfers
  exist, and transfers end; writes end; the loop goes on and runs due tasks. Without
  transfers `SocketAction` may happen, by a superfluous timer task, and need not.
- `ThreadedHassHandler`: both threads are scheduled and time goes on. Nothing is
  assumed of the requests: one may be lost, be applied late, or never end.
  `Report` is strongly fair: between two POSTs the updater sleeps in `wait_for`
  with the mutex free, so that a thread that waits for it gets it in the end.
- `WebHandler`: an encoding and a registration end, the listener goes on. Taking
  the mutex of a stream is strongly fair, since a `shared_mutex` of glibc prefers
  readers and the frames' thread releases it between two frames.
- `App`: the main thread is scheduled, `doEventLoop` looks at the exit variable
  after each task, and the two synchronous requests end (again without a time-out
  in the code). Nothing is assumed of the handlers' requests. The signal handler
  logs; the signal is taken not to interrupt a thread inside the logger.
- `AsyncHassHandler`, `CurlSockets`: none; all their properties are safety
  properties.

## 4. Where code and documentation disagree

Each is a run that TLC must find violated; `PROJECT.json` quotes the text.

| Run | Property | What happens |
|---|---|---|
| `async_hass_initial_state` | `InitialStateLearned` | the response of request k is looked up under k+1, so the initial GET is ignored; for the same reason the block commented "cleanup" leaves the contexts of finished requests in the map, and an early first POST may be dropped when the GET is answered |
| `watched_stream_handshake_dies` | `Recovers` | a camera that dies between its answers leaves a client that waits for ever and counts as active |
| `watched_stream_ends` | `EndedStreamIsShutDown` | the sink test is inverted: the end of the last track does not stop the stream (the watchdog does, later) |
| `file_save_lost_signal` | `PendingFileOperationsEnd` | two writes end while one signal is pending: one context stays |
| `web_torn_image` | `ImagesWhole` | image and model have each other's mutex (`WebHandler.h:66`): the listener sends the size of one image with the bytes of another, and reads a vector while it is written |

`PendingFileOperationsEnd` fails for other members of `Faults` too, the ones
`ContextsEnd` excepts; the documentation says nothing of them.

## 5. What is proved

All theorems are about the specifications as TLC checks them, for every value of
the constants that satisfies the named assumptions (`ConstantsAssumption`,
`SourceAssumption`, `WatcherAssumption`, `FileSaveAssumption`,
`ThreadedAssumption`, `AppAssumption`, `WebAssumption`,
`CurlSocketsAssumption`), which only say that times are natural numbers (or any
integer, for the debounce time of `AsyncHassHandler`), that an interval is not
above its maximum, that `Horizon` lies beyond the limits it is compared with, and
that special values are distinct.

- **`AsyncHassHandler_proofs`**: `TypeCorrect`, `DebounceCorrect`, `HandlesLive`,
  `NoTwoSuccessiveDrops`, and `ImplementsRateLimiter`. The inductive invariant
  `IInv` adds to the properties that the counter is ahead of every request
  (`CounterAhead`: else a new request could overwrite a finished one), that a
  request belongs to the handler that keeps its context (`RequestsOwned`), and
  that an unread message is about an ended transfer (`UnreadFinished`: without it
  the handler could drop a predecessor that is still under way). The refinement
  maps a POST to `Send`, the end of a window to `EndWindow`, all else to
  stuttering; that nobody else's requests change owner or method is the lemma
  `OwnersKept`. `OnlyPredecessorsErase` is inductive beside `IInv`, from what one
  completion does to contexts and requests (`CompletionErases`).
- **`AsyncDebouncer_proofs`**: what `Debounce` and the task do to
  `OneTaskPerWindow`, for every delay.
- **`RestartWatcher_proofs`**: `TypeCorrect`, `WatchdogCorrect`,
  `StallsAreBounded`, `OutagesAreBounded`, `PostedStateIsRecent`. A bound on time is
  not inductive; `Paced` relates the silence to the age the watchdog will see and
  the ticks until it looks, and `Retried` relates the outage to the ticks until
  the watcher looks. `Reported` says in which phases frames have been reported.
  `PostedStateIsRecent` rests on `Lingers`: a posted frame and the rest of its window
  add up to at most `debounceTime` (`WindowCovers`), and what is left when the window
  ends is at most one interval (`PostedRecent`).
  `ImplementsSupervisor` goes step by step: of the source's steps each moves the
  service to "up" or "down" or not at all (`SourceStepMoves`), and a frame is heard
  only while there is a client (`PacketImplements`).
- **`AsyncFileSave_proofs`**: `TypeCorrect`, `PointersStayLive`,
  `NoFileIsForgotten`, `EpisodesHaveOneImage`, `ImplementsRateLimiter`. Two
  invariants: `WindowInv`, whose
  `Gate` relates the ticks until the window ends to the calm so far, and
  `RequestInv`, in which the stages of a context are apart (`StagesApart`), a
  request that threw is in none of them (`ThrownIsLetGo`), a context under write has
  a body, and the counter is ahead of all contexts and of what threw.
  The refinement follows from the debouncer's part of `WindowInv`: a window opens
  with a new task (`RequestOpensWindow`, `NoRequestKeepsWindow`).
  `ImplementsArchive` maps the contexts, and the requests that threw, to the work and `savedFilePaths_` to the
  kept files; it needs `FilesAreFiledOnce`: no id is twice in the list, and no
  listed one has a context again, so that the file that is deleted is of no other
  entry.
- **`ThreadedHassHandler_proofs`**: `TypeCorrect`,
  `AcknowledgedStateIsCurrent`, `ShownStateIsCurrent`, from `PostedIsNext`: while the
  updater posts, the payload is still the state to report, since it holds the
  lock; and from `ShownByPost`: a POST that was applied replaced what an older one
  had shown, so that its answer says nothing of one that came in between.
- **`WebHandler_proofs`**: `TypeCorrect`, and `ViewersGetTheirOwn` where `char` is
  signed or there are no more feeds than positive markers (`CounterFits`, the
  hypothesis of the theorem, without which it is false). `IInv` says that the
  markers handed out are exactly those below the counter, or it has wrapped, that
  they are distinct, that a stream without its marker has no image yet, and that a
  connection's bytes are those of the stream it asked for. That an unsigned counter
  never comes to 0 with a feed left to register is a count of feeds and markers
  (`CounterHasRoom`).
- **`CurlSockets_proofs`**: `TypeCorrect`, `WatchesAreAgreed`, `TimersAreServed`,
  `HandlersServeLibcurl`.
  The invariant has a part about sockets, to which `SocketpAgrees` adds that
  libcurl's pointer is the scheduler's, and one about timers: `LastTaskServes`
  names the task that serves the timer, the one whose token is remembered. The refinement follows from both: the
  scheduler's pointer is to a context of the handler that wants the descriptor, and
  the ticks left of that task are those `MultiSocket` counts.
- **`App_proofs`**: `TypeCorrect`, `CleanExitShowsUnknown`, `LastWordKept`, for
  any number of feeds. `Passed` says of each entity behind the exit's loop what
  the property says of all at the end; `NoHttpPassed`, that the sources' start
  never gets past an http source, is what excludes the updater threads from the
  exit.

Only model-checked: the liveness properties (`RecoversOrHangs`, `ContextsEnd`,
`Converges`, `FramesGoOn`, `StopEnds`, `NewestIsSeen`, `SignalEndsApp`), which
need fairness and ENABLED, out of the prover's reach; and the violated
properties. No module uses recursive operators, so nothing else is out of reach
for that reason.

## 6. Not modelled

- libcurl itself: what it asks for and when transfers end is any sequence of
  calls that its documentation allows.
- Image processing, decoding and drawing: what they find is a choice.
- `VideoSource`, `EventHandler`: a delivery is synchronous and what it does is in
  the actions of the subscribers; subscriptions are made before the first event.
- Destruction of the handlers, which happens after the loop. `WebHandler::Stop` is
  never called: the listener and `App`'s callbacks keep each other alive
  (`main.cxx:177`).
- Of `WebHandler`: the list of feeds, the saved files, the static pages, and the
  log and frame numbers sent to websockets.
- The bytes of a websocket message: `EventHandler` reads mongoose's `mg_str` as a
  `std::string_view` (`WebHandler.cxx:156`), which is right only where the two
  have their members in the same order; mongoose is not part of the repository.
- Data races as such: that of the signal handler inside the scheduler's list
  (`AsyncFileSave.cxx:409`), and those on the hash tables of `WebHandler`, whose
  outcomes have no bound. The one on the images is modelled by what is read.
- The Windows branches.
- `ProgramOptions`, curl wrappers, buffers, logging, the web pages: no state, or
  presentation.

## 7. Plan

Done, in this order: debouncer, event-loop handlers, rate limiter, source and
watcher, file saving, threaded handler, `App`, `WebHandler`, the file saver's
refinement of the rate limiter, libcurl's callbacks; then the abstract
specifications `Archive`, `MultiSocket` and `Supervisor` with their refinements,
and POSTs that Home Assistant applies late.

What could follow:

1. `WebHandler`'s websockets: the log sink, called by all threads, and the
   listener's wake-up.
2. `CurlSockets` composed with `AsyncHassHandler`, so that `SocketAction` is
   disabled unless a watch or a timer stands for the transfer.
3. An abstract specification of what `WebHandler` promises its viewers, each the
   images of one stream in the order they were made, and of `App`'s last word.
4. The relation between the list of saved paths and the saved-files pages, which
   read the directory while `RemoveContext` deletes from it.
