# A TLA+ development of rtc_stack

rtc_stack is a WebRTC compatible stack for server applications. An application
creates an agent, passes it the SDP offer of a browser (`publish`,
`subscribe`), gets the answer and the life of the connection through a
`WebrtcAgentSink`, and links publishers to subscribers. This directory holds
TLA+ modules of its concurrent core, TLC configurations that check them on
small instances, and TLAPS proofs for every instance. Paths below are relative
to the root of the repository's checkout, where the code is under `src/`;
`PROJECT.json` maps each definition to the lines it models.

## The system

### Threads

- **Application threads** call `WebrtcAgent` (`publish`, `unpublish`, ...). The
  calls take `pcLock_` for the map of connections and post the real work.
- **Workers** (`utils/Worker.cpp`): one thread each over a libevent task queue
  (`myrtc/rtc_base/task_queue_libevent.cc`). A connection belongs to one worker;
  its SDP, DTLS, SRTP and media code runs there, one task after the other.
- **IO threads** (`utils/IOWorker.cpp`): glib main loops in which libnice calls
  back. A callback touches `ice_state_` and `listener_` of the ICE connection
  and posts everything else to the worker, with weak pointers.

### Components, their state and operations

| part | state | operations that change it | talks to |
|---|---|---|---|
| `WebrtcAgent` | `peerConnections_` under `pcLock_` | initiate, publish, unpublish, subscribe, unsubscribe, linkup, cutoff | `WrtcAgentPc`, pools |
| `WrtcAgentPc` | `sink_`, `connection_`, SDPs, `operation_map_`, `track_map_`, `ready_` | init, signalling, processOffer, notifyEvent, subscribe_i, close | sink, `WebRtcConnection`, tracks |
| `WebRtcConnection` | `global_state_`, `sending_`, `bundle_`, transports | setRemoteSdp, updateState, onTransportData, write, close | `DtlsTransport`, `MediaStream`, pc |
| `DtlsTransport` | `state_`, `running_`, two DTLS contexts, SRTP channels | updateIceStateSync, onIceData, onHandshakeCompleted/Failed, write, close | `IceConnection`, OpenSSL, connection |
| `IceConnection`, `LibNiceConnection` | `ice_state_`, `listener_`, `agent_`, `close_mutex_` | start, updateIceState, onData, gotCandidate, setRemoteCandidates, close | libnice, transport |
| task queue | `pending_` under `pending_lock_`, the wake-up pipe, timers | PostTask, PostDelayedTask, OnWakeup, RunTimer, Delete | everybody |
| `MediaStream`, pipeline, tracks | sinks, SSRC maps, handlers | setRemoteSdp, onTransportData, read, write, close | connection, frame constructors and packetizers |
| frame routing (`owt_base`) | destination maps of weak pointers, sources | add/remove destination, deliverFrame, feedback | tracks of several connections |
| RTC adapters, `ProcessThreadMock` | modules, timers, sequence numbers | register, wake up, process, send, receive | vendored WebRTC |

### The behaviours that are hard to test

- The worker closes an ICE connection while a libnice callback is between two
  statements of `updateIceState` or `onData` on the IO thread.
- Datagrams and ICE events are queued as tasks; by the time they run the
  transport may have failed, been closed or been destroyed.
- Gathering is started in the middle of `processOffer`.
- The application closes while the worker reports events to the sink.
- The task queue's pipe is full: a post is taken back after it was visible.
- An offer is refused half way, or asks for something nothing will report.
- A link between two connections runs on one worker and reads the other's tracks.
- Modules register, wake up and go while the mock's `Process` waits in a timer.
- A key frame request is lost, or many subscribers ask at once.
- A subscriber changes publishers while frames of the old one are queued.
- Two parts of the program read the same offer and number its formats apart.

`PROJECT.json` lists these as hazards, each with its line and the properties
that cover it, or the reason none does.

### What correctness means here

1. Tasks run in the order of the posts, one at a time, and an accepted task runs.
2. After `Delete` of a queue nothing runs, and `Delete` returns.
3. The sink hears at most one answer, then at most one `onReady`, at most one
   `onFailed` as the last thing, and nothing after it was cleared by `close`.
4. A connection that has reported failure neither sends nor delivers.
5. The libnice agent is released exactly once, and everything is released
   after `unpublish`.
6. An offer that the stack can answer is answered.
7. The states of the pc, connection, transport and ICE connection agree.
8. Frames go along the links that `linkup` made and `cutoff` has not removed,
   and a delivery leaves nobody out.
9. Calls of several threads on the agent leave every connection with a worker,
   with its tasks in order, and closed once.
10. A subscriber gets a key frame, sends from there without a gap, and the
    sender is not asked for every dropped frame.
11. Periodic work neither stops, drifts nor outlives its object.
12. Sequence numbers, NAL units and payload types are what a reference
    definition says.

## The modules

| module | models | kind |
|---|---|---|
| `TaskQueue` | `TaskQueueLibevent` | component |
| `Worker` | `Worker::task` and the loop, every post succeeds | component |
| `IceConnection` | `IceConnection`, `LibNiceConnection`, the IO thread | component, over `Worker` |
| `DtlsTransport` | `DtlsTransport`, `Transport`, `DtlsSocket` | component, over `IceConnection` |
| `WebRtcConnection` | `WebRtcConnection` | component, over `DtlsTransport` |
| `WrtcAgentPc` | `WrtcAgentPc`, the publish and unpublish of one connection | composition of the five above |
| `PeerLifecycle` | the order of the sink's callbacks | abstract specification |
| `WebrtcAgent` | the agent's map, its callers, `getLessUsedWorker` | component |
| `FrameRouting` | `FrameSource`, `FrameDestination`, tracks, `subscribe_i`, `close_i` | composition of several connections |
| `FrameLinks` | what `linkup` and `cutoff` promise | abstract specification |
| `KeyFrames` | key frame requests between packetizer, constructor and receive adapter | composition |
| `ProcessThread` | `ProcessThreadMock`, `TaskQueueProxy` | component |
| `ScheduleEvery` | `Worker::scheduleEvery`, `scheduleFromNow` | component |
| `NalScan` | `findNALU` and the loop of `VideoSendAdapterImpl::onFrame` | algorithm |
| `SeqNo` | `AudioSendAdapterImpl::updateSeqNo` | algorithm |
| `PayloadTypes` | H264 format choice, `SdpInfo`'s maps, `WoogeenHandler` | algorithm and packets |
| `MCWrtcAgentPc`, `MCFrameRouting`, `MCWebrtcAgent` | constants and symmetry for TLC | model checking |
| `MCSequential` | the five modules from `ProcessThread` to `PayloadTypes`, side by side | model checking |
| `WrtcAgentPcProofs` | the theorems of `WrtcAgentPc`, with `PeerLifecycle` | proofs |
| `WebrtcAgentProofs`, `LessUsedWorkerProofs` | those of `WebrtcAgent`: its calls and tasks; the choice of a worker | proofs, one over the other |
| `FrameRoutingProofs`, `PacketizerProofs`, `FrameLinksProofs` | those of `FrameRouting`: deliveries; packetizers and map entries; links, with `FrameLinks` | proofs, each over the one before |
| `TimerProofs` | those of `TaskQueue`, `ProcessThread`, `ScheduleEvery` | proofs |
| `PacketProofs` | those of `KeyFrames`, `SeqNo`, `PayloadTypes`, `NalScan` | proofs |

### TaskQueue

`PostTask` has three steps of the posting thread, because other threads see the
difference: `Push` (under `pending_lock_`), the write of a byte (`WriteOk`, or
`WriteFails` when the pipe is full or the call fails) and `Remove`
(`remove_if` by address after a failed write). The queue thread reads a byte
and runs the front of `pending_` (`OnWakeupRunTask`), runs timers, and leaves
at the quit byte. A task has an address from a small set; an address is free
for a new task once its object is gone. A task that runs is started and later
returns (`RunReturns`). `Delete` writes the quit byte and joins. Time is
abstracted: an armed timer may fire at any moment.

### The peer connection

Each task of the worker is one action (`RunInit`, `RunOffer`, `RunIceState`,
`RunDtls`, `RunMedia`, ...) holding everything that the lambda does down the
layers, and `RunExpired` is a task whose weak pointer has expired. `close_i`
is the exception: `RunClose`, `CloseConnection` and `DestroyConnection` split it
where the IO thread can see or change `ice_state_`. On the IO thread
`updateIceState` has three steps (test, assignment, use of `listener_`), and
`onData` two (read under the lock, post after it). `OnRemoteNewCandidate`
closes on the IO thread if the agent is gone, as the code does.

The data is abstracted. An offer is a record of what the code looks at: whether
it parses and negotiates, the accepted m-lines, bundle, rtcp-mux, and whether
it has a fingerprint. A DTLS datagram has one of five outcomes, chosen freely.
`told` records the callbacks in the order of the calls of `callBack`.

Assumptions of the composition:

- A post to a worker succeeds; `TaskQueue` has the case in which it does not.
- The application closes a connection only after `publish` has returned.
- libnice calls back only while the agent is referenced, and the peer can
  reach the server only once it has the answer, which has the credentials.
- A callback in flight when its object is destroyed has no effect
  (`IoAbandoned`). The callback holds a raw pointer; a hazard records this.
- Trickle ICE is off and the DTLS role is passive, as in every caller.

### The agent's map

`WebrtcAgent` has the threads of the application as processes. A call is a step
in the lock (`Emplace`, `Erase`, `Find`) and then steps without it: two per
round of `getLessUsedWorker`, which reads two use counts one after the other
(`ReadChosen`, `GetLessUsedWorker`), `PcInit`, `Signalling`, `Close`,
`Subscribe`. `UseCount` counts what `use_count()` counts: the pool, the
connections, the tasks of `scheduleEvery` (which keep their worker by
`shared_from_this`; `Hold` and `Release`) and the locals of all threads.
`drift` is not in the program: it counts the uses that began or ended since a
thread started to pick, and `NearLeastUsed` is stated with it. `Serial` says that calls naming the same id do not
overlap. The code needs it: without it a thread finds a connection in the map
whose `worker_` is still null.

### Frames

In `FrameRouting` a task of a worker is a few steps, one per track or map entry,
so that another worker may run in between. A packetizer lives while its track or
a running task holds it; a map entry is a key, the address, and the packetizer
it was made for, and expires with it. `StaleReuse` lets the allocator give out
an address for which a map still holds an expired entry. On two workers the
model has the ownership of packetizers, not the data race on `track_map_`
itself. The destination through which the application gets frames is left out.
`Links` maps this state to the links of `FrameLinks`.

In `KeyFrames` every packetizer has a queue of posted frames and every
constructor a queue of feedback. Frames are numbered modulo `Numbers`; a
request to the sender may be lost (`heard`). Every publisher has had its first
packet, and `request_keyframe_period_` has its default of -1.

### Timers and modules

`ProcessThread` keeps times relative to now, so that a clock step makes numbers
smaller and the state space stays finite. `ScheduleEvery` keeps an absolute
clock in ticks, of which a millisecond has `Ms`: the timer gets whole
milliseconds while the skew is computed in ticks.

### Algorithms

`NalScan` steps through `findNALU` byte by byte; the reference is a definition
of the NAL units of a byte string by its start codes. `SeqNo` has numbers of
two digits to the base `Base`, 256 in the code, because the origin's number is
read without `ntohs`; the reference is arithmetic modulo `Base * Base`.
`PayloadTypes` starts from every offer of a few formats, processes it with both
readers, the agent's and the transport library's, and then sends and receives.

## What is checked

| run | bounds | result |
|---|---|---|
| `task_queue_safety` | 2 posters and the queue thread, 2 addresses, 3 posts, a pipe of 2 bytes | `WakeupFindsTask`, `RunInPushOrder`, `DeleteQuiesces`, `StartsUnlessWriteFails`, `DeleteCompletes` hold |
| `task_queue_stuck` | 3 posts, a pipe of 1 byte | `AcceptedTaskStarts` fails |
| `pc_safety` | nine offers, 1 candidate, 2 datagrams, 1 packet sent | `NoNullDereference`, `StatesAgree`, `AgentReleasedOnce`, `LifecycleKept`, `QuietAfterFailed`, `AnswerArrives`, `CloseReleases` hold |
| `pc_ice_race` | no datagrams | `IceStateMonotone` fails |
| `pc_alert` | 2 datagrams | `AlertsPropagated` fails |
| `agent_safety` | 2 threads, 3 ids, 2 workers, 3 connections, 1 link each, 1 timer per worker | `NoNullWorker`, `TasksInOrder`, `ClosedOnce`, `NearLeastUsed` hold |
| `routing_safety` | 1 publisher, 2 subscribers, 1 worker, 3 addresses, 2 tasks waiting | `TypeOK`, `RoutesAsLinked`, `DeliveryComplete`, `NoBadEntryUsed`, `AudioSourceIsRoute`, `LinkFindsTracks` hold |
| `routing_workers` | the same, 2 workers | `FreedOnItsWorker` fails |
| `key_safety` | 1 publisher, 2 subscribers linked once, numbers modulo 3, queues of 1 | `SentIsUnbroken`, `RequestsCoalesced`, `LinkedGetsKeyFrame` hold |
| `key_offset` | 2 publishers, 1 subscriber linked twice | `OffsetOfStream` fails |
| `sequential`, process thread | 2 modules, intervals 0, 1 and 2, a minute of 1 | `OneProcess`, `WakeUpPending`, `EveryModuleProcessed` hold |
| `sequential`, timer | period 5, lateness 3, running time 2, a millisecond of 2, clock to 40 | `NeverAhead`, `NoDrift`, `EndsWithObject` hold |
| `sequential`, NAL units | all frames of at most 7 bytes | `NeverMissing`, `FragsAreNalus`, `Terminates` hold |
| `sequential`, sequence numbers | base 8, step 3, all pairs of numbers | `InOrderFollows`, `NewIsNew` hold |
| `sequential`, payload types | 4 payload types, 2 profiles, offers of at most 3 formats | `TypesTypeOK`, `AnswersPreferred`, `ReceivedAsH264`, `SentAsH264` hold |
| `types_answered` | the same, by itself | `SentAsAnswered` fails |

`sequential` is one run of five specifications. They share no variable, so
`MCSequential` does not compose them: `part` says whose behaviour it is, and
the variables of the other four never change. That is why these five modules
have names such as `ThreadNext` and `SeqNext`.

All type invariants are proved, and most are not repeated in the runs.
`OnlyRegisteredCalled` and `SmallJumps` are left to their proofs as well.

**Why the bounds are enough.** In the queue, the interesting cases are a failed
post overlapping a successful one and a third task that takes a freed address.
Three posts and the quit byte do not fit into two bytes, so writes fail there,
and behaviours in which none fails are the ones `StartsUnlessWriteFails` is
about. In `pc_safety`, two datagrams allow the completion or failure of the
handshake and media or a datagram that is still queued afterwards; the packet
sent may come before or after the failure. Neither run limits the number of ICE
events, and the safety properties of both are proved for all bounds. The nine
offers differ in each field that the code reads.

In `agent_safety` two connections and a second one of an id that was
unpublished, or three at a time, make one worker busier than the other, and a
timer is scheduled or ends while a thread picks (`MaxHeld`, and `MaxDrift`,
which stops new timers but nothing else); the proofs have no such bound. In the
routing runs, two subscribers are what it takes for an expired entry beside one
that lives, and one waiting task behind another for every order of offer, link,
cut and close. Two subscribers make two requests between timeouts, which is what
the counter distinguishes; a frame number modulo 3 tells the next frame from a
repeated and a skipped one. In `sequential` a module is due at once, with the
minute or after it. Lateness and running time together are a period, the most
for which `NoDrift` holds. A frame of seven bytes has a start code of three and
one of four bytes in either order, or two of three bytes with a byte between
them or behind them. The base of the sequence numbers is small and they are all
there: a step can be below, at and above kSeqNoStep, and wrap around. An offer
of three formats has two of H264 and one of red, or three of H264.

Deadlock is not checked where the system may really stop: a closed connection,
a deleted queue or proxy, an agent all of whose ids are used, a series whose
object is gone, a frame that is cut up.

**Fairness.** The calls of `publish` proceed, the worker runs its tasks, the IO
thread ends its callbacks, and libnice ends the gathering it has started: each
is a thread that the operating system schedules and that waits on nothing in
the model. Nothing is assumed of the application, the peer, ICE success, or the
handshake. The queue's fairness is that of its own thread and of threads
inside `PostTask` and `Delete`. In `sequential` the worker runs its tasks and
timers and the clock advances. In `key_safety` the workers run their tasks, the
timer of a second fires (`scheduleEvery`), the sender goes on sending, of
repeated requests one arrives, and a sender that has heard one sends a key
frame; without the last two no program could promise a key frame. `Terminates`
needs only that the loop goes on.

**The disagreements.** Each quotes its line under `findings` in `PROJECT.json`.

- `task_queue_stuck`: when a write fails, the byte of an accepted post can run
  the failing post's task first; the accepted task is left without a byte.
- `pc_ice_race`: there is no "state lock" in `updateIceState`; a `close`
  between its test and its assignment lets `ice_state_` leave FINISHED. The
  agent is released once all the same (`AgentReleasedOnce`), as `agent_` is
  tested by itself.
- `pc_alert`: `onHandshakeFailed` clears `running_`, so the alert which the
  code falls through to propagate is dropped.
- `routing_workers`: with several workers a packetizer can be destroyed on the
  publisher's, where the thread checker of the process thread objects. The
  example uses one worker.
- `key_offset`: a key frame of the old publisher that was queued before the
  switch opens the gate after it, and the new stream gets the old offset.
- `types_answered`: the packets carry the highest H264 type of the offer, which
  need not be the one answered.

**Limits of what holds.** The properties that hold are stated up to these
behaviours of the code:

- A failing post finds its task by an address that may by then be another's, and
  can remove an accepted task; `StartsUnlessWriteFails` excludes failed writes.
- `removeVideoDestination` calls `unsetAudioSource`: after a cut-off the video
  packetizer keeps its old source, and only `AudioSourceIsRoute` holds.
- `emplace` changes nothing when a packetizer is allocated at the address of an
  expired entry. `RoutesAsLinked` holds with `StaleReuse = FALSE` only.
- A module's next time may pass while `Process` sleeps for another module:
  `EveryModuleProcessed` promises a call, not a time.
- `initiate` creates the pools before it corrects zero workers to one;
  `WebrtcAgent` assumes a worker (`NumWorkersAssumption`).

## What is proved

For every value of the constants (any number of posters, tasks, offers,
candidates, datagrams, any pipe capacity):

| theorem | statement |
|---|---|
| `TypeCorrect` | `Spec => []TypeOK`, of `TaskQueue` (in `TimerProofs`) and of `WebrtcAgent` (in `LessUsedWorkerProofs`) |
| `ThreadTypeCorrect`, `EveryTypeCorrect`, `SeqTypeCorrect`, `TypesTypeCorrect`, `KeyTypeCorrect`, `NalTypeCorrect`, `RoutingTypeCorrect` | the same of `ProcessThread`, `ScheduleEvery`, `SeqNo`, `PayloadTypes`, `KeyFrames`, `NalScan`, `FrameRouting` |
| `WakeupAlwaysFindsTask` | `TaskQueue`: `Spec => []WakeupFindsTask` |
| `FifoOrder` | `Spec => []RunInPushOrder` |
| `DeleteLeavesNothing` | `Spec => []DeleteQuiesces` |
| `NoneStranded` | while no write has failed, an empty pipe with nobody inside `PostTask` means an empty `pending` |
| `PcTypeCorrect` | `WrtcAgentPc`: `Spec => []TypeOK` |
| `AgentReleasedExactlyOnce` | `Spec => []AgentReleasedOnce` |
| `FailedIsQuiet` | `Spec => QuietAfterFailed` |
| `StatesAlwaysAgree` | `Spec => []StatesAgree` |
| `NeverNull` | `Spec => []NoNullDereference` |
| `ImplementsLifecycle` | `Spec => LifecycleKept`, the refinement of `PeerLifecycle` |
| `NoNullWorkerHolds`, `TasksInOrderHolds`, `ClosedOnceHolds` | `WebrtcAgent`: `Spec => []...`, if `Serial` |
| `NearLeastUsedHolds` | `WebrtcAgent`: `Spec => NearLeastUsed`, for finitely many threads |
| `DeliveryCompleteHolds` | `FrameRouting`: `Spec => []DeliveryComplete` |
| `PacketizersHeld` | `FrameRouting`: a packetizer lives exactly while it is held (`LifeInv`) |
| `NoBadEntryUsedHolds`, `AudioSourceIsRouteHolds` | `FrameRouting`, if `StaleReuse = FALSE` |
| `LinkFindsTracksHolds` | `FrameRouting`, if the connections share a worker (`SameWorker`) |
| `FreedOnItsWorkerHolds` | `FrameRouting`: `Spec => []FreedOnItsWorker`, if `SameWorker` |
| `ImplementsLinks` | `Spec => RoutesAsLinked`, the refinement of `FrameLinks`, under both conditions |
| `OneProcessHolds`, `WakeUpPendingHolds`, `OnlyRegisteredCalledHolds` | `ProcessThread` |
| `RequestsCoalescedHolds` | `KeyFrames` |
| `SentIsUnbrokenHolds` | `KeyFrames`, if a subscriber is linked once (`MaxLinks = 1`) |
| `OffsetOfStreamIfDrained` | `KeyFrames`: `DrainedSpec => []OffsetOfStream`; see below |
| `NeverAheadHolds`, `NoDriftHolds`, `EndsWithObjectHolds` | `ScheduleEvery` |
| `NeverMissingHolds`, `FragsAreNalusHolds` | `NalScan`, for frames of any length |
| `SmallJumpsHolds`, `InOrderFollowsHolds`, `NewIsNewHolds` | `SeqNo`, for any `Base > 1` and `kSeqNoStep < Base` |
| `AnswersPreferredHolds`, `ReceivedAsH264Holds`, `SentAsH264Holds` | `PayloadTypes`, for m-lines of any length |
| `SentAsAnsweredIfHighest` | `PayloadTypes`: `SentAsAnswered` while the answered type is the highest of H264 in the offer |

**The queue.** A byte in the pipe must have a task behind it. This is not
inductive, since a failing post removes a task. The invariant counts
(`EnoughTasks`): there are at least as many pending tasks as run bytes in the
pipe plus threads inside `PostTask`. A failing post removes at most one task,
whichever it is, and leaves `PostTask` as it does. FIFO order follows from
`pending` being increasing and above the last task run.

As long as no write fails the count is exact (`ExactTasks`), and so
`NoneStranded`: what `task_queue_stuck` shows happens only after a failed write.

**The connection.** The invariant `IInv` is a conjunction:

- `ApiInv`: how far the application's call has come: who holds the pc, that
  `sink_` is set exactly until the close, that the init task is the first task
  of all and the close task comes after `sink_` is cleared.
- `AgentInv`: while the object lives, `unrefs` is 0 with the agent and 1 without
  it, and a state of FINISHED, in `ice_state_` or as `close` has read it, means
  that the agent is gone. The race lets `ice_state_` leave FINISHED but never
  enter it with the agent present, since `updateIceState` on the IO thread is
  never called with FINISHED: an early return of `close` therefore skips
  nothing, and a second run of its body finds `agent_` null.
- `TokenInv`: the end of gathering is a token. It is in the IO thread, in the
  queue or consumed, never in two places, and news of the peer comes only
  behind an answer. This is why there is one answer and why it is first.
- `ToldInv`: while the sink is set, `global_state_` determines what has been told.
- `QuietInv`: after "failed" the connection is FAILED or FINISHED and does not
  send, and the transport's DTLS is either stopped or over.

`StatesAgree` needs `AgreeInv`: before the ICE object there is no state but
INITIAL, news of the peer is behind an answer, and a transport that failed with
DTLS running had been through its handshake. `NoNullDereference` needs
`NullInv`: an offer's task is behind the init task until that has run, and
gathering starts after the local SDP was made.

**The agent.** `ThreadInv` says what a thread inside a call knows of its
connection: before `init` it has no worker and no task. `ApartInv` is `Serial`
as a state: two threads have different ids and different connections. `MapInv`
and `OutInv` say what was posted for a connection in the map and for one taken
out of it: init and offer first unless its thread is still at it, and close
exactly when the thread that took it out is past `Close`.

`NearLeastUsed` needs neither of them. A thread that picks has gone through the
first workers; `NearOK` says that its choice has at most `drift` more uses than
any of these, plus a slack of `2 (n - 1)` for each comparison made, with `n`
threads. In one comparison each count is the uses, plus the same pool and locals
of the thread itself (`PickInv` says which), plus at most two locals of every
other thread. A use that begins or ends raises `drift` and one side by one, and
the count read earlier is within `drift` of what it would be now. The first
comparison is of the first worker with itself, so a pass over `NumWorkers` of
them adds up to `NumWorkers - 1` slacks. A bound that does not mention `drift`
is false, as a connection may close between the reading and the choice.

**Frames.** The invariant has four layers, each resting on the ones before:

1. `OwnInv`: a task is on the worker of its connection, so that only this
   worker changes a publisher's map. `DeliverInv`: of a delivery under way,
   every entry is still to be visited or has been posted to. This gives
   `DeliveryComplete` without any condition.
2. `OnceInv` and `FreshInv`: an offer runs once, and nothing refers to a
   connection's tracks before. `LifeInv`: a packetizer exists exactly while a
   track or a running task holds it. `AddrInv`: no two that exist share an
   address. Without conditions either.
3. `EntryInv`: the destination of an entry is at the address that is its key,
   or gone with nothing else there. This is false when the allocator gives out
   an address for which a map has an expired entry, and so are, by TLC, the
   properties that rest on it; hence `StaleReuse = FALSE`.
4. `FifoInv`: an offer is queued before the links and cuts that name its
   connection, and `HeldInv`: what a task holds is also held by its track. Both
   need that the two connections of a link share a worker; on two workers
   `LinkFindsTracks` is false, by TLC: a link may run before the offer. So is
   `FreedOnItsWorker` (`routing_workers`), which on one worker needs no more
   than `OwnInv`.

For the refinement, `Links` is the set of publisher, subscriber and kind for
which the subscriber's track is open and the publisher's map has an entry made
for its packetizer. `AddLink` adds one link, `RemoveLink` removes one,
`CloseTrack` removes those of the track, `DeliverTo` posts along a link or drops
an entry that has expired, and every other step leaves `Links` alone.

**The process thread.** `OneProcess` is inductive with the types: every
`Process` that runs was the only one and posts one or clears `running_`, and
`DeRegisterModule` leaves `running_` alone. `WakeUpPending` counts on
`Process_now` being the only task that is removed for a module still marked.

**Key frames.** `CountInv`: while the count is zero at most one request (that
of the timeout) has been made. `LineInv`: the last frame sent, the frames
queued and the next frame of the publisher are a line of consecutive numbers,
unless the gate is shut. `key_offset` shows that cutting a subscriber off before
it is linked again does not give `OffsetOfStream`. `DrainedSpec` is what does:
the application also waits until the frames posted to the packetizer are taken.
Then whatever waits, is sent or has set the offset is of the packetizer's
source (`SourceInv`), for any number of link-ups.

**Timers.** `WantedInv`: the time the next call is wanted is never before its
number times the period. `DriftInv`: with lateness and running time within a
period it is not after it either. A call is less than a millisecond before what
is wanted and `MaxLate` after it at most.

**NAL units.** The invariant says that the fragments so far are the units that
begin before the current one, and that the scan has passed no start code.

**Sequence numbers.** Everything is arithmetic on two digits: swapping bytes
turns a step of one into a step of `Base`, or of `Base` and one at a carry; in
either case the step is one modulo the wrap-around (`DivMod` and its lemmas).

**Payload types.** `TypesInv` says that after the offer the two maps are exactly
the ones `SdpInfo` makes and the format exactly the one `filer_h264` finds. The
rest is about these operators: the greatest type of a codec in the offer is one
of that codec (`TypesOfFacts`), no two codecs share a type (`CodecsApart`), and
every type of a codec leads to the program's number for it and that number back
to the highest type of the codec (`OutInFacts`, `InOutFacts`). That it is the
highest makes `SentAsAnswered` true of the offers whose highest H264 type is
the one answered (`AnswersHighest`, `HighestInv`), those with one H264 format
among them; `types_answered` has one of the others.

The assumptions used are those named in the modules: bounds are natural
numbers, sets of intervals and offers are not empty, there is a worker, threads
are finite in number, publishers and subscribers are different connections
(`IdsAssumption`), payload types are in 1..127 (seven bits; the code has 0 for
none). `Serial`, `StaleReuse = FALSE`, `SameWorker` and `MaxLinks = 1` are
hypotheses of the theorems that need them, not assumptions of a module, and so
are `NoneFailed`, `AnswersHighest` and the application's waiting in
`DrainedSpec`.

**Only model-checked**: the liveness properties `StartsUnlessWriteFails`,
`DeleteCompletes`, `AnswerArrives`, `CloseReleases`, `LinkedGetsKeyFrame`,
`EveryModuleProcessed` and `Terminates`, as properties under fairness are
outside the prover's reach. Every other property of a passing run is proved.

## Not modelled

- **The vendored code** (`src/src/myrtc`, `src/src/3rd`) is nearly all of the
  repository's C and C++, about 280,000 lines. The modules cover the part
  which is the program itself. Of the vendored code only the libevent task queue
  is modelled, on which everything runs.
- **TimeoutChecker** (`DtlsTransport.cpp`): started only in the active DTLS
  role; every caller passes the passive one.
- **SDP text**: parsing and printing are pure functions on text and JSON; what
  they decide is the offer record of `WrtcAgentPc` and the formats of
  `PayloadTypes`.
- **SRTP, certificates, OpenSSL, libnice**: external, modelled by the outcomes
  that the code distinguishes.
- **RTCP rewriting and routing, statistics, logging**: no state that another
  part reads back.
- **`deliverMetaData`, data destinations, `enable`, `mediaOnOff`**: no caller.
- **IOWorker's start and close**: once per process.
- The data race on `track_map_` with several workers: it has no outcomes one
  could enumerate.
