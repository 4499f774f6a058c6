# Formal model of Game Capture

Game Capture (`native-qt/`) captures a window, a game or a camera on Windows or
macOS and streams it to VDO.Ninja viewers over WebRTC, one peer connection per
viewer, or to one external output (WHIP, SRT, RTMP, RTSP). This directory holds
TLA+ modules of the parts whose correctness depends on the order in which
threads, callbacks and network messages meet, the TLC configurations that
model-check them, and theorems the TLA+ proof system checks.

All source paths below are relative to `native-qt/`. In lists of observations
`V` is `src/app/versus_app.cpp` and `F` is `src/video/video_encoder.cpp`.

## 1. The system

### Threads

| Thread | Runs |
|---|---|
| Qt main thread | user interface, `goLive`, `stopLive`, local control server |
| signaling WebSocket thread (libdatachannel) | `setupSignalingCallbacks`: offer requests, answers, candidates, disconnects |
| peer connection threads (libdatachannel, one set per viewer) | ICE, state, data channel, and media callbacks of `WebRtcClient` |
| peer operation executor | the serialized half of the peer connection callbacks |
| duplicate-offer recheck thread | deadlines of rechecks, which it hands to the executor |
| signaling recovery thread | reconnects, rejoins and republishes after a drop |
| maintenance thread | keyframe requests, encoder health, roles of silent viewers, pruning |
| capture, encode, alpha encode and audio threads | frames and packets |
| writer and reader thread of an FFmpeg encoder | the two pipes of the encoder process |
| pacer thread (one per transport) | hands video packets to the peer connection over time |
| output session worker | one external output: connect, send, reconnect |

### Components, state, operations and what makes them correct

**Peer operation executor** (`src/app/peer_operation_executor.cpp`).
State: a critical, an ordinary and a dropped-completion queue, per-peer counters,
fairness state, and the lifecycle of one worker thread. Operations: `start`,
`stop`, `enqueue`, destructor; the worker loop. libdatachannel callbacks enqueue
operations tagged with the transport generation they belong to, and the
worker runs them one at a time. Correct when every submission is completed
exactly once, operations never overlap even across restarts, nothing waits for a
callback that waits for it, and bounds and eviction follow the stated values.

**Peer negotiation** (`V`, `VersusApp::PeerSession`).
State: offer, transport and client generations, wire session, flags for what is
in progress, coalesced transitions, candidate buffers. Operations:
`sendPeerOffer`, `applyPeerAnswer`, `fallbackToH264AfterRejectedVideoAnswer`,
`runQueuedPeerTransition`, `applyPeerMediaPlan`, `handlePeerRemoteCandidate`,
the ICE callback, connection events, `removePeerSession`. Any thread of the table
may run them, under three mutexes taken and released several times. Correct when
descriptions and candidates reach the transport they were made for and no
requested transition is lost.

**Duplicate-offer recheck scheduler** (`handleDuplicatePeerOfferRequest` and
following). State: a map of jobs, each waiting, dispatched or canceling, a
barrier per job. A viewer that asks again for an offer gets a second look after a
second, and a rebuild if it is still not connected. Correct when each job
completes once, no rebuild starts after a cancellation returned, and a waiting
viewer is eventually answered.

**Signaling socket** (`src/signaling/vdo_signaling.cpp`). State: the active
socket, retired sockets, admitted callbacks. Correct when callbacks of an old
socket never act on the new connection, and destruction never waits for itself.

**WebRtcClient transport and callback gate** (`src/webrtc/webrtc_client.cpp`).
State: transport generation, media sections, callbacks suppressed, parked or in
flight. Correct when no callback of a replaced transport is admitted, and resets
from inside callbacks do not deadlock.

**Live lifecycle and signaling recovery** (`goLive`, `stopLive`,
`startSignalingRecovery`). Correct when a live stream that lost its signaling
eventually gets it back, and a stopped one stays stopped.

**Alpha frame pairing and the encode threads** (`src/app/alpha_frame_pairer.cpp`,
`encodeThread` and the alpha thread in `V`). A frame and its alpha mask come from
two encoders; they are sent only as an exact pair, at most once, on a strictly
increasing clock, and never so that a viewer misses the frame another depends on.

**Video encoder** (`F`). An FFmpeg process with its two threads, or a Media
Foundation transform; warm-up, priming, restart, recovery. Correct when a packet
is returned under the identity of the frame it shows, whatever was replaced.

**External output session** (`src/output/output_session.cpp`). A bounded packet
queue and a worker that connects, sends, and reconnects with fresh media. Correct
when each connection receives a whole stream, and `stop` returns.

**Room quality, peer init and tiers; data-channel control messages** (`V`). Who is
routed which tier is decided on one thread and committed on another, while viewers
introduce themselves, mute, and change the stream for everyone.

**Video pacing, recovery and receiver feedback** (`src/webrtc/video_pacer.h`,
`video_recovery.h`, `receiver_feedback.h`). Bounded queues and caches, a repair
budget, sequence numbers that wrap.

How they interact: the signaling and WebRTC callbacks turn into operations on a
peer; those of a transport go through the executor, which drops them when
their generation is stale; the operations of a peer negotiate over the signaling
socket; the recheck scheduler and `stopLive` cancel each other through
barriers; the encode threads read what negotiation established (tracks, alpha,
tiers) and never wait for it; what they produce goes through the pacer and the
retransmission cache of each transport, or into the queue of the output session.

## 2. The modules

| Module | Models | Run | Proofs |
|---|---|---|---|
| `SerialExecutor` | what the executor promises (abstract) | | |
| `PeerExecutor` | the executor's queues and lifecycle | `executor_queues`, `executor_lifecycle` | `PeerExecutorProofs`: all its safety, the refinement of `SerialExecutor` |
| `PeerNegotiation` | one viewer's offers, answers, plans, candidates | `negotiation_offers`, `negotiation_candidates` | `PeerNegotiationProofs`: all its safety |
| `WebRtcClient` | transports of a client and the callback gate (operators) | with `DuplicateOfferRecheck` | with `DuplicateOfferRecheck` |
| `DuplicateOfferRecheck` | the recheck scheduler and all who cancel it | `viewer_rechecks` | `DuplicateOfferRecheckProofs`: all its safety |
| `SignalingSocket` | `VdoSignaling`'s connection (operators) | with `SignalingRecovery` | |
| `SignalingRecovery` | `goLive`, `stopLive`, recovery | `signaling_sessions`, `loss_is_recovered` | `SignalingRecoveryProofs`: all its safety |
| `AlphaFramePairer` | tracker, pairer, transport clock; its own specification `PairerSpec` | with `AlphaPipeline` | `AlphaPipelineProofs`: exact pairing |
| `AlphaPipeline` | encode, alpha and control threads around it | `alpha_pipeline` | `AlphaPipelineProofs`: all its safety |
| `FrameEncoder` | what the send path expects of an encoder (abstract) | | |
| `VideoEncoder` | the FFmpeg and Media Foundation pipelines | `video_encoder` | |
| `OutputSession` | the external output | `output_session` | `OutputSessionProofs`: all its safety |
| `RoomQuality` | decision, encoder and tiers (operators) | with `ViewerControl` | |
| `ViewerControl` | viewers, their messages, the maintenance thread | `viewer_control` | `ViewerControlProofs`: all its safety |
| `VideoRecovery` | the retransmission cache, repairs, keyframe throttle | with `MediaTransport` | |
| `MediaTransport` | cache, pacer and close of one transport | `media_transport` | `VideoRecoveryProofs`: all safety |

`MC<module>` instantiates a module for TLC with the `.cfg` files of its runs. In
every specification a step is one critical section, or one stretch of code between
two accesses to state that another thread can see; a thread is a program counter
with what it captured before it let a lock go.

### Runs and bounds

| Run | Shows | Bounds |
|---|---|---|
| `executor_queues` | `CapacityRespected`, `EvictionRespectsValue`, `PerPeerOrder` | four items, two peers, five kinds of request, a queue of three with a reserve of one |
| `executor_lifecycle` | `WorkHasItsWorker`, `JoinNeverWaitsForACallback`, `ImplementsSerial`, `ShutdownCompletes`, `CriticalBurstEnds` | two clients, two items, two worker lifetimes, one transport replacement |
| `negotiation_offers` | `AnswersKeepToTheirOffer`, `NoStrandedTransition`, `OneOpenOffer` | the worker and two more threads, two offers, one rebuild, codec fallback on, no candidates |
| `negotiation_candidates` | `CandidatesMatch`, `NoStrandedCandidate`, `OffersComplete` | the worker and one more thread, two offers, one rebuild, one candidate each way |
| `signaling_sessions` | `OwnersKeepWhatTheyUse`, `RestIsConsistent`, `CallsReturn`, `Recovers` | two sockets, three sessions, any number of drops, recoveries and stops |
| `loss_is_recovered` | `LossIsRecovered` is violated | two sockets, one session |
| `viewer_rechecks` | `NoRebuildAfterCancel`, `NoLateCallback`, `SectionsSurviveRebuild`, `RechecksAndCallsEnd` | one session, two transports, one parked callback, two jobs, three inputs, one later `goLive` |
| `alpha_pipeline` | `PairsExact`, `PairsShowOneFrame`, `ChainIsUnbroken` | one viewer, three slots, queues of one, delay of one, two interventions |
| `video_encoder` | `ImplementsFrameEncoder`, `CallsReturn` | three live frames, queues of one to three, two probes, three interventions or faults |
| `output_session` | `StreamIsWhole`, `StopReturns` | three video packets, a queue of two, two faults |
| `viewer_control` | `Coherent`, `TierCoherent`, `RoleIsTheViewersOwn`, `ControlKeepsOthers`, `Served` | one viewer, two rates, three configurations, eight kinds of message, two of them sent |
| `media_transport` | `CacheHoldsTheNewest`, `RepairRateBounded`, `RtxInOrder`, `PacedWithoutGaps`, `CloseIsClean`, `KeyframesAreThrottled` | two reporting threads, sequence numbers modulo three, a cache of two packets and three bytes, two frames |

Where a run switches the deadlock check off the system stops by itself: a stopped
session stays stopped, or the bound on inputs is used up. That nothing waits for
ever is then a liveness property of the run. Each section below says why its
bounds are enough.

## 3. PeerExecutor

A step of the model is one critical section of `mutex_`, or one user callback
(generation predicate, operation, completion) run outside it. The threads are
`Clients`, which may enqueue, stop and start at any time, and the workers, whose
callbacks may call the same operations. `handle` is the `std::thread` member;
`finalizeStoppedWorker` moves it out before joining, and its three stages are the
caller's program counter (`finalize`, `join`, `await`). `lifecycle` is
`lifecycleMutex_`, which `stop` only tries to lock.

`enqueue` is one action with one disjunct per result of `EnqueueResult`; a
displaced or refused item is then in the caller's `hand` until the completion is
invoked, because the code does that after unlocking. `ReplaceTransport` is the
environment: a transport is rebuilt, which makes queued items stale. Items carry
no code: an operation runs, or throws. Statistics counters and `waitUntilIdle`
change nothing and are left out; `consecutiveCritical_` saturates at its limit,
the only value it is compared with. `PerPeerFloor` is the literal 4 of the
constructor, a constant here so that small queues can be full for one peer.

Four items against a queue of three take every branch of `enqueue`, and an item
is reused once it is settled. Two worker lifetimes are what a delayed finalizer
needs to meet a later worker.

Fairness (`FairSpec`): worker threads and threads inside a call are scheduled
(weak fairness); callbacks return (strong fairness, as a callback that calls back
into the executor is disabled during that call). No client is obliged to call
anything.

**Proved** (`PeerExecutorProofs`), for every number of items, peers, clients,
restarts and every queue bound, from `ExecutorAssumption` only: every safety
property of both runs, and that each step is a step of `SerialExecutor` or a
stutter (`SerialTheorem`). None is inductive. `IInv` connects the parts of the
lifecycle: where the thread handle is (in the member, or with the one caller that
owns `lifecycle` and is joining), that a live worker is the one of the current epoch
and is either held or being joined, that `inFlight` counts exactly the worker that
is inside an item, that `workerExited` means the worker has ended, and that a stop
leaves the queues empty. `PlacedInv` adds where every item is: queues do not
repeat an item, an unanswered submission is in exactly one queue, hand or worker
and an answered one in none, and the counters count. The refinement
mapping reads off the worker's program counter whether an item is running; that
nothing is lost (`NothingIsLost`) is what its steps rest on. Lemmas on `Append`,
`RemoveAt`, `Tail` and concatenation say what they do to the items and the counts of
a queue without repetitions.

## 4. PeerNegotiation

One viewer. A step is one critical section of `negotiationMutex` together with
what the thread does to the transport or the wire before it next reads shared
state. `clientOperationMutex` and `callbackOperationMutex` (the lease) are held
across several steps and are read off the program counters (`ClientFree`,
`LeaseFree`). `Threads` run the same code; one of them is the executor's worker,
which dispatches only events of the current client transport and holds the lease
for the whole operation, as `enqueuePeerCallbackOperation` does. `ctx` holds the
generations a thread captured before unlocking; the code compares them again
after every lock, and so does the model.

| Code | Actions |
|---|---|
| `onOfferRequest` | `Init` (the peer is in the map), `Initialize` |
| `sendPeerOffer` | `SendPeerOffer` (reserve or coalesce), `BuildTransport`, `CreateOffer`, `OfferFailed`, `DispatchOffer`, `RevertDispatch`, `FlushCandidates` |
| `applyPeerAnswer` | `AcceptAnswer`, `FallBack`, `ApplyAnswer`, `CommitAnswer`, `DrainRemote`, `ApplyDrained` |
| `runQueuedPeerTransition` | `RunQueued` |
| `applyPeerMediaPlan` | `BeginMediaPlan`, `EnsureTracks`, `EndMediaPlan` |
| `handlePeerRemoteCandidate` | `HearCandidate`, `StoreRemote`, `AddRemote` |
| ICE callback | `Gather`, `SendCandidate` |
| `handlePeerConnectionState` | `Connected`, `TransportFailed` |
| `removePeerSession` | `RemovePeer`, `ErasePeer` |

The environment: answers to any offer on the wire arrive at any time, any number
of times; a viewer's candidates name the session of an offer it has seen or come
before the peer joined; the transport gathers candidates once it has a local
description; every external call may fail. SDP is abstracted to whether the
transport accepts it; the time-to-live of queued candidates is a free choice at the
drain; whether a media plan adds tracks, or alpha (which asks for a rebuild),
is free. `pendingRemote` holds one queue per wire session, 0 for candidates that
name none. `transport`, `created`, `described` and `closed` are the `WebRtcClient`;
that a failed or closed connection never connects again is an assumption about
libdatachannel.

Two offers and one rebuild are enough for every pair of operations to overlap
once and for a message of the retired session to arrive late. Other threads than
the worker are symmetric. Fairness: a thread inside `sendPeerOffer` and the ICE
callback run on; neither waits for anything but a lock.

`NoStrandedTransition` excludes three cases and says so: an offer that could not be
sent leaves what was queued behind it to the viewer's watchdog, and so does a retired
transport, or one that refused an answer and then reconnected (section 15).

**Proved** (`PeerNegotiationProofs`), for any number of threads, offers, sessions
and candidates: all five safety properties of the two runs. The inductive invariant
is a conjunction of parts, each of which TLC checked under both configurations
before it was proved:

- `MakingInv`: the reservation flags (`creating`, `answering`, `planning`) and the
  program counters say the same, and at most one thread makes an offer, holds the
  client or applies an answer;
- `OfferInv`: what is on the wire in the active session was made by the transport
  there is, and offers are numbered in order;
- `AnswerInv`, `VerdictInv`: an answer under way is to the current offer, and every
  offer of the session but perhaps the last one has its verdict;
- `QueuedInv`: what a coalesced transition waits for;
- `RemoteInv`: what the viewer sent is named once; a candidate in a queue, in the
  hands of a thread, or added to the transport was sent for that session; a thread
  that carries candidates across a rebuild is too late (`LateInv`);
- `WaitsForSomeone`, on top of `IInv`, names the drain that will find a queued
  candidate.

The step lemmas come in layers, one lemma per part and one step per action.

## 5. WebRtcClient and DuplicateOfferRecheck

`WebRtcClient` is the transport of each client as action operators: `SwapIn`
(publish the new generation and retire the old one), `ResetPeerConnection`,
`CreateOffer`, `EnsureMediaTracks`, `Suppress`, `Resume`, `ShutdownSwap`, and the gate
(`Admit`, `Release`), through which a callback passes only when it bears the
current generation and callbacks are not suppressed. A reset waits for the
callback in flight (`DispatchFree`), except from inside a callback, where it is
refused (`ResetRefused`). Its operators are called by the threads of
`DuplicateOfferRecheck`:

| Code | Actions |
|---|---|
| `handleDuplicatePeerOfferRequest`, `onOfferRequest` | `OfferRequest` (`KnownRequest`, `UnknownRequest`), `Duplicate`, `Capture`, `Insert`, `Supersede` |
| the scheduler thread | `Dispatch`, `Enqueue`, `LoopEnds`, `DropSilently`, `Drop` |
| the executor's worker | `TakeJob`, `RunLate`, `RunLock`, `RunAdmit`, `RunDecide`, `RunJudge`, `RunFinish` |
| `sendPeerOffer` as the recheck and others run it | `OfferReserve`, `OfferReset`, `OfferAdopt`, `OfferCreate`, `OfferReturns` |
| `cancelDuplicateOfferRecheckJob(s)` | `StartCancel`, `CancelAll`, `Take`, `Complete`, `Await` |
| `goLive`, `stopLive`, `shutdown` | `GoLive`, `Reopen`, `StopLive`, `StopJoins`, `Clear`, `Mark`, `ClearJobs`, `Shutdown`, `JoinLoop` |
| removal, prune, asynchronous shutdown | `MarkRemoved`, `CancelOne`, `Erase`, `Prune`, `ReaperStep` |
| a new session | `InitLock`, `InitBuild`, `InitResume`, `InitInstall` |

Deadlines are steps that may come at any time. `barred` is a history variable: the
serials of the jobs whose cancellation has returned. The executor appears through
what section 3 shows of it: an accepted operation runs once or is completed without
having run, never both. Two jobs let a newer request supersede an older one; two
transports let callbacks of the first one arrive late; the three inputs are
requests, removals and messages; one later `goLive` lets a job of the stopped
stream meet the next one. Fairness: the maintenance thread, which looks again
every second, and all other threads; no call, message or prune is promised.

**Proved** (`DuplicateOfferRecheckProofs`), for any number of sessions, jobs, transports,
lives and messages: types, `NoRebuildAfterCancel`, `NoLateCallback` and
`SectionsSurviveRebuild`. None of them is inductive; `IInv` adds
- `Typed`, with what each thread has in hand at each of its steps (`Hand`);
- `Locked`: whoever works on a transport holds the session's locks, which keeps the
  reaper's shutdown away from a rebuild or an initialization;
- `BarrierInv`: while the worker rebuilds it has the job's barrier and the job has no
  disposition, whereas every job in `barred` has one;
- `GoneInv` and `GateInv`: only a session marked as removed is shut down; a session
  whose shutdown is done is suppressed, has no transport, and refuses a reset. Without
  the mark an initialization could resume the callbacks of a client already shut down;
- `FreshInv`: a session that is being initialized has no transport yet, so the one
  operation that forgets the negotiated sections never replaces a transport;
- `SectionInv`: what a transport has was noted as negotiated, and alpha comes with
  video, so that `Kinds` drops no section a rebuild has to keep.

## 6. SignalingSocket and SignalingRecovery

`SignalingSocket` is `VdoSignaling`'s connection: `active`, `retired`, the one
admitted `callback`, the three flags, and `call`, the place which the connect or
disconnect in progress has reached. `SignalingRecovery` extends it with the
threads of `VersusApp` that call it: the control thread (`goLive` and `stopLive`,
which the user interface runs one after the other), the recovery thread, and the
callback thread. `opsMutex` is `signalingOpsMutex_`; whoever holds it drives
`call`. Each thread has a program counter; a step is one access to the shared
atomics, one critical section of the lifecycle mutex, or a lock and the step under
it. Stores that no other thread can tell apart are one step: the flags `stopLive`
sets, the flags `disconnect` clears, publishing a seed and noting it.

| Code | Actions |
|---|---|
| `VdoSignaling::connect` | `ConnectBegin`, `Activate`, `Wait`, `GiveUp`, `KeepWaiting`, `Opened` |
| `VdoSignaling::disconnect` | `Detach`, `Clear` |
| `sendMessage`, `publish` | `CanSend`, `Publish` |
| `ActiveSocketCallbackLease` | `Admit`, `Refuse`, `Return` |
| `goLive` | `GoLive`, `Reset`, `StartRefused` (no usable output or ICE servers), `Connect`, `Connecting`, `JoinRoom`, `PublishStream`, `Abandon`, `ShareLink`, `Announce` |
| `stopLive` | `StopLive`, `StopJoins`, `Unpublish`, `StopEnds` |
| `stopSignalingRecoveryThread` | `Joins`, a step of `StopJoins` or of `HandlerJoins` |
| recovery thread | `RecoveryLoop`, `Attempt` ... `AttemptOver`, `RecoveryEnds` |
| `setupSignalingCallbacks`, `startSignalingRecovery` | `Deliver`, `OnOpen`, `OnClosed`, `OnError`, `OnLoss`, `StartRecovery`, `HandlerJoins`, `Spawn`, `OnAlert`, `AlertDisconnects` |

The environment: a socket opens, fails or drops whenever it likes; its callbacks
are delivered later, one at a time, and a callback of a destroyed socket may still
be under way; the server may refuse a published stream id. A send may fail on an
open socket. Two assumptions about libdatachannel: the callbacks of one socket do
not overlap, and a callback is never run on the recovery thread with a lease (a
close calls back only after the socket has ceased to be active).

The `std::thread` of the recovery is under no lock, and `stopLive` and a callback may
be in `stopSignalingRecoveryThread` at once (V:7335-7345): a recovery has ended, the
connection drops again, and the user presses stop. `Joins` takes it in the steps of
the code: `joinable()`, the call of `join()`, the wait in it, and the emptying of the
object. Of two that wait for one thread, the first to see it ended gets it; the
other's join throws `std::system_error`, and so does a join of an object that is, or
is about to be, empty (`overtaken`, `CanWait`). The language calls this a data race;
the outcomes are those of the thread libraries the build uses, short of a handle
that the system gives out again between two steps, which is left out. Where the
exception goes:

- in a callback it ends the callback, `reconnecting_` stays set, and libdatachannel
  catches it (`HandlerJoins`);
- in `stopLive` it skips `unpublish`, `disconnect` and all that follows (`StopJoins`).
  A stop from the window runs in a future that keeps the exception, and the window
  shows "Stopping" until a stop is forced (`main_window.cpp:2893`); a stop inside
  `goLive` and one by remote hangup are caught by their callers
  (`main_window.cpp:3106`, V:5390 on the executor); the calls at
  `main_window.cpp:747`, `main.cpp:638` and `main.cpp:648` have no catch, and there
  the program ends. The model goes on, as after the first three.

`FlagHasItsThread`, a part of `OwnersKeepWhatTheyUse`, says that the flag which such
a callback leaves behind never keeps recovery out of a live stream. `cutShort`, a
history variable, records that a stop of a live stream threw and that nobody has
disconnected since; `StoppedIsOffline` allows a socket to remain only then, and only
one whose connection is down. The control thread is one caller after the other: two
calls of `stopLive` at once (the window and a remote hangup) are not modelled.

`missed` is a history variable. It records four losses of the connection that the
code hears, or causes, and does not act on:

- `"starting"`: `onDisconnected` runs between `publish` and `live_ = true`;
- `"recovering"`: `startSignalingRecovery` hears of a drop when the recovery thread
  has done its work, successfully or not, and has not yet reset `reconnecting_`
  (`Ending`). A drop during an attempt is not one of these: the attempt meets it;
- `"refused"`: the refusal of a stream id is handled while `goLive` is under way:
  `goLive` then sets `live_` all the same, or `stopRequested_` stays set and turns
  off every recovery of the new session. The refusal may be one of the session
  before, whose callback was delayed;
- `"leftover"`: an attempt of an earlier session's recovery, which waited for
  `signalingOpsMutex_`, drops the socket on which the new `goLive` has published
  but not yet set `live_`; it sees that it is not wanted, and ends without a
  connection (V:1543).

`loss_is_recovered` is a finding: the second of the four losses contradicts
`docs/native-streaming-flow-map.md`, and leaves a live stream that new viewers cannot
find until the user stops it. `LiveIsServedUnlessMissed`, one half of
`RestIsConsistent`, shows that there is no fifth way; `StoppedIsOffline` is the
other half.

A socket object is reused once nothing refers to it, so two of them allow any
number of connections: at most one is active while one is retired, or destroyed
with a callback under way. Two sessions let a callback or a flag of the first one
reach the second; `"leftover"` takes a third: a recovery thread started just
as the first session was stopped begins an attempt while the second is live, an alert
ends that one without a join, and the attempt goes on when the third has published.

Fairness (`FairSpec`, each condition with the variable that every step of its action
moves as subscript): threads that can run do, callbacks due are delivered, and
`connect` gives up in the end (strong fairness, for its ten-second limit). The
network owes nothing; `Recovers` alone assumes, as its premise, that the server
answers and that from some time on nothing disturbs the connection.

`CallsReturn` does not promise that a callback returns while the stream is live. A
recovery thread started just as the stream was stopped, and not scheduled until the
next session is live, would start an attempt there; a callback that then joins it
holds the lease because of which its `connect` is refused, again and again, until
the stream is stopped. `Recovers` speaks of the first session for this reason.
Likewise `connect` may return true for a socket that is not open yet, when an
`onOpen` admitted before a timeout sets the flag after `disconnect` cleared it; the
send that follows fails, and the attempt with it.

**Proved** (`SignalingRecoveryProofs`), for every finite set of sockets and any
number of sessions: type correctness, `OwnersKeepWhatTheyUse` and
`RestIsConsistent`. `OwnersKeepWhatTheyUse` has four parts: an admitted
callback has its socket, what is published has its socket outside of disconnect, a
recovery thread is never assigned over one that is still joinable, and in a live
stream the recovery flag has its thread. The first three need `LockInv`, the lock
discipline: the lock is held exactly while a call is in progress, and by the thread
whose program counter is inside one, so that no thread can start a second call
between the two halves of a disconnect; and a thread that has been joined has one
joiner which is still to empty the object. The fourth needs the other invariants:
`JoinInv` (who waits in `join()` has a thread to wait for or has been overtaken) and
`FlagInv` (a callback whose join is going to throw holds the flag for a session that
is over, and keeps the next one from connecting until it has returned).

`RestIsConsistent` needs more, because it speaks of a state at rest and every thread
passes through many others before. `RestInv` says at each place of each thread who
is still going to act: `ShownInv`, that a live stream without a socket in use has a
loss that is still to be heard, or a recovery that will try again; `OfflineInv`,
that without a live stream an active socket is somebody's to drop. They rest on
`StageInv` (what `goLive` and an alert have made of `live_` so far), `LeaseInv`
(beside an active socket only its own callback runs), `ClashInv` (a stop whose join
is going to throw finds the connection down), `ClosedInv` (only a closed
socket reports a close) and `DroppedInv` (between disconnect and the next connect
there is no socket). Each part was checked by TLC first; with three sessions that
check found the fourth loss.

Not modelled: external outputs in `goLive`, the maintenance thread, the shutdown of
the application and `shutdownSockets`, a stop by remote hangup on the executor's
thread (a second caller of `stopLive`, which may run beside the first), messages that
concern only viewers (their callbacks hold the lease, as those of the model do).

## 7. AlphaFramePairer and AlphaPipeline

`AlphaFramePairer` is `alpha_frame_pairer.cpp`: the admission tracker (`Admit`,
`Resolve`, `ClearPending`), the exact pairer (`SubmitPrimary`, `SubmitAlpha`,
`Complete`, `ClearPairer`), the transport clock, and the pair contract
(`ExactPair`, `CanStart`, `PreservesChain`, `NewerThan`). Payload is abstracted;
`frame` is a history field that no decision reads, and names the captured frame the
bits show. `PairerSpec` lets any packet be submitted in any order, any number of
times; `PairsExact` is proved for it.

`AlphaPipeline` puts the program around it: the encode thread (`Tick`), the alpha
thread (`AlphaThread`), the control thread that reconfigures, replaces or falls back
(`ControlThread`), the viewers that announce or withdraw alpha and get new
transports (`ViewerStep`), and capture that starts and stops (`Capture`).
`videoSendMutex_` is held while `tick.pc` or `control` is not idle, and let go where
the code lets it go: `Renegotiate`, and between a runtime control's preparation and
its handover. An encoder delays, loses or fails frames as it likes. An alpha encoder
process that misses its deadline may hand out the packet of an earlier frame at the
next call (V:7572-7625); `EncodeAlpha` has a packet at its own frame's call, which
comes to the same, as a packet is resolved by its own time and by nothing else. A viewer is its
capability (`alpha`), its wait for a keyframe, its `cutoff`, the last colour frame
of a pair sent to it (`last`), and `telling`, the place which the handler of its
announcement has reached.

Three slots are a keyframe and two dependents; queues of one overflow at the second
frame; with two interventions a transport can change twice, or once beside a
reconfiguration. Only one viewer runs, as viewers share nothing but the encoders;
the theorems are for any number.

`ChainIsUnbroken` has one exception, which the code has: a new capability is
stored before its cutoff (V:5252, 5257), and a pair dispatched in between goes by the
old one.

**Proved** (`AlphaPipelineProofs`). Of the pairer: types and `PairsExact`, from `Remembered`:
the identity of a pair made is below the watermark or still among the completed
ones, so it cannot be paired again. Of the program around it: the pipeline implements `PairerSpec`
(`PipelineUsesPairer`), so exactness carries over; a pair shows one frame; the chain
is unbroken. `FrameInv` says that whatever bears the time of a slot shows the frame
of that slot; `Locks` is the mutual exclusion and what a program counter implies of
the configuration; `PastInv` says that every half on its way belongs to the past of
the tracker and of the encoder;
`ChainInv` says that the halves that would continue a viewer's old chain are either
covered by its cutoff or those it has been sent the predecessor of. No liveness: the
encoders owe nothing.

## 8. FrameEncoder and VideoEncoder

`FrameEncoder` is what the send path expects: frames go in one by one; a packet shows
a frame that went in, later than those before it, under its identity or under none;
frames may be lost; the first packet after a start is a keyframe. `VideoEncoder` is
the code: an FFmpeg process between two pipes (`child`, `io`) with its writer and
reader threads, and a Media Foundation transform called in place (`mf`). The public
operations run one at a time, as their callers hold `videoSendMutex_` or the alpha
encoder's; beside them run the writer, the reader and the process. `caller` is the
operation's program counter with what it has still to do.

| Code | Actions |
|---|---|
| writer and reader threads | `WriterTakes`, `WriterWrites`, `WriterStops`, `WriterFails`, `ReaderReads`, `ReaderEnds`, `ReaderFails` |
| start, shutdown, restart, recovery | `StartProcess`, `StartFails`, `StartCheck`, `ShutdownBegins`, `CloseStdin`, `WaitExit`, `Join`, `Restart`, `Restarted`, `Recover` |
| warm-up and priming | `WarmUp`, `ProbeAgain`, `ProbeEnds`, `Probed`, `Prime` ... `PrimeSucceeds`, `Handover` |
| `encode` | `Encode`, `EncodeBegins`, `EncodeChecks`, `EncodeEnqueues`, `InputIsRefused`, `EncodeReturns`, `EncodeGivesUp` |
| Media Foundation | `MfWarmsUp`, `MfPullsFirst`, `MfInputIsRefused`, `MfTakes`, `MfRefuses`, `MfPullsAfter`, `MfNeedsMore`, `MfCandidateFails`, `TryAmf` ... |

Assumed: FFmpeg writes one packet per frame, and a transform that leaves out the sample
times of its output loses no frame. Such a packet gets the oldest identity that waits
(`video_encoder.cpp:2017`), which after a frame skipped, or an output consumed and
dropped (`video_encoder.cpp:1990-2007`), would be another frame's; `MfSkips` covers
both losses for the transforms that give times.

The refinement mapping takes the frames inside to be what is in the two pipes, the
process and the writer's hand, in that order, without probes and priming frames.
Three live frames are enough for one frame before, in and after a restart.
Fairness: the threads of the program; the process and the transform owe nothing,
and a wait may time out at any moment.

Nothing is proved here: the mapping filters a sequence (`SelectSeq` with an
operator), about which the library states no fact.

## 9. OutputSession

The worker (`Loop...`, `Whip...`, `StartMux`, `Take`, `Deliver...`, `Retry`, `Pause`,
`Finish`), the capture threads that push (`OfferVideo`, `OfferAudio`), the owner
(`Start`, `Stop`, `Join`), and FFmpeg's progress. Packets are numbered as they are
pushed; `stream` is what the present connection has received. `StreamIsWhole`:
a connection begins with a keyframe and then receives every video packet in order;
no time is covered by both audio and silence. A queue of two overflows at
the third packet; one fault can hit a connection and another the reconnection.
Fairness: the worker, and the join of `stop`. A push that passed the unlocked check
before a stop may append after it; nothing reads the queue then.

**Proved** (`OutputSessionProofs`), for every bound of the queue, every length of
audio and silence, and any number of packets and faults: `StreamIsWhole`. It is not
inductive: a full queue drops packets, and a push that empties it may come at any
step of the worker. `RunInv` is the fact about the queue that survives this: its
video is a run without gaps up to the last packet pushed, however often it was cut.
`FollowsInv` ties the connection to the run: the queue has all that comes after the
last packet taken, unless a restart has been requested. `StreamInv` says that such a
request is withdrawn only where nothing has been sent, and that a packet in the
worker's hand is the next one; `AudioInv`, that what was heard or filled with
silence lies behind the worker's two marks.

## 10. RoomQuality and ViewerControl

`RoomQuality` is what `videoSendMutex_` guards: configuration, room and request, the
decision with its codec and alpha routing (`quality`), the low-quality encoder, the
tier cached per viewer. `Commit` is `commitRoomQualityDecisionLocked`; goLive,
stopLive, startCapture, the frames, fallback and recovery, a refused answer, a lost
alpha encoder, and a viewer's runtime control use it. `StartCapture` and `Prepare`
let the lock go between two sections; a start that fails in between (`EncodersFail`)
or after them (`AudioFails`) is rolled back.

`ViewerControl` is a viewer's lane of the executor: a message is handled in the
stages of the code (`HandleInfo`, `Announce`, `Authorize`, `ReadInit`, `ApplyInit`,
`HandleMedia`, `ControlStream`, `HandOverStream`, `InformAboutControl`, the three
stages of a hangup), beside the maintenance thread (`CollectExpired`, `CheckExpired`,
`FallBack`) and everybody else's steps. A message is which of the fields the code
looks for it has. `named` is a history variable, the role the viewer gave itself.

Two messages and pings let the second message meet the grace period the first one
left; one viewer, because viewers meet only in the publisher's state, which the
publisher's own steps change in the same ways; three configurations are H.264 with
and without alpha, and another codec. Fairness: the maintenance thread, and per
viewer its handler, the end of its grace period, and the receipt of a ping, which
stands for a channel that is not silent. `Served` says that a viewer that stays is
introduced in the end.

**Proved** (`ViewerControlProofs`), for any number of viewers and any messages: types,
`Coherent`, `TierCoherent`, `RoleIsTheViewersOwn` and `ControlKeepsOthers`.
`RoleIsTheViewersOwn` needs `PlannedRoleOK`: what a
handler is about to apply does not contradict the role the viewer named, because
only its own lane names one. `TierInv`:
wherever a handler is, except between storing a capability and announcing it, the
cached tier is the one that decision, configuration and role give. `ControlKeepsOthers`
needs `Typed` only, as a control ends in `HandOverStream` alone and `StillCurrent`
compares the configuration it prepared from.

## 11. VideoRecovery and MediaTransport

`VideoRecovery` is the retransmission cache (`CachePacket`, `Pruned`), the reports of
the receiver handled by any of `Handlers` (`Report`, `ReadKeyframeTime`,
`AskForKeyframe`, `TakeRequests`, `Repair`, `SendRepair`), and the budget
(`Refilled`). Packets are numbered from 1, a sequence number is a packet's number
modulo `SeqMod`. `cacheMutex` covers a step, `repairSendMutex_` is held from
`TakeRequests` to the last `SendRepair`. `MediaTransport` adds `sendVideo`
(`SendVideo`, `CacheNext`, `PaceNext`), the pacer's thread (`TakePacket`,
`SendPacket`, `LockAgain`, `ThreadEnds`) and the close (`StopPacer`,
`CloseConnection`). `cost` and `costBefore` are history variables: what the repairs
decided so far cost, now and at each time.

Sequence numbers modulo three with a cache of two wrap within two frames, which is
what the wrap of 65536 against a cache of 1024 does; two handlers are enough for
each pair of reports. No fairness: `CloseIsClean` says, in every state, that a close
that waits can be answered. It says so with the guards of the actions (`MayTake`,
`MayLockAgain`, `MayEnd`) and not with ENABLED, so that it can be proved.

**Proved** (`VideoRecoveryProofs`), for every `SeqMod` larger than the cache, every
bound, budget and number of handlers: every safety
property of the run. `CacheInv`: the
cache is a run of the newest packets, shorter than the number space. `RateInv`: what
was spent and what is left add up to no more than what was regained. `OrderInv`: at
most one handler is between deciding and sending, and what it has in hand continues
what is on the wire. `PacerInv`: the queue continues the wire, and the sender's
frame continues the queue. `CloseInv`: a close that waits has requested the stop.

## 12. What TLC alone checks

- Liveness (`ShutdownCompletes`, `CriticalBurstEnds`, `OffersComplete`, `CallsReturn`
  of both modules, `Recovers`, `RechecksAndCallsEnd`, `StopReturns`, `Served`):
  out of the proof system's reach.
- `ImplementsFrameEncoder`: its mapping filters a sequence by an operator, and what
  that does to a sequence takes an induction over its length.
- Every other invariant and action property of the passing runs has a theorem.
- `LossIsRecovered` is violated.

Proofs assume nothing but the named assumptions on constants in the modules:
the sets are finite where the code's are, bounds are positive, and a sequence number
names at most one packet of a full cache. TLC evaluates each of them in a run.

## 13. What is not modelled

- Window, camera and Spout capture, the bitstream, pixel conversion, command lines,
  audio resampling and Opus, ICE server lists, RTP byte layout, crash reporter,
  update checker, local control server, Qt user interface: calls to
  operating-system and codec libraries, conversions, or single-threaded parsing.
- The mixing of two audio captures: two threads and a lock. It is the next component
  worth a module.
- The low-quality encoder's packets, the adaptation to the size of the source, and
  the recovery cooldown, beyond the choice they leave to the modules above.
- The video encoder that calls libavcodec in the process (`video_encoder.cpp:1214-1495`,
  under `VERSUS_HAS_FFMPEG`, which no build file defines): it has no threads and no
  queue of frames, and looks the identity of a packet up by the library's time stamp.
- Two calls of `stopLive` at once, and a thread handle given out again by the system
  while a join that was overtaken still holds it.
- Time: a deadline is an action that may happen. In `VideoRecovery`, where rates are
  the point, it is a counter.
- One viewer or one executor in most runs; the theorems are for any number.

## 14. Extending it

Left to do, in this order: `ImplementsFrameEncoder`, with a mapping stated on sets of frames rather than on
filtered sequences, so that it can be proved; a module for audio mixing; the destructor's
`shutdownSockets` and a stop by hangup in `SignalingRecovery`.

## 15. Observations

Behaviours met while modelling that no run is about, because no document of the
repository denies them or because they lie outside of what is modelled. They are
notes for a reviewer of the code, not verdicts.

Executor and rechecks:
- `popFairLocked` keeps one `lastServedPeerKey_` for both queues
  (`peer_operation_executor.cpp:445`). As long as B keeps an ordinary item queued and
  A has a critical one between each two of them, A's ordinary item is passed over.
- A recheck whose reset failed is counted as a rebuild (V:8807-8822). A signaling
  `onOfferRequest` that runs across `stopLive` can add a session after
  `clearPeerSessions`. A prune looks twice, and removes without a third look (V:4415).

Negotiation and signaling:
- A local candidate is lost when a same-transport renegotiation is reserved between
  the two checks of the ICE callback (V:3632-3640; the comment at V:3601 says that
  such a renegotiation keeps candidates valid).
- A connected event of a transport whose answer was refused clears `retired`, and
  the next offer does not rebuild it (V:3229; comment at V:9724).
- A late answer to an earlier offer of the session may be accepted while the dispatch
  of the next one is being reverted.
- The ICE callback takes `signalingOpsMutex_` with the dispatch mutex held;
  `VdoSignaling::disconnect` waits for no callback, so there is no cycle.
- When `stopLive` and a late `onDisconnected` join the same ended recovery thread, the
  join of one of them throws (V:1543, V:7259). If it is `stopLive`'s, the maintenance
  thread and the peers are left as they are and the stop stays unfinished, although
  `docs/native-streaming-flow-map.md:485` says: "Stop/live teardown disables recovery
  and clears peers."

Alpha and encoders:
- With alpha turned off by a failed reconfiguration, the next dependent frame goes by
  the plain path to a viewer that missed the pending pairs. A plain send that fails
  does not make the viewer wait for a keyframe.
- `lastAlphaPrimaryEncodedSequence` is not reset with the transport, which, with the
  order of V:5252 and 5257, is the exception of `ChainIsUnbroken`.
- The alpha thread's failed reconfiguration turns alpha off even if a control restarted
  the alpha encoder meanwhile (V:7519-7545); the codec fallback of a refused answer
  may restore a configuration with alpha while the alpha encoder stays down.
- Hardware recovery may leave a rejected candidate running while `videoConfig_` is
  unchanged (V:6492-6634). A runtime control may initialise encoders after
  `stopCapture` shut them. Keyframe requests are not handed to external FFmpeg
  encoders (V:6440).
- If the thread for FFmpeg's error output cannot be created, initialisation hangs
  (F:2979-3019). The writer is assumed to return when its handle is closed. A
  mismatched IVF header makes the reader's buffer grow; B-frames would break the
  order of identities.

Rooms and viewers:
- A room viewer whose message has media fields and no role may be introduced by the
  fallback and then un-introduced by its own handler, with no deadline, until its next
  message.
- A direct viewer whose info names an unknown role is never introduced, and holds up
  the periodic info for everyone. A mute sent before the introduction is overwritten.
- Unmuting and a change of tier do not make the viewer wait for a keyframe.
- The H.264 fallback of `startCapture` writes back the configuration it copied, and
  loses a control applied in between. Authorisation is decided before the message's
  own role is applied.
- A hangup during `goLive` finds `live_` false; `goLive` then sets it with the room
  given up. A late hangup can clear the room of the next `goLive`; a hangup and the
  application may join the maintenance thread at once (V:7470).

Media transport:
- The pacer compares 750 ms with its schedule, not with its lag; after a stalled send
  it may stream old video up to its byte bound (comment at `video_pacer.h:14`).
- Packets are stamped when cached, before pacing, and may be forgotten before they
  are on the wire.
- The last store of `bindDataChannel` can race with the close of the channel.
- Tracks without a bitrate for recovery and VP9 tracks do not throttle requests for
  keyframes.
