------------------------ MODULE DuplicateOfferRecheck ------------------------
(***************************************************************************)
(* The viewer of one UUID asks for an offer again and again, while its     *)
(* transport may be about to connect.  A duplicate request is therefore    *)
(* not answered at once: a recheck is scheduled, and a second later, when  *)
(* the same transport is still not connected, the transport is rebuilt.    *)
(* Meanwhile the stream may be stopped, the viewer removed or pruned, the  *)
(* transport replaced, and every one of these must cancel the recheck.     *)
(*                                                                         *)
(* Peer sessions of the viewer follow one another; session p owns client p *)
(* of WebRtcClient.  The executor of peer operations is used through what  *)
(* PeerExecutor shows of it: an accepted operation is run once by the      *)
(* viewer's worker or completed without having run, never both.            *)
(***************************************************************************)
EXTENDS WebRtcClient

CONSTANTS
  MaxJobs,       \* rechecks scheduled
  MaxLives,      \* calls of goLive
  MaxInputs      \* messages and media plans of the viewer, and reports of
                 \* libdatachannel, together

ASSUME RecheckAssumption ==
  /\ Clients = 1 .. Cardinality(Clients)
  /\ MaxJobs \in Nat /\ MaxLives \in Nat /\ MaxInputs \in Nat

VARIABLES
  running, stopping, accepting,   \* duplicateOfferRecheck{Running,StopRequested,Accepting}_
  slot,         \* duplicateOfferRechecks_ of this viewer: its one entry
  serial,       \* duplicateOfferRecheckSerial_
  verdict,      \* the disposition in each job's control block
  barrier,      \* the job whose barrierMutex the worker holds
  queue,        \* rechecks in the executor
  posted,       \* the connection-state operation in the executor
  mapped,       \* the session in peerSessions_
  admitted,     \* sessions made so far
  removed, initializing, retired, stale, pending,   \* of each PeerSession
  wireGen, clientGen,   \* activeTransportGeneration, clientTransportGeneration
  held,         \* who holds callbackOperationMutex and clientOperationMutex
  reaper,       \* the asynchronous shutdown of each session
  live, online, \* goLive returned; the signaling connection delivers
  at, arg, todo, next,   \* the threads: step, session, job to cancel, return step
  inputs, lives,
  barred        \* history: jobs whose cancellation returned

schedulerVars == <<running, stopping, accepting, slot, serial, verdict, barrier>>
executorVars == <<queue, posted>>
peerVars == <<mapped, admitted, removed, initializing, retired, stale, pending,
              wireGen, clientGen, held>>
threadVars == <<at, arg, todo, next>>
lifeVars == <<live, online, reaper>>
boundVars == <<inputs, lives>>
vars == <<clientVars, schedulerVars, executorVars, peerVars, threadVars,
          lifeVars, boundVars, barred>>

Nobody == 0
Free == "free"
Threads == {"control", "signaling", "maintenance", "worker", "loop", "executor"}
Serials == 1 .. MaxJobs
\* A job: its serial, and the session, wire generation and client generation it
\* was captured from.  In the slot it is waiting, dispatched or canceling.
NoJob == [serial |-> 0, peer |-> Nobody, wire |-> 0, gen |-> 0]
NoSlot == [job |-> NoJob, state |-> "none"]
NoEvent == [gen |-> NoTransport, event |-> "none"]

\* What a viewer may want at a rebuild or in a media plan.
Wishes == {{"audio"}, {"video", "alpha"}}

\* Where a thread returns to.
Home(t) == IF t = "loop" THEN "wait" ELSE "idle"

Init ==
  /\ ClientInit
  /\ running = FALSE /\ stopping = FALSE /\ accepting = FALSE
  /\ slot = NoSlot /\ serial = 0 /\ barrier = 0
  /\ verdict = [s \in Serials |-> "none"]
  /\ queue = {} /\ posted = [p \in Clients |-> NoEvent]
  /\ mapped = Nobody /\ admitted = 0
  /\ removed = [p \in Clients |-> FALSE]
  /\ initializing = [p \in Clients |-> TRUE]
  /\ retired = [p \in Clients |-> FALSE]
  /\ stale = [p \in Clients |-> FALSE]
  /\ pending = [p \in Clients |-> FALSE]
  /\ wireGen = [p \in Clients |-> 0]
  /\ clientGen = [p \in Clients |-> NoTransport]
  /\ held = [p \in Clients |-> Free]
  /\ reaper = [p \in Clients |-> "none"]
  /\ live = FALSE /\ online = FALSE
  /\ at = [t \in Threads |-> IF t = "loop" THEN "off" ELSE "idle"]
  /\ arg = [t \in Threads |-> Nobody]
  /\ todo = [t \in Threads |-> NoJob]
  /\ next = [t \in Threads |-> Home(t)]
  /\ inputs = 0 /\ lives = 0
  /\ barred = {}

Input == inputs < MaxInputs /\ inputs' = inputs + 1

Goto(t, step) == at' = [at EXCEPT ![t] = step]
---------------------------------------------------------------------------
(* Cancelling a job.                                                       *)

\* A thread that marked the job as being cancelled waits for the barrier and
\* gives it a disposition if it has none, then takes it out of the map.
StartCancel(t, step) ==
  /\ slot # NoSlot
  /\ slot' = [slot EXCEPT !.state = "canceling"]
  /\ todo' = [todo EXCEPT ![t] = slot.job]
  /\ next' = [next EXCEPT ![t] = step]
  /\ Goto(t, "settle")

\* ... of every job, or of none when the map is empty.
CancelAll(t, step) ==
  \/ StartCancel(t, step)
  \/ slot = NoSlot /\ Goto(t, step) /\ UNCHANGED <<slot, todo, next>>

\* Mutant of BarrierFree: the control block is written without its mutex.
NoBarrier(s) == TRUE

\* Whether a cancellation has to wait for a recheck that is being executed.
BarrierFree(s) == barrier # s

Settle(t) ==
  LET s == todo[t].serial IN
  /\ at[t] = "settle"
  /\ BarrierFree(s)
  /\ verdict' = [verdict EXCEPT ![s] = IF @ = "none" THEN "canceled" ELSE @]
  /\ Goto(t, "complete")
  /\ UNCHANGED <<clientVars, running, stopping, accepting, slot, serial, barrier,
                 executorVars, peerVars, arg, todo, next, lifeVars, boundVars, barred>>

\* completeDuplicateOfferRecheck: only the very job is erased.
Erased(s) == slot # NoSlot /\ slot.job.serial = s

Take(j) ==
  /\ slot' = IF Erased(j.serial) THEN NoSlot ELSE slot
  /\ pending' = IF Erased(j.serial) THEN [pending EXCEPT ![j.peer] = FALSE] ELSE pending

Complete(t) ==
  /\ at[t] = "complete"
  /\ Take(todo[t])
  /\ barred' = barred \cup {todo[t].serial}
  /\ todo' = [todo EXCEPT ![t] = NoJob]
  /\ next' = [next EXCEPT ![t] = Home(t)]
  /\ Goto(t, next[t])
  /\ UNCHANGED <<clientVars, running, stopping, accepting, serial, verdict, barrier,
                 executorVars, mapped, admitted, removed, initializing, retired, stale,
                 wireGen, clientGen, held, arg, lifeVars, boundVars>>

---------------------------------------------------------------------------
(* sendPeerOffer, on the worker or in a signaling callback.  What the      *)
(* negotiation itself does is PeerNegotiation's subject; here it replaces  *)
(* the transport, or fails, or is put off.                                 *)

\* Back to the caller; a signaling callback then lets the session go.
OfferReturns(t) ==
  IF t = "worker"
  THEN Goto(t, "judge") /\ UNCHANGED <<held, arg>>
  ELSE /\ Goto(t, "idle")
       /\ held' = [held EXCEPT ![arg[t]] = Free]
       /\ arg' = [arg EXCEPT ![t] = Nobody]

\* A removed session gets no offer; a running answer or media plan puts it off.
OfferRefused(t) ==
  LET p == arg[t] IN
  /\ at[t] \in {"rebuild", "bootstrap"}
  /\ held[p] = t
  /\ \/ removed[p] \/ initializing[p]
     \/ at[t] = "rebuild"
  /\ OfferReturns(t)
  /\ stale' = [stale EXCEPT ![p] = @ \/ at[t] = "rebuild"]
  /\ UNCHANGED <<clientVars, schedulerVars, executorVars, mapped, admitted, removed,
                 initializing, retired, pending, wireGen, clientGen, todo, next,
                 lifeVars, boundVars, barred>>

\* The wire session and the transport generation are reserved, and callbacks of
\* the old client transport are disowned.
OfferReserve(t) ==
  LET p == arg[t]
      rebuild == at[t] = "rebuild" IN
  /\ at[t] \in {"rebuild", "bootstrap"}
  /\ held[p] = t
  /\ ~removed[p] /\ ~initializing[p]
  /\ rebuild => built[p] < MaxTransports
  /\ wireGen' = [wireGen EXCEPT ![p] = @ + 1]
  /\ clientGen' = [clientGen EXCEPT ![p] = IF rebuild THEN NoTransport ELSE @]
  /\ retired' = [retired EXCEPT ![p] = FALSE]
  /\ stale' = [stale EXCEPT ![p] = @ \/ rebuild]
  /\ Goto(t, IF rebuild THEN "reset" ELSE "create")
  /\ UNCHANGED <<clientVars, schedulerVars, executorVars, mapped, admitted, removed,
                 initializing, pending, held, arg, todo, next, lifeVars, boundVars, barred>>

\* The client's transport is replaced.  A session removed meanwhile is spared.
OfferReset(t) ==
  LET p == arg[t] IN
  /\ at[t] = "reset"
  /\ \/ removed[p] /\ UNCHANGED clientVars /\ Goto(t, "offerFailed")
     \/ ~removed[p] /\ ResetRefused(p) /\ Goto(t, "offerFailed")
     \/ /\ ~removed[p]
        /\ \E want \in Wishes, ok \in BOOLEAN :
             ResetPeerConnection(p, want, ok) /\ Goto(t, IF ok THEN "adopt" ELSE "offerFailed")
  /\ UNCHANGED <<schedulerVars, executorVars, peerVars, arg, todo, next,
                 lifeVars, boundVars, barred>>

OfferAdopt(t) ==
  LET p == arg[t] IN
  /\ at[t] = "adopt"
  /\ clientGen' = [clientGen EXCEPT ![p] = IF removed[p] THEN @ ELSE transport[p]]
  /\ Goto(t, IF removed[p] THEN "offerFailed" ELSE "create")
  /\ UNCHANGED <<clientVars, schedulerVars, executorVars, mapped, admitted, removed,
                 initializing, retired, stale, pending, wireGen, held, arg, todo, next,
                 lifeVars, boundVars, barred>>

\* The offer is created and sent; a signaling connection that refuses it only
\* marks the session as unreachable.
OfferCreate(t) ==
  LET p == arg[t] IN
  /\ at[t] = "create"
  /\ \E ok, sent \in BOOLEAN :
       /\ CreateOffer(p, ok)
       /\ IF ok
          THEN /\ OfferReturns(t)
               /\ stale' = [stale EXCEPT ![p] = @ \/ (~sent /\ ~removed[p])]
          ELSE /\ ~sent
               /\ Goto(t, "offerFailed")
               /\ UNCHANGED <<held, arg, stale>>
  /\ UNCHANGED <<schedulerVars, executorVars, mapped, admitted, removed, initializing,
                 retired, pending, wireGen, clientGen, todo, next, lifeVars, boundVars, barred>>

OfferFailed(t) ==
  LET p == arg[t] IN
  /\ at[t] = "offerFailed"
  /\ retired' = [retired EXCEPT ![p] = TRUE]
  /\ stale' = [stale EXCEPT ![p] = TRUE]
  /\ OfferReturns(t)
  /\ UNCHANGED <<clientVars, schedulerVars, executorVars, mapped, admitted, removed,
                 initializing, pending, wireGen, clientGen, todo, next, lifeVars,
                 boundVars, barred>>

OfferStep(t) ==
  \/ OfferRefused(t) \/ OfferReserve(t) \/ OfferReset(t)
  \/ OfferAdopt(t) \/ OfferCreate(t) \/ OfferFailed(t)

---------------------------------------------------------------------------
(* removePeerSession: cleanup, a failed initialization, the prune.         *)

\* A signaling callback that removes a session it initializes holds its lock.
LetGo(t, p) == [held EXCEPT ![p] = IF @ = t THEN Free ELSE @]

MarkRemoved(t) ==
  LET p == arg[t] IN
  /\ at[t] = "remove"
  /\ \/ /\ removed[p]
        /\ Goto(t, "idle")
        /\ arg' = [arg EXCEPT ![t] = Nobody]
        /\ held' = LetGo(t, p)
        /\ UNCHANGED removed
     \/ /\ ~removed[p]
        /\ removed' = [removed EXCEPT ![p] = TRUE]
        /\ Goto(t, "cancelOne")
        /\ UNCHANGED <<arg, held>>
  /\ UNCHANGED <<clientVars, schedulerVars, executorVars, mapped, admitted, initializing,
                 retired, stale, pending, wireGen, clientGen, todo, next, lifeVars,
                 boundVars, barred>>

\* Only a job of this very session is cancelled.
CancelOne(t) ==
  /\ at[t] = "cancelOne"
  /\ \/ slot.job.peer = arg[t] /\ StartCancel(t, "erase")
     \/ slot.job.peer # arg[t] /\ Goto(t, "erase") /\ UNCHANGED <<slot, todo, next>>
  /\ UNCHANGED <<clientVars, running, stopping, accepting, serial, verdict, barrier,
                 executorVars, peerVars, arg, lifeVars, boundVars, barred>>

Erase(t) ==
  LET p == arg[t] IN
  /\ at[t] = "erase"
  /\ mapped' = IF mapped = p THEN Nobody ELSE mapped
  /\ reaper' = [reaper EXCEPT ![p] = IF mapped = p THEN "prepare" ELSE @]
  /\ held' = LetGo(t, p)
  /\ Goto(t, "idle")
  /\ arg' = [arg EXCEPT ![t] = Nobody]
  /\ UNCHANGED <<clientVars, schedulerVars, executorVars, admitted, removed, initializing,
                 retired, stale, pending, wireGen, clientGen, todo, next, live, online,
                 boundVars, barred>>

RemoveStep(t) == MarkRemoved(t) \/ CancelOne(t) \/ Erase(t)

\* shutdownPeerClientAsync: admission is closed and drained, and the client is
\* shut down under the session's locks.
ReaperGoes(p, step) == reaper' = [reaper EXCEPT ![p] = step]

ReaperStep(p) ==
  /\ \/ reaper[p] = "prepare" /\ Suppress(p) /\ ReaperGoes(p, "drain") /\ UNCHANGED held
     \/ /\ reaper[p] = "drain"
        /\ Quiet(p)
        /\ ReaperGoes(p, "lock")
        /\ UNCHANGED <<clientVars, held>>
     \/ /\ reaper[p] = "lock"
        /\ held[p] = Free
        /\ held' = [held EXCEPT ![p] = "reaper"]
        /\ ReaperGoes(p, "close")
        /\ UNCHANGED clientVars
     \/ reaper[p] = "close" /\ Suppress(p) /\ ReaperGoes(p, "shutdown") /\ UNCHANGED held
     \/ /\ reaper[p] = "shutdown"
        /\ ShutdownSwap(p)
        /\ held' = [held EXCEPT ![p] = Free]
        /\ ReaperGoes(p, "done")
  /\ UNCHANGED <<schedulerVars, executorVars, mapped, admitted, removed, initializing,
                 retired, stale, pending, wireGen, clientGen, threadVars, live, online,
                 boundVars, barred>>

---------------------------------------------------------------------------
(* The signaling callback thread: requests of the viewer.                  *)

requestRest == <<clientVars, schedulerVars, executorVars, removed, initializing, retired,
                 stale, pending, wireGen, clientGen, held, todo, next, lifeVars, lives, barred>>

\* A message is delivered; stopLive does not wait for the callback it starts.
Request ==
  /\ at["signaling"] = "idle"
  /\ online
  /\ Input
  /\ Goto("signaling", "lookup")
  /\ UNCHANGED <<requestRest, mapped, admitted, arg>>

lookupRest == <<requestRest, inputs>>

\* onOfferRequest for a viewer nobody owns: a session is reserved.
OfferRequest ==
  /\ at["signaling"] = "lookup"
  /\ mapped = Nobody
  /\ admitted < Cardinality(Clients)
  /\ admitted' = admitted + 1
  /\ mapped' = admitted + 1
  /\ arg' = [arg EXCEPT !["signaling"] = admitted + 1]
  /\ Goto("signaling", "init")
  /\ UNCHANGED lookupRest

\* A duplicate request, an ICE restart, a cleanup: for the session in the map.
KnownRequest ==
  /\ at["signaling"] = "lookup"
  /\ mapped # Nobody
  /\ \/ serial < MaxJobs /\ Goto("signaling", "duplicate")
     \/ Goto("signaling", "restart")
     \/ Goto("signaling", "remove")
  /\ arg' = [arg EXCEPT !["signaling"] = mapped]
  /\ UNCHANGED <<lookupRest, mapped, admitted>>

\* Nothing is done for a viewer without a session, or when no more are allowed.
UnknownRequest ==
  /\ at["signaling"] = "lookup"
  /\ mapped = Nobody
  /\ Goto("signaling", "idle")
  /\ UNCHANGED <<lookupRest, mapped, admitted, arg>>

signalRest == <<schedulerVars, executorVars, mapped, admitted, removed, retired, stale,
                pending, wireGen, todo, next, lifeVars, boundVars, barred>>

\* Mutant of Withdrawn: the initialization does not ask whether the session was
\* removed before it got the lock.
WithdrawnIgnored(p) == FALSE

Withdrawn(p) == removed[p]

\* The session is initialized under its lock, which a removal does not need.
InitLock ==
  LET p == arg["signaling"] IN
  /\ at["signaling"] = "init"
  /\ held[p] = Free
  /\ \/ /\ Withdrawn(p)
        /\ Goto("signaling", "idle")
        /\ arg' = [arg EXCEPT !["signaling"] = Nobody]
        /\ UNCHANGED <<clientVars, held>>
     \/ /\ ~Withdrawn(p)
        /\ Suppress(p)
        /\ held' = [held EXCEPT ![p] = "signaling"]
        /\ Goto("signaling", "build")
        /\ UNCHANGED arg
  /\ UNCHANGED <<signalRest, initializing, clientGen>>

InitBuild ==
  LET p == arg["signaling"] IN
  /\ at["signaling"] = "build"
  /\ \E ok \in BOOLEAN :
       /\ InitializeSwap(p, {"video", "audio"}, ok)
       /\ Goto("signaling", IF ok THEN "resume" ELSE "remove")
  /\ UNCHANGED <<signalRest, initializing, clientGen, held, arg>>

InitResume ==
  LET p == arg["signaling"] IN
  /\ at["signaling"] = "resume"
  /\ Resume(p)
  /\ Goto("signaling", "install")
  /\ UNCHANGED <<signalRest, initializing, clientGen, held, arg>>

\* The callbacks know the generation, and the first offer is sent.
InitInstall ==
  LET p == arg["signaling"] IN
  /\ at["signaling"] = "install"
  /\ clientGen' = [clientGen EXCEPT ![p] = transport[p]]
  /\ initializing' = [initializing EXCEPT ![p] = FALSE]
  /\ held' = [held EXCEPT ![p] = Free]
  /\ Goto("signaling", "bootstrapLock")
  /\ UNCHANGED <<signalRest, clientVars, arg>>

\* sendPeerOffer takes the session's locks.
OfferLock ==
  LET p == arg["signaling"] IN
  /\ at["signaling"] \in {"bootstrapLock", "restart"}
  /\ held[p] = Free
  /\ held' = [held EXCEPT ![p] = "signaling"]
  /\ Goto("signaling", IF at["signaling"] = "restart" THEN "rebuild" ELSE "bootstrap")
  /\ UNCHANGED <<signalRest, clientVars, initializing, clientGen, arg>>

\* handleDuplicatePeerOfferRequest: nothing for a session that connects or goes,
\* a rebuild for a dead transport, else a recheck.
Dead(p) == retired[p] \/ link[p] \in {"failed", "closed"}
Settled(p) == removed[p] \/ initializing[p] \/ link[p] = "connected"

Duplicate ==
  LET p == arg["signaling"] IN
  /\ at["signaling"] = "duplicate"
  /\ held[p] = Free
  /\ \/ /\ Settled(p)
        /\ Goto("signaling", "idle")
        /\ arg' = [arg EXCEPT !["signaling"] = Nobody]
        /\ UNCHANGED held
     \/ /\ ~Settled(p)
        /\ held' = [held EXCEPT ![p] = "signaling"]
        /\ Goto("signaling", IF Dead(p) THEN "rebuild" ELSE "capture")
        /\ UNCHANGED arg
  /\ UNCHANGED <<signalRest, clientVars, initializing, clientGen>>

---------------------------------------------------------------------------
(* scheduleDuplicateOfferRecheck.                                          *)

\* A caller that schedules nothing returns.
Dismiss ==
  /\ Goto("signaling", "idle")
  /\ held' = [held EXCEPT ![arg["signaling"]] = Free]
  /\ arg' = [arg EXCEPT !["signaling"] = Nobody]

\* The transport is captured under negotiationMutex, which is then let go.
Capture ==
  LET p == arg["signaling"] IN
  /\ at["signaling"] = "capture"
  /\ \/ /\ removed[p] \/ initializing[p] \/ wireGen[p] = 0 \/ clientGen[p] = NoTransport
        /\ Dismiss
        /\ UNCHANGED todo
     \/ /\ ~removed[p] /\ ~initializing[p] /\ wireGen[p] # 0 /\ clientGen[p] # NoTransport
        /\ todo' = [todo EXCEPT !["signaling"] =
                      [serial |-> 0, peer |-> p, wire |-> wireGen[p], gen |-> clientGen[p]]]
        /\ Goto("signaling", "insert")
        /\ UNCHANGED <<held, arg>>
  /\ UNCHANGED <<clientVars, schedulerVars, executorVars, mapped, admitted, removed,
                 initializing, retired, stale, pending, wireGen, clientGen, next,
                 lifeVars, boundVars, barred>>

Admitting == running /\ ~stopping /\ accepting

SameTransport(j) ==
  /\ slot.state # "canceling"
  /\ [slot.job EXCEPT !.serial = 0] = j

insertRest == <<clientVars, running, stopping, accepting, verdict, barrier, executorVars,
                mapped, admitted, removed, initializing, retired, stale, wireGen,
                clientGen, lifeVars, boundVars, barred>>

InsertNothing ==
  LET j == todo["signaling"] IN
  /\ at["signaling"] = "insert"
  /\ ~Admitting \/ (slot # NoSlot /\ SameTransport(j))
  /\ Dismiss
  /\ todo' = [todo EXCEPT !["signaling"] = NoJob]
  /\ UNCHANGED <<insertRest, slot, serial, pending, next>>

Insert ==
  LET j == [todo["signaling"] EXCEPT !.serial = serial + 1] IN
  /\ at["signaling"] = "insert"
  /\ Admitting
  /\ slot = NoSlot
  /\ serial' = serial + 1
  /\ slot' = [job |-> j, state |-> "waiting"]
  /\ pending' = [pending EXCEPT ![j.peer] = TRUE]
  /\ Dismiss
  /\ todo' = [todo EXCEPT !["signaling"] = NoJob]
  /\ UNCHANGED <<insertRest, next>>

\* A job of another transport is superseded, and the request starts over.
Supersede ==
  /\ at["signaling"] = "insert"
  /\ Admitting
  /\ slot # NoSlot
  /\ ~SameTransport(todo["signaling"])
  /\ StartCancel("signaling", "capture")
  /\ UNCHANGED <<insertRest, serial, pending, held, arg>>

---------------------------------------------------------------------------
(* The scheduler thread.                                                   *)

loopRest == <<clientVars, running, stopping, accepting, serial, verdict, barrier,
              peerVars, arg, lifeVars, boundVars, barred>>

\* At its deadline a waiting job is dispatched, unless the scheduler stops.
Dispatch ==
  /\ at["loop"] = "wait"
  /\ ~stopping
  /\ slot.state = "waiting"
  /\ slot' = [slot EXCEPT !.state = "dispatched"]
  /\ todo' = [todo EXCEPT !["loop"] = slot.job]
  /\ Goto("loop", "enqueue")
  /\ UNCHANGED <<loopRest, executorVars, next>>

\* The executor takes the job, or rejects it and completes it at once.
Enqueue ==
  /\ at["loop"] = "enqueue"
  /\ \/ /\ queue' = queue \cup {todo["loop"]}
        /\ todo' = [todo EXCEPT !["loop"] = NoJob]
        /\ Goto("loop", "wait")
     \/ /\ Goto("loop", "settle")
        /\ UNCHANGED <<queue, todo>>
  /\ UNCHANGED <<loopRest, slot, posted, next>>

LoopEnds ==
  /\ at["loop"] = "wait"
  /\ stopping
  /\ Goto("loop", "off")
  /\ UNCHANGED <<loopRest, slot, executorVars, todo, next>>

---------------------------------------------------------------------------
(* The executor.                                                           *)

\* Mutant of Drop: the completion of a dropped job is not handled.
DropSilently ==
  /\ at["executor"] = "idle"
  /\ \E j \in queue : queue' = queue \ {j}
  /\ UNCHANGED <<clientVars, schedulerVars, posted, peerVars, threadVars, lifeVars,
                 boundVars, barred>>

\* An accepted job is dropped: evicted, stale, superseded or stopped.
Drop ==
  /\ at["executor"] = "idle"
  /\ \E j \in queue :
       /\ queue' = queue \ {j}
       /\ todo' = [todo EXCEPT !["executor"] = j]
  /\ Goto("executor", "settle")
  /\ UNCHANGED <<clientVars, schedulerVars, posted, peerVars, arg, next, lifeVars,
                 boundVars, barred>>

\* The job is still the one the scheduler dispatched.
Dispatched(j) ==
  /\ Admitting
  /\ slot = [job |-> j, state |-> "dispatched"]

workRest == <<schedulerVars, mapped, admitted, removed, initializing, pending, wireGen,
              clientGen, next, lifeVars, boundVars, barred>>

\* The worker runs a recheck whose predicate still holds ...
TakeJob ==
  /\ at["worker"] = "idle"
  /\ \E j \in queue :
       /\ Dispatched(j)
       /\ queue' = queue \ {j}
       /\ todo' = [todo EXCEPT !["worker"] = j]
       /\ arg' = [arg EXCEPT !["worker"] = j.peer]
  /\ Goto("worker", "run")
  /\ UNCHANGED <<workRest, clientVars, posted, retired, stale, held>>

\* ... or the connection state the viewer's transport reported.
TakeState(p) ==
  LET e == posted[p] IN
  /\ at["worker"] = "idle"
  /\ e # NoEvent
  /\ held[p] = Free
  /\ posted' = [posted EXCEPT ![p] = NoEvent]
  /\ IF removed[p] \/ clientGen[p] # e.gen
     THEN UNCHANGED <<retired, stale>>
     ELSE /\ retired' = [retired EXCEPT ![p] =
                           IF e.event = "connected" THEN FALSE ELSE @ \/ e.event = "failed"]
          /\ stale' = [stale EXCEPT ![p] = e.event # "connected"]
  /\ UNCHANGED <<workRest, clientVars, queue, held, at, arg, todo>>

\* runDuplicateOfferRecheck.
runRest == <<clientVars, running, stopping, accepting, serial, executorVars, mapped,
             admitted, removed, initializing, retired, stale, wireGen, clientGen, next,
             lifeVars, boundVars, barred>>

WorkerIdle ==
  /\ Goto("worker", "idle")
  /\ arg' = [arg EXCEPT !["worker"] = Nobody]
  /\ todo' = [todo EXCEPT !["worker"] = NoJob]

\* A job cancelled since it was taken is left to whoever cancels it.
RunLate ==
  /\ at["worker"] = "run"
  /\ ~Dispatched(todo["worker"])
  /\ WorkerIdle
  /\ UNCHANGED <<runRest, slot, verdict, barrier, pending, held>>

\* Mutant of RunLock: the barrier is taken before the session's locks.
RunLockBarrierFirst ==
  LET j == todo["worker"] IN
  /\ at["worker"] = "run"
  /\ Dispatched(j)
  /\ \/ /\ barrier # j.serial
        /\ barrier' = j.serial
        /\ UNCHANGED <<at, held>>
     \/ /\ barrier = j.serial
        /\ held[j.peer] = Free
        /\ held' = [held EXCEPT ![j.peer] = "worker"]
        /\ Goto("worker", "admit")
        /\ UNCHANGED barrier
  /\ UNCHANGED <<runRest, slot, verdict, pending, arg, todo>>

\* The session's locks and then the barrier are taken; a disposition that is
\* there already, or a cancellation under way, is respected.
RunLock ==
  LET j == todo["worker"] IN
  /\ at["worker"] = "run"
  /\ Dispatched(j)
  /\ held[j.peer] = Free
  /\ held' = [held EXCEPT ![j.peer] = "worker"]
  /\ Goto("worker", "admit")
  /\ UNCHANGED <<runRest, slot, verdict, barrier, pending, arg, todo>>

\* The barrier and the session's locks are let go.
Leave(p) ==
  /\ held' = [held EXCEPT ![p] = Free]
  /\ Goto("worker", "finish")

RunAdmit ==
  LET j == todo["worker"]
      s == j.serial IN
  /\ at["worker"] = "admit"
  /\ \/ /\ verdict[s] # "none"
        /\ Leave(j.peer)
        /\ UNCHANGED <<verdict, barrier>>
     \/ /\ verdict[s] = "none"
        /\ Dispatched(j)
        /\ barrier' = s
        /\ Goto("worker", "decide")
        /\ UNCHANGED <<verdict, held>>
     \/ /\ verdict[s] = "none"
        /\ ~Dispatched(j)
        /\ verdict' = [verdict EXCEPT ![s] = "canceled"]
        /\ Leave(j.peer)
        /\ UNCHANGED barrier
  /\ UNCHANGED <<runRest, slot, pending, arg, todo>>

\* The transport is the one the request was about.
Exact(j) ==
  /\ mapped = j.peer
  /\ ~removed[j.peer]
  /\ wireGen[j.peer] = j.wire
  /\ clientGen[j.peer] = j.gen

Judged(j, v) ==
  /\ verdict' = [verdict EXCEPT ![j.serial] = v]
  /\ barrier' = 0
  /\ Leave(j.peer)

RunDecide ==
  LET j == todo["worker"] IN
  /\ at["worker"] = "decide"
  /\ \/ ~Exact(j) /\ Judged(j, "stale")
     \/ Exact(j) /\ link[j.peer] = "connected" /\ Judged(j, "connected")
     \/ /\ Exact(j)
        /\ link[j.peer] # "connected"
        /\ Goto("worker", "rebuild")
        /\ UNCHANGED <<verdict, barrier, held>>
  /\ UNCHANGED <<runRest, slot, pending, arg, todo>>

\* Counted as rebuilt when the session moved on to other generations, which it
\* did even if the new transport could not be built.
RunJudge ==
  LET j == todo["worker"]
      p == j.peer IN
  /\ at["worker"] = "judge"
  /\ Judged(j, IF wireGen[p] > j.wire /\ clientGen[p] # j.gen
                      THEN "rebuilt" ELSE "failed")
  /\ UNCHANGED <<runRest, slot, pending, arg, todo>>

RunFinish ==
  /\ at["worker"] = "finish"
  /\ Take(todo["worker"])
  /\ WorkerIdle
  /\ UNCHANGED <<runRest, verdict, barrier, held>>

RunStep ==
  \/ RunLate \/ RunLock \/ RunAdmit \/ RunDecide \/ RunJudge \/ RunFinish

---------------------------------------------------------------------------
(* The client's callbacks.  A body that reports a state hands it to the    *)
(* executor, where it replaces the one that waits; one of another          *)
(* generation, or of a removed session, is dropped.  A candidate's body    *)
(* sends it (PeerNegotiation).                                             *)

eventRest == <<schedulerVars, queue, peerVars, threadVars, lifeVars, lives, barred>>

Report(p) ==
  /\ Input
  /\ \E e \in Events : RtcEvent(p, e)
  /\ UNCHANGED <<eventRest, posted>>

Gate(p) ==
  /\ \E k \in parked[p] : Admit(p, k)
  /\ UNCHANGED <<eventRest, posted, inputs>>

CallbackReturns(p) ==
  LET k == body[p] IN
  /\ Release(p)
  /\ posted' = [posted EXCEPT ![p] =
                  IF ~removed[p] /\ clientGen[p] = k.gen
                  THEN k ELSE @]
  /\ UNCHANGED <<eventRest, inputs>>

\* applyPeerMediaPlan: what the viewer asks for is added to its transport.
MediaPlan(p) ==
  /\ Input
  /\ at["worker"] = "idle"
  /\ held[p] = Free
  /\ ~removed[p] /\ ~initializing[p]
  /\ \E want \in Wishes : EnsureMediaTracks(p, want)
  /\ UNCHANGED <<eventRest, posted>>

---------------------------------------------------------------------------
(* The maintenance thread prunes a session that stayed unreachable.  It    *)
(* looks twice, and removes without a third look.                          *)

pruneRest == <<clientVars, schedulerVars, executorVars, peerVars, todo, next, lifeVars,
               boundVars, barred>>

Prune ==
  /\ at["maintenance"] = "idle"
  /\ live
  /\ mapped # Nobody
  /\ stale[mapped]
  /\ Goto("maintenance", "look")
  /\ arg' = [arg EXCEPT !["maintenance"] = mapped]
  /\ UNCHANGED pruneRest

PruneLook ==
  LET p == arg["maintenance"] IN
  /\ at["maintenance"] = "look"
  /\ Goto("maintenance", IF stale[p] THEN "remove" ELSE "idle")
  /\ arg' = [arg EXCEPT !["maintenance"] = IF stale[p] THEN p ELSE Nobody]
  /\ UNCHANGED pruneRest

---------------------------------------------------------------------------
(* The control thread: initialize, goLive, stopLive, shutdown.             *)

controlRest == <<clientVars, serial, verdict, barrier, inputs, executorVars, admitted, initializing,
                 retired, stale, pending, wireGen, clientGen, held, arg, barred>>
mapRest == <<mapped, removed, reaper>>

\* initialize starts the scheduler and its thread.
Initialize ==
  /\ at["control"] = "idle"
  /\ ~running
  /\ running' = TRUE /\ accepting' = TRUE
  /\ slot' = NoSlot
  /\ at' = [at EXCEPT !["loop"] = "wait"]
  /\ UNCHANGED <<controlRest, mapRest, stopping, todo, next, live, online, lives>>

\* goLive: the scheduler forgets what is left of the last stream.
GoLive ==
  /\ at["control"] = "idle"
  /\ running /\ ~stopping
  /\ ~live
  /\ lives < MaxLives
  /\ lives' = lives + 1
  /\ accepting' = FALSE
  /\ CancelAll("control", "reopen")
  /\ UNCHANGED <<controlRest, mapRest, running, stopping, live, online>>

Reopen ==
  /\ at["control"] = "reopen"
  /\ accepting' = (accepting \/ (running /\ ~stopping))
  /\ live' = TRUE /\ online' = TRUE
  /\ Goto("control", "idle")
  /\ UNCHANGED <<controlRest, mapRest, running, stopping, slot, todo, next, lives>>

\* stopLive ...
StopLive ==
  /\ \/ at["control"] = "idle" /\ live
     \/ at["control"] = "stopped"
  /\ live' = FALSE
  /\ accepting' = FALSE
  /\ CancelAll("control", "joins")
  /\ UNCHANGED <<controlRest, mapRest, running, stopping, online, lives>>

\* ... joins the maintenance thread, disconnects, ...
StopJoins ==
  /\ at["control"] = "joins"
  /\ at["maintenance"] = "idle"
  /\ online' = FALSE
  /\ Goto("control", "clear")
  /\ UNCHANGED <<controlRest, mapRest, running, stopping, accepting, slot, todo, next,
                 live, lives>>

\* ... and takes every session out of the map; clearPeerSessions then marks it
\* removed, shuts it down and cancels what is left.
Clear ==
  /\ at["control"] = "clear"
  /\ mapped' = Nobody
  /\ at' = [at EXCEPT !["control"] = "mark"]
  /\ todo' = [todo EXCEPT !["control"] = [NoJob EXCEPT !.peer = mapped]]
  /\ UNCHANGED <<controlRest, running, stopping, accepting, slot, removed, reaper, next, live,
                 online, lives>>

Mark ==
  LET p == todo["control"].peer IN
  /\ at["control"] = "mark"
  /\ IF p = Nobody
     THEN UNCHANGED <<removed, reaper>>
     ELSE /\ removed' = [removed EXCEPT ![p] = TRUE]
          /\ reaper' = [reaper EXCEPT ![p] = "prepare"]
  /\ todo' = [todo EXCEPT !["control"] = NoJob]
  /\ Goto("control", "clearJobs")
  /\ UNCHANGED <<controlRest, mapped, running, stopping, accepting, slot, next, live,
                 online, lives>>

ClearJobs ==
  /\ at["control"] = "clearJobs"
  /\ CancelAll("control", IF running THEN "idle" ELSE "await")
  /\ UNCHANGED <<controlRest, mapRest, running, stopping, accepting, live, online, lives>>

\* shutdown: the scheduler first, ...
Shutdown ==
  /\ at["control"] = "idle"
  /\ running
  /\ accepting' = FALSE /\ stopping' = TRUE
  /\ CancelAll("control", "joinLoop")
  /\ UNCHANGED <<controlRest, mapRest, running, live, online, lives>>

JoinLoop ==
  /\ at["control"] = "joinLoop"
  /\ at["loop"] = "off"
  /\ running' = FALSE /\ stopping' = FALSE
  /\ Goto("control", "stopped")
  /\ UNCHANGED <<controlRest, mapRest, accepting, slot, todo, next, live, online, lives>>

\* ... then the stream, then every session's shutdown is awaited and the
\* executor's worker joined.
Await ==
  /\ at["control"] = "await"
  /\ \A p \in Clients : reaper[p] \in {"none", "done"}
  /\ at["worker"] = "idle"
  /\ at' = [at EXCEPT !["worker"] = "off", !["control"] = "off"]
  /\ UNCHANGED <<controlRest, mapRest, running, stopping, accepting, slot, todo, next, live,
                 online, lives>>

---------------------------------------------------------------------------
CancelStep(t) == Settle(t) \/ Complete(t)

ControlStep ==
  \/ Reopen \/ StopJoins \/ Clear \/ Mark \/ ClearJobs \/ JoinLoop \/ Await
  \/ CancelStep("control")
  \/ at["control"] = "stopped" /\ StopLive

SignalingStep ==
  \/ OfferRequest \/ KnownRequest \/ UnknownRequest
  \/ InitLock \/ InitBuild \/ InitResume \/ InitInstall
  \/ OfferLock \/ OfferStep("signaling") \/ RemoveStep("signaling")
  \/ Duplicate \/ Capture \/ InsertNothing \/ Insert \/ Supersede
  \/ CancelStep("signaling")

MaintenanceStep ==
  PruneLook \/ RemoveStep("maintenance") \/ CancelStep("maintenance")

LoopStep == Dispatch \/ Enqueue \/ LoopEnds \/ CancelStep("loop")

WorkerStep ==
  TakeJob \/ (\E p \in Clients : TakeState(p)) \/ RunStep \/ OfferStep("worker")

\* What a user, the network, the clock or the executor's bounds may do.
Environment ==
  \/ Initialize \/ GoLive \/ StopLive \/ Shutdown \/ Request \/ Prune \/ Drop
  \/ \E p \in Clients : Report(p) \/ Gate(p) \/ MediaPlan(p)

OtherStep ==
  \/ ControlStep \/ SignalingStep \/ LoopStep \/ WorkerStep \/ CancelStep("executor")
  \/ \E p \in Clients : ReaperStep(p) \/ CallbackReturns(p)

\* After shutdown nothing is left to do.
Next == Environment \/ MaintenanceStep \/ OtherStep

Spec == Init /\ [][Next]_vars

\* Threads are scheduled and callbacks return.  With bounded inputs only the
\* maintenance thread, which looks every second, can go round for ever; that one
\* of the others takes a step while one can is enough to reach them all.  No
\* call, message, report, timeout of the prune or eviction is promised.
FairSpec == Spec /\ WF_vars(MaintenanceStep) /\ WF_vars(OtherStep)
---------------------------------------------------------------------------
(* Properties.                                                             *)

Rebuilding == {"rebuild", "reset", "adopt", "create", "offerFailed", "judge"}

\* When cancelDuplicateOfferRecheckJob has returned, to stopLive, shutdown,
\* goLive, a removal or a newer request, the worker neither starts nor continues
\* a rebuild for that job: what the callers do next, tearing down sessions, is
\* not overtaken by an offer.
NoRebuildAfterCancel ==
  at["worker"] \in Rebuilding => todo["worker"].serial \notin barred

\* Application code runs only for the transport the client publishes, and not
\* at all once the session's asynchronous shutdown is done: a callback of a
\* replaced transport, parked while resetPeerConnection ran, is dropped.
NoLateCallback ==
  \A p \in Clients :
    /\ body[p] # NoBody => body[p].gen = transport[p]
    /\ reaper[p] = "done" =>
         /\ transport[p] = NoTransport
         /\ suppressed[p]
         /\ body[p] = NoBody

\* A rebuilt transport has every section an earlier one of the session had.
SectionsSurviveRebuild ==
  [][\A p \in Clients :
       transport'[p] > transport[p] /\ transport[p] # NoTransport
         => ToSet(sections[p]) \subseteq ToSet(sections'[p])]_vars

\* A scheduled recheck leaves the map, and its place is free before another
\* takes it: it runs, or is cancelled, rejected, evicted or dropped, whatever the
\* stream does meanwhile.  No later request is coalesced into a job nobody will
\* execute.
RecheckEnds == slot # NoSlot ~> slot = NoSlot

\* initialize, goLive, stopLive and shutdown return: no cancellation barrier,
\* join or drained callback gate waits in a circle.
LifecycleReturns == at["control"] \notin {"idle", "off"} ~> at["control"] \in {"idle", "off"}

\* Neither a job nor a caller waits for ever.
RechecksAndCallsEnd == RecheckEnds /\ LifecycleReturns
=============================================================================
