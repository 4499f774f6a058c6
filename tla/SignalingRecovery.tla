-------------------------- MODULE SignalingRecovery --------------------------
(***************************************************************************)
(* Going live, losing the signaling connection, recovering it and stopping *)
(* (VersusApp).  Three threads meet here: the control thread that runs     *)
(* goLive and stopLive one after the other, as the user interface starts   *)
(* them; the recovery thread; and the WebSocket's callback thread, which   *)
(* starts the recovery thread and may itself stop the stream.              *)
(*                                                                         *)
(* Each has a program counter; a step is one access to the shared flags or *)
(* to the std::thread of the recovery, or one step of a socket call made   *)
(* under signalingOpsMutex_.                                               *)
(***************************************************************************)
EXTENDS SignalingSocket

CONSTANT MaxSessions    \* how often goLive is called

ASSUME MaxSessionsAssumption == MaxSessions \in Nat

VARIABLES
  live, stopRequested, reconnecting,
  opsMutex,          \* who holds signalingOpsMutex_
  control, recovery, handler,   \* the three program counters
  wasLive,           \* the local of stopLive
  overtaken,         \* who waits for a thread that the other has joined
  starts,            \* goLive calls so far
  missed,            \* history: losses of the connection nobody acted on
  cutShort           \* history: a stop threw, and nothing disconnected since

threadVars == <<live, stopRequested, reconnecting, opsMutex, control, recovery,
                handler, wasLive, overtaken, starts, missed>>
appVars == <<threadVars, cutShort>>
flags == <<live, stopRequested, reconnecting>>
vars == <<socketVars, appVars>>

Threads == {"control", "recovery", "handler"}
Joiners == {"control", "handler"}
Free == "free"

\* stopSignalingRecoveryThread: about to ask joinable(), found it joinable,
\* inside join(), about to empty the object.
JoinSteps == {"joinThread", "joinable", "joining", "joined"}

ControlSteps == {"idle", "reset", "connect", "connecting", "join", "publish",
                 "abandon", "link", "announce", "unpublish",
                 "disconnecting"} \cup JoinSteps
\* "none": the std::thread is not joinable; "done": it has returned; "reaped":
\* a join has returned it to the system but not yet emptied the object.
RecoverySteps == {"none", "loop", "attempt", "drop", "connecting", "join",
                  "publish", "abandon", "recovered", "pause", "quit", "done",
                  "reaped"}
HandlerSteps == {"idle", "open", "open2", "closed", "closed2", "dropped",
                 "error", "failing", "start", "spawn",
                 "alert", "alert2", "alert3", "disconnecting"} \cup JoinSteps

\* Every variable has its type.
TypeOK ==
  /\ SocketTypeOK
  /\ live \in BOOLEAN /\ stopRequested \in BOOLEAN /\ reconnecting \in BOOLEAN
  /\ wasLive \in BOOLEAN /\ cutShort \in BOOLEAN
  /\ opsMutex \in Threads \cup {Free}
  /\ control \in ControlSteps
  /\ recovery \in RecoverySteps
  /\ handler \in HandlerSteps
  /\ overtaken \subseteq Joiners
  /\ starts \in 0 .. MaxSessions
  /\ missed \subseteq {"starting", "recovering", "refused", "leftover"}

Init ==
  /\ SocketInit
  /\ live = FALSE /\ stopRequested = FALSE /\ reconnecting = FALSE
  /\ wasLive = FALSE /\ overtaken = {} /\ cutShort = FALSE
  /\ opsMutex = Free
  /\ control = "idle" /\ recovery = "none" /\ handler = "idle"
  /\ starts = 0 /\ missed = {}

---------------------------------------------------------------------------
(* What the threads share.                                                 *)

Lock(t) == opsMutex = Free /\ opsMutex' = t
Unlock == opsMutex' = Free /\ Goto("idle")

socketRest == <<active, retired, callback, wire, pending, connected,
                connectionFailed>>

Same == UNCHANGED <<socketRest, published>>

\* publish: the seed is sent and the flag is set.
Publish ==
  /\ CanSend
  /\ published' = TRUE
  /\ wire' = [wire EXCEPT ![active] = "seeded"]
  /\ UNCHANGED <<active, retired, callback, pending, connected,
                 connectionFailed>>

\* Mutant of NotWanted: the recovery does not look at the flags.
AlwaysWanted == FALSE

\* The recovery thread, and connect on its behalf, stop for either flag.
NotWanted == ~live \/ stopRequested

\* Only a recovering connect can be cancelled.
Cancelled == opsMutex = "recovery" /\ NotWanted

---------------------------------------------------------------------------
(* stopSignalingRecoveryThread.  stopLive and a callback may be in it at   *)
(* once, for the std::thread is under no lock.  Of two that wait for the   *)
(* same thread one gets it; the other's join throws std::system_error, as  *)
(* does a join of an object that is, or is about to be, empty.  What       *)
(* stopLive throws is caught above it, by a future of the user interface   *)
(* or by the executor that runs a remote hangup, and what a callback       *)
(* throws by libdatachannel: both end, and the program goes on.            *)

Running == recovery \notin {"none", "done", "reaped"}

\* Mutant of Joinable: a thread that has returned needs no join.
JoinableWhileRunning == Running

Joinable == recovery # "none"

\* t is let into join() and waits for the thread to return.
CanWait == recovery \notin {"none", "reaped"}

Place(t) == IF t = "control" THEN control ELSE handler

\* A step of t in stopSignalingRecoveryThread, and where it leads.  The branch
\* for a thread that would join itself is never taken.
Joins(t, next) ==
  \/ /\ Place(t) = "joinThread"
     /\ next = IF Joinable THEN "joinable" ELSE "returned"
     /\ UNCHANGED <<recovery, overtaken>>
  \/ /\ Place(t) = "joinable"
     /\ next = IF CanWait THEN "joining" ELSE "thrown"
     /\ UNCHANGED <<recovery, overtaken>>
  \/ /\ Place(t) = "joining" /\ t \notin overtaken /\ recovery = "done"
     /\ recovery' = "reaped"
     /\ overtaken' = {u \in Joiners \ {t} : Place(u) = "joining"}
     /\ next = "joined"
  \/ /\ Place(t) = "joining" /\ t \in overtaken
     /\ overtaken' = overtaken \ {t}
     /\ next = "thrown"
     /\ UNCHANGED recovery
  \/ /\ Place(t) = "joined"
     /\ recovery' = "none"
     /\ next = "returned"
     /\ UNCHANGED overtaken

---------------------------------------------------------------------------
(* goLive, on the control thread.                                          *)

\* A stream that is live already is left alone.
GoLive ==
  /\ control = "idle" /\ starts < MaxSessions
  /\ ~live
  /\ starts' = starts + 1
  /\ control' = "reset"
  /\ UNCHANGED <<socketVars, flags, opsMutex, recovery, handler, wasLive,
                 overtaken, missed, cutShort>>

\* Mutant of Reset: the flag of an earlier recovery survives into the session.
ResetButFlag ==
  /\ control = "reset"
  /\ stopRequested' = FALSE
  /\ missed' = {}
  /\ control' = "connect"
  /\ UNCHANGED <<socketVars, live, reconnecting, opsMutex, recovery, handler,
                 wasLive, overtaken, starts, cutShort>>

Reset ==
  /\ control = "reset"
  /\ stopRequested' = FALSE /\ reconnecting' = FALSE
  /\ missed' = {}
  /\ control' = "connect"
  /\ UNCHANGED <<socketVars, live, opsMutex, recovery, handler, wasLive,
                 overtaken, starts, cutShort>>

Connect ==
  /\ control = "connect"
  /\ Lock("control") /\ Goto("begin")
  /\ control' = "connecting"
  /\ UNCHANGED <<socketRest, published, flags, recovery, handler, wasLive,
                 overtaken, starts, missed, cutShort>>

\* Mutant of StopFlags: the old value of live_ is read after the store.
StopFlagsLate ==
  /\ wasLive' = FALSE /\ live' = FALSE
  /\ stopRequested' = TRUE /\ reconnecting' = FALSE
  /\ missed' = {}
  /\ control' = "joinThread"

\* stopLive sets every flag before it waits for anybody.
StopFlags ==
  /\ wasLive' = live /\ live' = FALSE
  /\ stopRequested' = TRUE /\ reconnecting' = FALSE
  /\ missed' = {}
  /\ control' = "joinThread"

\* An output that cannot be used, or ICE servers that cannot be resolved, end
\* goLive before it touches the socket.
StartRefused ==
  /\ control = "connect"
  /\ StopFlags
  /\ UNCHANGED <<socketVars, opsMutex, recovery, handler, overtaken, starts,
                 cutShort>>

Connecting ==
  /\ control = "connecting" /\ opsMutex = "control"
  /\ Unlock
  /\ \/ /\ At("succeeded")
        /\ \E room \in BOOLEAN : control' = IF room THEN "join" ELSE "publish"
        /\ UNCHANGED <<flags, wasLive, missed>>
     \/ At("failed") /\ StopFlags
  /\ UNCHANGED <<socketRest, published, recovery, handler, overtaken, starts,
                 cutShort>>

\* A room is joined, and a stream published, each under a lock of its own;
\* when the message cannot be sent the socket is dropped under that lock.
JoinRoom ==
  /\ control = "join" /\ opsMutex = Free
  /\ \/ /\ CanSend
        /\ control' = "publish"
        /\ UNCHANGED <<call, opsMutex>>
     \/ /\ Lock("control") /\ DetachThen("failed")
        /\ control' = "abandon"
  /\ UNCHANGED <<socketRest, published, flags, recovery, handler, wasLive,
                 overtaken, starts, missed, cutShort>>

PublishStream ==
  /\ control = "publish" /\ opsMutex = Free
  /\ \/ Publish /\ control' = "link" /\ UNCHANGED <<call, opsMutex>>
     \/ Same /\ Lock("control") /\ DetachThen("failed") /\ control' = "abandon"
  /\ UNCHANGED <<flags, recovery, handler, wasLive, overtaken, starts, missed,
                 cutShort>>

Abandon ==
  /\ control = "abandon" /\ opsMutex = "control" /\ At("failed")
  /\ Unlock
  /\ StopFlags
  /\ UNCHANGED <<socketRest, published, recovery, handler, overtaken, starts,
                 cutShort>>

\* getShareLink, and then at last the flag.
ShareLink ==
  /\ control = "link" /\ opsMutex = Free
  /\ control' = "announce"
  /\ UNCHANGED <<socketVars, flags, opsMutex, recovery, handler, wasLive,
                 overtaken, starts, missed, cutShort>>

Announce ==
  /\ control = "announce"
  /\ live' = TRUE
  /\ control' = "idle"
  /\ UNCHANGED <<socketVars, stopRequested, reconnecting, opsMutex, recovery,
                 handler, wasLive, overtaken, starts, missed, cutShort>>

---------------------------------------------------------------------------
(* stopLive, on the control thread.                                        *)

StopLive ==
  /\ control = "idle"
  /\ StopFlags
  /\ UNCHANGED <<socketVars, opsMutex, recovery, handler, overtaken, starts,
                 cutShort>>

\* A stop of a live stream goes on to unpublish; an exception ends it there.
StopJoins ==
  /\ control \in JoinSteps
  /\ \E next \in JoinSteps \cup {"returned", "thrown"} :
       /\ Joins("control", next)
       /\ control' = IF next \in JoinSteps THEN next
                     ELSE IF next = "returned" /\ wasLive THEN "unpublish"
                     ELSE "idle"
       /\ wasLive' = (wasLive /\ next \in JoinSteps)
       /\ cutShort' = (cutShort \/ (wasLive /\ next = "thrown"))
  /\ UNCHANGED <<socketVars, flags, opsMutex, handler, starts, missed>>

\* unpublish and disconnect.
Unpublish ==
  /\ control = "unpublish"
  /\ Lock("control") /\ DetachThen("succeeded")
  /\ published' = FALSE
  /\ control' = "disconnecting"
  /\ UNCHANGED <<socketRest, flags, recovery, handler, wasLive, overtaken,
                 starts, missed, cutShort>>

StopEnds ==
  /\ control = "disconnecting" /\ opsMutex = "control" /\ At("succeeded")
  /\ Unlock
  /\ control' = "idle"
  /\ UNCHANGED <<socketRest, published, flags, recovery, handler, wasLive,
                 overtaken, starts, missed, cutShort>>

ControlStep ==
  \/ Reset \/ StartRefused \/ Connect \/ Connecting \/ JoinRoom
  \/ PublishStream \/ Abandon \/ ShareLink \/ Announce
  \/ StopJoins \/ Unpublish \/ StopEnds

---------------------------------------------------------------------------
(* The recovery thread.                                                    *)

\* goLive has published the stream but not yet said that it is live.
Announcing == control \in {"link", "announce"}

\* An attempt for the session before took the socket of the new one, failed
\* as not wanted, and the thread goes before goLive says live.
LeavesNewStream ==
  recovery = "pause" /\ NotWanted /\ Announcing /\ active = NoSocket

\* Both at the head of the loop and in the pause after a failed attempt.
RecoveryLoop ==
  /\ recovery \in {"loop", "pause"}
  /\ recovery' = IF NotWanted THEN "quit"
                 ELSE IF recovery = "pause" THEN "loop" ELSE "attempt"
  /\ missed' = missed \cup {m \in {"leftover"} : LeavesNewStream}
  /\ UNCHANGED <<socketVars, flags, opsMutex, control, handler, wasLive,
                 overtaken, starts, cutShort>>

\* One attempt holds the lock throughout, beginning with a disconnect.
Attempt ==
  /\ recovery = "attempt"
  /\ Lock("recovery") /\ DetachThen("succeeded")
  /\ recovery' = "drop"
  /\ UNCHANGED <<socketRest, published, flags, control, handler, wasLive,
                 overtaken, starts, missed, cutShort>>

AttemptConnect ==
  /\ recovery = "drop" /\ opsMutex = "recovery" /\ At("succeeded")
  /\ Goto(IF Cancelled THEN "failed" ELSE "begin")
  /\ recovery' = "connecting"
  /\ UNCHANGED <<socketRest, published, flags, opsMutex, control, handler,
                 wasLive, overtaken, starts, missed, cutShort>>

AttemptConnected ==
  /\ recovery = "connecting" /\ At("succeeded")
  /\ \E room \in BOOLEAN : recovery' = IF room THEN "join" ELSE "publish"
  /\ UNCHANGED <<socketVars, flags, opsMutex, control, handler, wasLive,
                 overtaken, starts, missed, cutShort>>

AttemptJoin ==
  /\ recovery = "join" /\ CanSend
  /\ recovery' = "publish"
  /\ UNCHANGED <<socketVars, flags, opsMutex, control, handler, wasLive,
                 overtaken, starts, missed, cutShort>>

AttemptPublish ==
  /\ recovery = "publish"
  /\ Publish
  /\ Unlock
  /\ recovery' = "recovered"
  /\ UNCHANGED <<flags, control, handler, wasLive, overtaken, starts, missed,
                 cutShort>>

\* Not connected, or a message was not sent: disconnect before unlocking.
AttemptFails ==
  /\ \/ recovery = "connecting" /\ At("failed")
     \/ recovery \in {"join", "publish"}
  /\ DetachThen("failed")
  /\ recovery' = "abandon"
  /\ UNCHANGED <<socketRest, published, flags, opsMutex, control, handler,
                 wasLive, overtaken, starts, missed, cutShort>>

\* Mutant of AttemptOver: one failed attempt is the last.
AttemptIsLast ==
  /\ recovery = "abandon" /\ At("failed")
  /\ Unlock
  /\ recovery' = "quit"
  /\ UNCHANGED <<socketRest, published, flags, control, handler, wasLive,
                 overtaken, starts, missed, cutShort>>

\* The lock is given up, and the next attempt waits its turn.
AttemptOver ==
  /\ recovery = "abandon" /\ At("failed")
  /\ Unlock
  /\ recovery' = "pause"
  /\ UNCHANGED <<socketRest, published, flags, control, handler, wasLive,
                 overtaken, starts, missed, cutShort>>

\* Recovered or not wanted, the thread clears the flag as its last act.
RecoveryEnds ==
  /\ recovery \in {"recovered", "quit"}
  /\ reconnecting' = FALSE
  /\ recovery' = "done"
  /\ UNCHANGED <<socketVars, live, stopRequested, opsMutex, control, handler,
                 wasLive, overtaken, starts, missed, cutShort>>

RecoveryStep ==
  \/ RecoveryLoop \/ Attempt \/ AttemptConnect \/ AttemptConnected
  \/ AttemptJoin \/ AttemptPublish \/ AttemptFails \/ AttemptOver
  \/ RecoveryEnds

---------------------------------------------------------------------------
(* The callbacks.                                                          *)

\* The callback returns and its lease is released.
Return == callback' = NoCallback /\ handler' = "idle"
Then(step) == handler' = step /\ UNCHANGED callback

handlerRest == <<active, retired, wire, pending, call, opsMutex, control,
                 wasLive, starts, cutShort>>

Deliver ==
  /\ handler = "idle"
  /\ \E s \in Sockets : Admit(s) /\ handler' = Head(pending[s])
  /\ UNCHANGED <<connected, connectionFailed, published, call, flags, opsMutex,
                 control, recovery, wasLive, overtaken, starts, missed,
                 cutShort>>

OnOpen ==
  /\ \/ handler = "open" /\ connected' = TRUE /\ Then("open2")
        /\ UNCHANGED connectionFailed
     \/ handler = "open2" /\ connectionFailed' = FALSE /\ Return
        /\ UNCHANGED connected
  /\ UNCHANGED <<handlerRest, published, flags, recovery, overtaken, missed>>

OnClosed ==
  /\ \/ handler = "closed" /\ connected' = FALSE /\ Then("closed2")
        /\ UNCHANGED connectionFailed
     \/ handler = "closed2" /\ connectionFailed' = TRUE /\ Then("dropped")
        /\ UNCHANGED connected
  /\ UNCHANGED <<handlerRest, published, flags, recovery, overtaken, missed>>

OnError ==
  /\ handler = "error"
  /\ connectionFailed' = TRUE
  /\ Then("failing")
  /\ UNCHANGED <<handlerRest, connected, published, flags, recovery, overtaken,
                 missed>>

\* The handlers of VersusApp act only for a stream that is live and wanted;
\* an error is no loss while the socket counts as connected.
IgnoresLoss == NotWanted \/ (handler = "failing" /\ connected)

OnLoss ==
  /\ handler \in {"dropped", "failing"}
  /\ IF IgnoresLoss THEN Return ELSE Then("start")
  /\ missed' = missed \cup {m \in {"starting"} : ~live /\ Announcing}
  /\ UNCHANGED <<handlerRest, connected, connectionFailed, published, flags,
                 recovery, overtaken>>

\* The recovery thread has done its work and not yet cleared the flag.
Ending == recovery \in {"recovered", "quit"}

\* startSignalingRecovery: the flag lets one caller through, which joins
\* the previous thread and starts the next one.
StartRecovery ==
  /\ handler = "start"
  /\ reconnecting' = TRUE
  /\ IF reconnecting THEN Return ELSE Then("joinThread")
  /\ missed' = missed \cup {m \in {"recovering"} : reconnecting /\ Ending}
  /\ UNCHANGED <<handlerRest, connected, connectionFailed, published, live,
                 stopRequested, recovery, overtaken>>

\* Mutant of HandlerJoins: a join that throws is taken for one that is done.
SpawnsAnyway ==
  /\ handler \in JoinSteps
  /\ \/ \E next \in JoinSteps : Joins("handler", next) /\ Then(next)
     \/ Joins("handler", "returned") /\ Then("spawn")
     \/ Joins("handler", "thrown") /\ Then("spawn")
  /\ UNCHANGED <<handlerRest, connected, connectionFailed, published, flags,
                 missed>>

\* An exception ends the callback; reconnecting_ stays as it is.
HandlerJoins ==
  /\ handler \in JoinSteps
  /\ \/ \E next \in JoinSteps : Joins("handler", next) /\ Then(next)
     \/ Joins("handler", "returned") /\ Then("spawn")
     \/ Joins("handler", "thrown") /\ Return
  /\ UNCHANGED <<handlerRest, connected, connectionFailed, published, flags,
                 missed>>

Spawn ==
  /\ handler = "spawn"
  /\ recovery' = "loop"
  /\ Return
  /\ UNCHANGED <<handlerRest, connected, connectionFailed, published, flags,
                 overtaken, missed>>

\* A goLive is under way, which an alert does not stop.
Starting ==
  Announcing \/ control \in {"connect", "connecting", "join", "publish"}

\* A refused stream id ends the stream from inside the callback.
OnAlert ==
  /\ \/ /\ handler = "alert"
        /\ stopRequested' = TRUE /\ reconnecting' = FALSE
        /\ Then("alert2")
        /\ UNCHANGED live
     \/ /\ handler = "alert2"
        /\ live' = FALSE
        /\ Then("alert3")
        /\ UNCHANGED <<stopRequested, reconnecting>>
  /\ missed' = missed \cup {m \in {"refused"} : Starting}
  /\ UNCHANGED <<handlerRest, connected, connectionFailed, published, recovery,
                 overtaken>>

AlertDisconnects ==
  /\ \/ /\ handler = "alert3"
        /\ Lock("handler") /\ DetachThen("succeeded")
        /\ Then("disconnecting")
     \/ /\ handler = "disconnecting" /\ At("succeeded") /\ opsMutex = "handler"
        /\ Unlock
        /\ Return
  /\ UNCHANGED <<active, retired, wire, pending, connected, connectionFailed,
                 published, flags, control, recovery, wasLive, overtaken,
                 starts, missed, cutShort>>

HandlerStep ==
  \/ OnOpen \/ OnClosed \/ OnError \/ OnLoss \/ StartRecovery \/ HandlerJoins
  \/ Spawn \/ OnAlert \/ AlertDisconnects

---------------------------------------------------------------------------

\* A disconnect makes up for a stop that was cut short.
Calling ==
  /\ CallStep(Cancelled)
  /\ cutShort' = (cutShort /\ ~At("detach"))
  /\ UNCHANGED threadVars
GivingUp == GiveUp /\ UNCHANGED appVars
Refusing == (\E s \in Sockets : Refuse(s)) /\ UNCHANGED appVars
Network == NetworkStep /\ UNCHANGED appVars

Next ==
  \/ GoLive \/ StopLive \/ ControlStep
  \/ RecoveryStep \/ Deliver \/ HandlerStep
  \/ Calling \/ GivingUp \/ Refusing \/ Network

\* Every thread that can run runs, and each of its steps moves its program
\* counter; callbacks due are delivered; the clock of connect runs out in the
\* end.  Nothing is assumed of the network, and nobody has to press a button.
Fairness ==
  /\ WF_control(ControlStep) /\ WF_recovery(RecoveryStep)
  /\ WF_handler(Deliver \/ HandlerStep)
  /\ WF_pending(Refusing) /\ WF_call(Calling)
  /\ SF_call(GivingUp)

Spec == Init /\ [][Next]_vars
FairSpec == Spec /\ Fairness

---------------------------------------------------------------------------
(* What the lifecycle promises.                                            *)

\* An admitted callback runs on a socket that still exists: the active one,
\* or a retired one kept for its sake (acquire, disconnect and connect).
LeaseHoldsSocket == callback # NoCallback => callback \in retired \cup {active}

\* A stream counts as published only over a socket; only disconnect, between
\* giving the socket up and clearing the flag, can show otherwise.
PublishedHasSocket == published /\ active = NoSocket => At("clear")

\* The thread object is never overwritten while it is joinable, which would
\* end the program: whoever comes as far as starting a thread found the object
\* empty or has emptied it, although stopLive may be joining it at the same
\* time, and although a join that fails leaves it as it was.
ThreadIsJoinedBeforeSpawn == handler = "spawn" => recovery = "none"

\* In a live stream the flag that keeps others from starting a recovery is
\* backed by a thread that runs or by a callback that is about to start one.
\* A join that throws leaves the flag set with neither, and goLive, stopLive,
\* alerts and old threads clear it for each other.
FlagHasItsThread ==
  live /\ reconnecting => Running \/ handler \in JoinSteps \cup {"spawn"}

\* Callbacks, publications and threads each keep what they stand on.
OwnersKeepWhatTheyUse ==
  /\ LeaseHoldsSocket /\ PublishedHasSocket
  /\ ThreadIsJoinedBeforeSpawn /\ FlagHasItsThread

\* Nothing is under way, and nothing is about to be called back.
Quiet ==
  /\ control = "idle" /\ handler = "idle" /\ opsMutex = Free
  /\ recovery \in {"none", "done"}
  /\ active # NoSocket => pending[active] = <<>>

\* Viewers can find the stream: it is published on a connection that is up.
Served ==
  /\ active # NoSocket /\ wire[active] \in {"open", "seeded"}
  /\ connected /\ published

\* A live stream is reachable or being recovered, whatever failed in which
\* order, except after one of the four losses `missed` records: a drop before
\* goLive said live; a drop heard after the recovery thread had done its work
\* and before it cleared reconnecting_; a refusal of the stream id while
\* goLive was under way; a recovery of an earlier session that disconnects
\* the new stream and quits.
LiveIsServedUnlessMissed == Quiet /\ live /\ missed = {} => Served

\* When everything has come to rest without a live stream, neither stopLive
\* nor an alert nor a recovery given up has left a socket or a publication
\* behind.  Where stopLive threw in its join, and nobody disconnected since, a
\* socket may be left, but one whose connection is down.
StoppedIsOffline ==
  Quiet /\ ~live => \/ active = NoSocket /\ ~published
                    \/ cutShort /\ wire[active] = "closed"

\* Whatever came before, rest means served or offline.
RestIsConsistent == LiveIsServedUnlessMissed /\ StoppedIsOffline

\* goLive and stopLive return, or throw: neither the lock, nor the join of the
\* recovery thread, nor the wait for a connection holds them for ever.
ControlReturns == <>(control = "idle")

\* A callback caught by a stop returns, though it may itself be joining the
\* recovery thread or waiting for the lock.
CallbackReturnsOnceStopped ==
  callback # NoCallback /\ stopRequested => <>(callback = NoCallback)

\* No caller and no callback is held for ever.
CallsReturn == [](ControlReturns /\ CallbackReturnsOnceStopped)

\* What keeps a recovery from succeeding: a socket that closes, a connection
\* given up for its slowness, a message the transport refuses.
Disturbance ==
  \/ \E s \in Sockets : SocketCloses(s)
  \/ GiveUp /\ ~connectionFailed /\ ~Cancelled
  \/ AttemptFails /\ recovery \in {"join", "publish"} /\ CanSend

\* A connection attempt left alone succeeds.
ServerAnswers == (\E s \in Sockets : SocketOpens(s)) /\ Network

\* Once the network is left in peace, a recovery under way in the first
\* session ends with the stream reachable again, unless the stream is stopped
\* first or the loss is one of those nobody acts on.
Recovers ==
  WF_wire(ServerAnswers) /\ <>[][~Disturbance]_<<wire, call>> =>
    [](reconnecting /\ live /\ starts = 1 =>
         <>(Served \/ ~live \/ missed # {}))

\* "WebSocket disconnect starts signaling recovery if live and not stopping"
\* (docs/native-streaming-flow-map.md): a drop that startSignalingRecovery
\* hears while the stream is live is recovered.  The code breaks this.
LossIsRecovered ==
  Quiet /\ live /\ ~stopRequested /\ missed \subseteq {"recovering"} => Served

===========================================================================
