---------------------- MODULE SignalingRecoveryProofs ----------------------
(***************************************************************************)
(* Proofs about the signaling lifecycle, for every set of sockets and any  *)
(* number of sessions: the lock discipline (IInv) and what it gives those  *)
(* who own a socket or the thread, and on top of it RestInv, which says at *)
(* each place of each thread who is still going to act, so that a state at *)
(* rest is a consistent one, and that a join that throws does no harm to a *)
(* session that lives.                                                     *)
(***************************************************************************)
EXTENDS SignalingRecovery, TLAPS

\* The lock is held exactly by the thread that is inside a socket call; and a
\* thread that was joined is one joiner's to forget.
LockInv ==
  /\ recovery = "reaped" <=> control = "joined" \/ handler = "joined"
  /\ ~(control = "joined" /\ handler = "joined")
  /\ opsMutex = Free <=> At("idle")
  /\ opsMutex = "control" <=> control \in {"connecting", "abandon", "disconnecting"}
  /\ opsMutex = "recovery" <=>
       recovery \in {"drop", "connecting", "join", "publish", "abandon"}
  /\ opsMutex = "handler" <=> handler = "disconnecting"
  /\ recovery \in {"join", "publish"} => At("succeeded")
  /\ At("detach") \/ At("clear") =>
       call.next \in {"activate", "succeeded", "failed"}

\* The inductive invariant.
IInv ==
  /\ TypeOK /\ LockInv
  /\ LeaseHoldsSocket /\ PublishedHasSocket /\ ThreadIsJoinedBeforeSpawn

---------------------------------------------------------------------------

\* What a destroyed socket may still deliver is part of what was pending.
LEMMA UnderWayType ==
  ASSUME NEW s \in Sockets, pending[s] \in Seq(Kinds)
  PROVE  UnderWay(s) \in Seq(Kinds)
BY DEF UnderWay

\* The initial state satisfies the invariant.
LEMMA InitEstablishes == Init => IInv
<1> SUFFICES ASSUME Init PROVE IInv
  OBVIOUS
<1>1. SocketTypeOK
  <2>1. pending \in [Sockets -> Seq(Kinds)]
    BY DEF Init, SocketInit
  <2>2. call \in [step : CallSteps, next : CallSteps]
    BY DEF Init, SocketInit, CallSteps
  <2>3. QED
    BY <2>1, <2>2 DEF Init, SocketInit, SocketTypeOK, Wires
<1>2. 0 \in 0 .. MaxSessions
  BY MaxSessionsAssumption
<1>3. TypeOK
  BY <1>1, <1>2 DEF Init, TypeOK, Threads, Free, ControlSteps, RecoverySteps,
     HandlerSteps, JoinSteps, Joiners
<1>4. LockInv
  BY DEF Init, SocketInit, LockInv, At, Free
<1>5. LeaseHoldsSocket /\ PublishedHasSocket /\ ThreadIsJoinedBeforeSpawn
  BY DEF Init, SocketInit, LeaseHoldsSocket, PublishedHasSocket,
     ThreadIsJoinedBeforeSpawn
<1>6. QED
  BY <1>3, <1>4, <1>5 DEF IInv

\* The join of t throws.
Doomed(t) == t \in overtaken \/ (Place(t) = "joinable" /\ ~CanWait)

\* What a step of stopLive in stopSignalingRecoveryThread does: it leaves the
\* thread alone, or has joined it, or forgets the one it joined.
LEMMA StopJoinStep ==
  ASSUME IInv, StopJoins
  PROVE  /\ control \in JoinSteps /\ control' \in JoinSteps \cup {"unpublish", "idle"}
         /\ \/ recovery' = recovery /\ control # "joined" /\ control' # "joined"
            \/ recovery = "done" /\ recovery' = "reaped" /\ control' = "joined"
            \/ recovery = "reaped" /\ recovery' = "none" /\ control = "joined"
               /\ control' \notin JoinSteps
         /\ overtaken' \subseteq Joiners
         /\ wasLive' = (wasLive /\ control' \in JoinSteps) /\ wasLive' \in BOOLEAN
         /\ cutShort' \in BOOLEAN /\ (cutShort => cutShort')
         /\ wasLive /\ control' = "idle" => cutShort' /\ Doomed("control")
         /\ UNCHANGED <<socketVars, flags, opsMutex, handler, starts, missed>>
<1> USE DEF IInv, TypeOK
<1>1. PICK next \in JoinSteps \cup {"returned", "thrown"} :
        /\ Joins("control", next)
        /\ control' = IF next \in JoinSteps THEN next
                      ELSE IF next = "returned" /\ wasLive THEN "unpublish"
                      ELSE "idle"
        /\ wasLive' = (wasLive /\ next \in JoinSteps)
        /\ cutShort' = (cutShort \/ (wasLive /\ next = "thrown"))
  BY DEF StopJoins
<1>2. /\ control \in JoinSteps
      /\ UNCHANGED <<socketVars, flags, opsMutex, handler, starts, missed>>
  BY DEF StopJoins
<1>3. /\ \/ recovery' = recovery /\ control # "joined" /\ next # "joined"
         \/ recovery = "done" /\ recovery' = "reaped" /\ next = "joined"
         \/ control = "joined" /\ recovery' = "none" /\ next = "returned"
      /\ overtaken' \subseteq Joiners
  BY <1>1 DEF Joins, Place, Joiners
<1>4. control' \in JoinSteps <=> next \in JoinSteps
  BY <1>1 DEF JoinSteps
<1>5. control' = "joined" <=> next = "joined"
  BY <1>1 DEF JoinSteps
<1>6. control' \in JoinSteps \cup {"unpublish", "idle"}
  BY <1>1
<1>7. wasLive' = (wasLive /\ control' \in JoinSteps) /\ wasLive' \in BOOLEAN
  BY <1>1, <1>4
<1>8. /\ cutShort' \in BOOLEAN /\ (cutShort => cutShort')
      /\ wasLive /\ control' = "idle" => cutShort' /\ next = "thrown"
  BY <1>1 DEF JoinSteps
<1>9. control = "joined" => recovery = "reaped"
  BY DEF LockInv
<1>10. next = "returned" => control' \notin JoinSteps
  BY <1>1 DEF JoinSteps
<1>11. next = "thrown" => Doomed("control")
  BY <1>1 DEF Joins, Place, Doomed, JoinSteps
<1> QED BY <1>2, <1>3, <1>5, <1>6, <1>7, <1>8, <1>9, <1>10, <1>11

\* The same of a callback: it goes on to start a thread where it found none or
\* has emptied the object, and returns where its join threw.
LEMMA HandlerJoinStep ==
  ASSUME IInv, HandlerJoins
  PROVE  /\ handler \in JoinSteps
         /\ \/ handler' \in JoinSteps \cup {"spawn"} /\ UNCHANGED callback
            \/ handler' = "idle" /\ callback' = NoCallback /\ Doomed("handler")
         /\ handler' = "spawn" => recovery' = "none"
         /\ \/ recovery' = recovery /\ handler # "joined" /\ handler' # "joined"
            \/ recovery = "done" /\ recovery' = "reaped" /\ handler' = "joined"
            \/ recovery = "reaped" /\ recovery' = "none" /\ handler = "joined"
               /\ handler' = "spawn"
         /\ overtaken' \subseteq Joiners
         /\ UNCHANGED <<handlerRest, connected, connectionFailed, published,
                        flags, missed>>
<1> USE DEF IInv, TypeOK
<1>1. PICK next \in JoinSteps \cup {"returned", "thrown"} :
        /\ Joins("handler", next)
        /\ \/ next \in JoinSteps /\ handler' = next /\ UNCHANGED callback
           \/ next = "returned" /\ handler' = "spawn" /\ UNCHANGED callback
           \/ next = "thrown" /\ handler' = "idle" /\ callback' = NoCallback
  BY DEF HandlerJoins, Then, Return
<1>2. /\ handler \in JoinSteps
      /\ UNCHANGED <<handlerRest, connected, connectionFailed, published, flags,
                     missed>>
  BY DEF HandlerJoins
<1>3. /\ \/ recovery' = recovery /\ handler # "joined" /\ next # "joined"
         \/ recovery = "done" /\ recovery' = "reaped" /\ next = "joined"
         \/ handler = "joined" /\ recovery' = "none" /\ next = "returned"
      /\ overtaken' \subseteq Joiners
      /\ next = "returned" => recovery' = "none"
  BY <1>1 DEF Joins, Place, Joiners, Joinable
<1>4. /\ handler' = "joined" <=> next = "joined"
      /\ handler' = "spawn" <=> next = "returned"
  BY <1>1 DEF JoinSteps
<1>5. handler = "joined" => recovery = "reaped"
  BY DEF LockInv
<1>6. next = "thrown" => Doomed("handler")
  BY <1>1 DEF Joins, Place, Doomed, JoinSteps
<1> QED BY <1>1, <1>2, <1>3, <1>4, <1>5, <1>6

\* goLive and stopLive keep the invariant.
LEMMA ControlKeeps ==
  ASSUME IInv, GoLive \/ StopLive \/ ControlStep
  PROVE  IInv'
<1> USE DEF IInv, At, CallbackAdmitted
<1>1. CASE GoLive
  <2>1. SocketTypeOK'
    BY <1>1 DEF GoLive, TypeOK, SocketTypeOK, CallSteps, Wires, socketVars,
       flags
  <2>2. TypeOK'
    BY <1>1, <2>1, MaxSessionsAssumption DEF GoLive, TypeOK, Threads,
       ControlSteps, JoinSteps, socketVars, flags
  <2>3. LockInv'
    BY <1>1 DEF GoLive, LockInv, TypeOK, SocketTypeOK, socketVars, flags
  <2>4. (LeaseHoldsSocket /\ PublishedHasSocket /\ ThreadIsJoinedBeforeSpawn)'
    BY <1>1 DEF GoLive, LeaseHoldsSocket, PublishedHasSocket,
       ThreadIsJoinedBeforeSpawn, LockInv, TypeOK, SocketTypeOK, socketVars,
       flags
  <2>5. QED
    BY <2>2, <2>3, <2>4
<1>2. CASE StopLive
  <2>1. SocketTypeOK'
    BY <1>2 DEF StopLive, TypeOK, SocketTypeOK, CallSteps, Wires, StopFlags,
       socketVars
  <2>2. TypeOK'
    BY <1>2, <2>1 DEF StopLive, TypeOK, Threads, ControlSteps, JoinSteps,
       StopFlags, socketVars
  <2>3. LockInv'
    BY <1>2 DEF StopLive, LockInv, TypeOK, SocketTypeOK, StopFlags, socketVars
  <2>4. (LeaseHoldsSocket /\ PublishedHasSocket /\ ThreadIsJoinedBeforeSpawn)'
    BY <1>2 DEF StopLive, LeaseHoldsSocket, PublishedHasSocket,
       ThreadIsJoinedBeforeSpawn, LockInv, TypeOK, SocketTypeOK, StopFlags,
       socketVars
  <2>5. QED
    BY <2>2, <2>3, <2>4
<1>3. CASE Reset
  <2>1. SocketTypeOK'
    BY <1>3 DEF Reset, TypeOK, SocketTypeOK, CallSteps, Wires, socketVars
  <2>2. TypeOK'
    BY <1>3, <2>1 DEF Reset, TypeOK, Threads, ControlSteps, JoinSteps,
       socketVars
  <2>3. LockInv'
    BY <1>3 DEF Reset, LockInv, TypeOK, SocketTypeOK, socketVars
  <2>4. (LeaseHoldsSocket /\ PublishedHasSocket /\ ThreadIsJoinedBeforeSpawn)'
    BY <1>3 DEF Reset, LeaseHoldsSocket, PublishedHasSocket,
       ThreadIsJoinedBeforeSpawn, LockInv, TypeOK, SocketTypeOK, socketVars
  <2>5. QED
    BY <2>2, <2>3, <2>4
<1>4. CASE Connect
  <2>1. SocketTypeOK'
    BY <1>4 DEF Connect, TypeOK, SocketTypeOK, CallSteps, Wires, Lock, Free,
       Goto, socketRest, flags
  <2>2. TypeOK'
    BY <1>4, <2>1 DEF Connect, TypeOK, Threads, ControlSteps, JoinSteps, Lock,
       Free, Goto, socketRest, flags
  <2>3. LockInv'
    BY <1>4 DEF Connect, LockInv, TypeOK, SocketTypeOK, Lock, Free, Goto,
       socketRest, flags
  <2>4. (LeaseHoldsSocket /\ PublishedHasSocket /\ ThreadIsJoinedBeforeSpawn)'
    BY <1>4 DEF Connect, LeaseHoldsSocket, PublishedHasSocket,
       ThreadIsJoinedBeforeSpawn, LockInv, TypeOK, SocketTypeOK, Lock, Free,
       Goto, socketRest, flags
  <2>5. QED
    BY <2>2, <2>3, <2>4
<1>5. CASE Connecting
  <2>1. SocketTypeOK'
    BY <1>5 DEF Connecting, TypeOK, SocketTypeOK, CallSteps, Wires, Unlock,
       Goto, Free, StopFlags, socketRest, flags
  <2>2. TypeOK'
    BY <1>5, <2>1 DEF Connecting, TypeOK, Threads, ControlSteps, JoinSteps,
       Unlock, Goto, Free, StopFlags, socketRest, flags
  <2>3. LockInv'
    BY <1>5 DEF Connecting, LockInv, TypeOK, SocketTypeOK, Unlock, Goto, Free,
       StopFlags, socketRest, flags
  <2>4. (LeaseHoldsSocket /\ PublishedHasSocket /\ ThreadIsJoinedBeforeSpawn)'
    BY <1>5 DEF Connecting, LeaseHoldsSocket, PublishedHasSocket,
       ThreadIsJoinedBeforeSpawn, LockInv, TypeOK, SocketTypeOK, Unlock, Goto,
       Free, StopFlags, socketRest, flags
  <2>5. QED
    BY <2>2, <2>3, <2>4
<1>6. CASE JoinRoom
  <2>1. SocketTypeOK'
    BY <1>6 DEF JoinRoom, TypeOK, SocketTypeOK, CallSteps, Wires, Lock, Free,
       DetachThen, CanSend, socketRest, flags
  <2>2. TypeOK'
    BY <1>6, <2>1 DEF JoinRoom, TypeOK, Threads, ControlSteps, JoinSteps, Lock,
       Free, DetachThen, CanSend, socketRest, flags
  <2>3. LockInv'
    BY <1>6 DEF JoinRoom, LockInv, TypeOK, SocketTypeOK, Lock, Free,
       DetachThen, CanSend, socketRest, flags
  <2>4. (LeaseHoldsSocket /\ PublishedHasSocket /\ ThreadIsJoinedBeforeSpawn)'
    BY <1>6 DEF JoinRoom, LeaseHoldsSocket, PublishedHasSocket,
       ThreadIsJoinedBeforeSpawn, LockInv, TypeOK, SocketTypeOK, Lock, Free,
       DetachThen, CanSend, socketRest, flags
  <2>5. QED
    BY <2>2, <2>3, <2>4
<1>7. CASE PublishStream
  <2>1. SocketTypeOK'
    <3>1. CASE Publish /\ UNCHANGED call
      BY <3>1 DEF TypeOK, SocketTypeOK, Publish, CanSend, Wires
    <3>2. CASE Same /\ DetachThen("failed")
      BY <3>2 DEF TypeOK, SocketTypeOK, Same, socketRest, DetachThen, CallSteps
    <3>3. QED
      BY <1>7, <3>1, <3>2 DEF PublishStream
  <2>2. TypeOK'
    BY <1>7, <2>1 DEF PublishStream, TypeOK, Threads, ControlSteps, JoinSteps,
       Lock, Free, DetachThen, Same, socketRest, Publish, CanSend, flags
  <2>3. LockInv'
    BY <1>7 DEF PublishStream, LockInv, TypeOK, SocketTypeOK, Lock, Free,
       DetachThen, Same, socketRest, Publish, CanSend, flags
  <2>4. (LeaseHoldsSocket /\ PublishedHasSocket /\ ThreadIsJoinedBeforeSpawn)'
    BY <1>7 DEF PublishStream, LeaseHoldsSocket, PublishedHasSocket,
       ThreadIsJoinedBeforeSpawn, LockInv, TypeOK, SocketTypeOK, Lock, Free,
       DetachThen, Same, socketRest, Publish, CanSend, flags
  <2>5. QED
    BY <2>2, <2>3, <2>4
<1>8. CASE Abandon
  <2>1. SocketTypeOK'
    BY <1>8 DEF Abandon, TypeOK, SocketTypeOK, CallSteps, Wires, Unlock, Goto,
       Free, StopFlags, socketRest
  <2>2. TypeOK'
    BY <1>8, <2>1 DEF Abandon, TypeOK, Threads, ControlSteps, JoinSteps,
       Unlock, Goto, Free, StopFlags, socketRest
  <2>3. LockInv'
    BY <1>8 DEF Abandon, LockInv, TypeOK, SocketTypeOK, Unlock, Goto, Free,
       StopFlags, socketRest
  <2>4. (LeaseHoldsSocket /\ PublishedHasSocket /\ ThreadIsJoinedBeforeSpawn)'
    BY <1>8 DEF Abandon, LeaseHoldsSocket, PublishedHasSocket,
       ThreadIsJoinedBeforeSpawn, LockInv, TypeOK, SocketTypeOK, Unlock, Goto,
       Free, StopFlags, socketRest
  <2>5. QED
    BY <2>2, <2>3, <2>4
<1>9. CASE ShareLink
  <2>1. SocketTypeOK'
    BY <1>9 DEF ShareLink, TypeOK, SocketTypeOK, CallSteps, Wires, Free,
       socketVars, flags
  <2>2. TypeOK'
    BY <1>9, <2>1 DEF ShareLink, TypeOK, Threads, ControlSteps, JoinSteps,
       Free, socketVars, flags
  <2>3. LockInv'
    BY <1>9 DEF ShareLink, LockInv, TypeOK, SocketTypeOK, Free, socketVars,
       flags
  <2>4. (LeaseHoldsSocket /\ PublishedHasSocket /\ ThreadIsJoinedBeforeSpawn)'
    BY <1>9 DEF ShareLink, LeaseHoldsSocket, PublishedHasSocket,
       ThreadIsJoinedBeforeSpawn, LockInv, TypeOK, SocketTypeOK, Free,
       socketVars, flags
  <2>5. QED
    BY <2>2, <2>3, <2>4
<1>10. CASE Announce
  <2>1. SocketTypeOK'
    BY <1>10 DEF Announce, TypeOK, SocketTypeOK, CallSteps, Wires, socketVars
  <2>2. TypeOK'
    BY <1>10, <2>1 DEF Announce, TypeOK, Threads, ControlSteps, JoinSteps,
       socketVars
  <2>3. LockInv'
    BY <1>10 DEF Announce, LockInv, TypeOK, SocketTypeOK, socketVars
  <2>4. (LeaseHoldsSocket /\ PublishedHasSocket /\ ThreadIsJoinedBeforeSpawn)'
    BY <1>10 DEF Announce, LeaseHoldsSocket, PublishedHasSocket,
       ThreadIsJoinedBeforeSpawn, LockInv, TypeOK, SocketTypeOK, socketVars
  <2>5. QED
    BY <2>2, <2>3, <2>4
<1>11. CASE StopJoins
  <2>1. SocketTypeOK'
    BY <1>11, StopJoinStep DEF TypeOK, SocketTypeOK, socketVars
  <2>2. TypeOK'
    <3>1. /\ control' \in ControlSteps /\ recovery' \in RecoverySteps
          /\ overtaken' \subseteq Joiners
      BY <1>11, StopJoinStep DEF TypeOK, ControlSteps, RecoverySteps
    <3> QED
      BY <1>11, <2>1, <3>1, StopJoinStep DEF TypeOK, flags
  <2>3. LockInv'
    BY <1>11, StopJoinStep DEF LockInv, JoinSteps, socketVars
  <2>4. (LeaseHoldsSocket /\ PublishedHasSocket /\ ThreadIsJoinedBeforeSpawn)'
    BY <1>11, StopJoinStep DEF LeaseHoldsSocket, PublishedHasSocket,
       ThreadIsJoinedBeforeSpawn, socketVars
  <2>5. QED
    BY <2>2, <2>3, <2>4
<1>12. CASE Unpublish
  <2>1. SocketTypeOK'
    BY <1>12 DEF Unpublish, TypeOK, SocketTypeOK, CallSteps, Wires, Lock, Free,
       DetachThen, socketRest, flags
  <2>2. TypeOK'
    BY <1>12, <2>1 DEF Unpublish, TypeOK, Threads, ControlSteps, JoinSteps,
       Lock, Free, DetachThen, socketRest, flags
  <2>3. LockInv'
    BY <1>12 DEF Unpublish, LockInv, TypeOK, SocketTypeOK, Lock, Free,
       DetachThen, socketRest, flags
  <2>4. (LeaseHoldsSocket /\ PublishedHasSocket /\ ThreadIsJoinedBeforeSpawn)'
    BY <1>12 DEF Unpublish, LeaseHoldsSocket, PublishedHasSocket,
       ThreadIsJoinedBeforeSpawn, LockInv, TypeOK, SocketTypeOK, Lock, Free,
       DetachThen, socketRest, flags
  <2>5. QED
    BY <2>2, <2>3, <2>4
<1>13. CASE StopEnds
  <2>1. SocketTypeOK'
    BY <1>13 DEF StopEnds, TypeOK, SocketTypeOK, CallSteps, Wires, Unlock,
       Goto, Free, socketRest, flags
  <2>2. TypeOK'
    BY <1>13, <2>1 DEF StopEnds, TypeOK, Threads, ControlSteps, JoinSteps,
       Unlock, Goto, Free, socketRest, flags
  <2>3. LockInv'
    BY <1>13 DEF StopEnds, LockInv, TypeOK, SocketTypeOK, Unlock, Goto, Free,
       socketRest, flags
  <2>4. (LeaseHoldsSocket /\ PublishedHasSocket /\ ThreadIsJoinedBeforeSpawn)'
    BY <1>13 DEF StopEnds, LeaseHoldsSocket, PublishedHasSocket,
       ThreadIsJoinedBeforeSpawn, LockInv, TypeOK, SocketTypeOK, Unlock, Goto,
       Free, socketRest, flags
  <2>5. QED
    BY <2>2, <2>3, <2>4
<1>14. CASE StartRefused
  <2>1. SocketTypeOK'
    BY <1>14 DEF StartRefused, TypeOK, SocketTypeOK, CallSteps, Wires,
       StopFlags, socketVars
  <2>2. TypeOK'
    BY <1>14, <2>1 DEF StartRefused, TypeOK, Threads, ControlSteps, JoinSteps,
       StopFlags, socketVars
  <2>3. LockInv'
    BY <1>14 DEF StartRefused, LockInv, TypeOK, SocketTypeOK, StopFlags,
       socketVars
  <2>4. (LeaseHoldsSocket /\ PublishedHasSocket /\ ThreadIsJoinedBeforeSpawn)'
    BY <1>14 DEF StartRefused, LeaseHoldsSocket, PublishedHasSocket,
       ThreadIsJoinedBeforeSpawn, LockInv, TypeOK, SocketTypeOK, StopFlags,
       socketVars
  <2>5. QED
    BY <2>2, <2>3, <2>4
<1>15. QED
  BY <1>1, <1>2, <1>3, <1>4, <1>5, <1>6, <1>7, <1>8, <1>9, <1>10, <1>11, <1>12,
     <1>13, <1>14 DEF ControlStep

\* The recovery thread keeps it.
LEMMA RecoveryKeeps ==
  ASSUME IInv, RecoveryStep
  PROVE  IInv'
<1> USE DEF IInv, At, CallbackAdmitted
<1>1. CASE RecoveryLoop
  <2>1. SocketTypeOK'
    BY <1>1 DEF RecoveryLoop, TypeOK, SocketTypeOK, CallSteps, Wires,
       NotWanted, socketVars, flags
  <2>2. TypeOK'
    BY <1>1, <2>1 DEF RecoveryLoop, TypeOK, Threads, RecoverySteps, NotWanted,
       socketVars, flags
  <2>3. LockInv'
    BY <1>1 DEF RecoveryLoop, LockInv, TypeOK, SocketTypeOK, NotWanted,
       socketVars, flags
  <2>4. (LeaseHoldsSocket /\ PublishedHasSocket /\ ThreadIsJoinedBeforeSpawn)'
    BY <1>1 DEF RecoveryLoop, LeaseHoldsSocket, PublishedHasSocket,
       ThreadIsJoinedBeforeSpawn, LockInv, TypeOK, SocketTypeOK, NotWanted,
       socketVars, flags
  <2>5. QED
    BY <2>2, <2>3, <2>4
<1>2. CASE Attempt
  <2>1. SocketTypeOK'
    BY <1>2 DEF Attempt, TypeOK, SocketTypeOK, CallSteps, Wires, Lock, Free,
       DetachThen, socketRest, flags
  <2>2. TypeOK'
    BY <1>2, <2>1 DEF Attempt, TypeOK, Threads, RecoverySteps, Lock, Free,
       DetachThen, socketRest, flags
  <2>3. LockInv'
    BY <1>2 DEF Attempt, LockInv, TypeOK, SocketTypeOK, Lock, Free, DetachThen,
       socketRest, flags
  <2>4. (LeaseHoldsSocket /\ PublishedHasSocket /\ ThreadIsJoinedBeforeSpawn)'
    BY <1>2 DEF Attempt, LeaseHoldsSocket, PublishedHasSocket,
       ThreadIsJoinedBeforeSpawn, LockInv, TypeOK, SocketTypeOK, Lock, Free,
       DetachThen, socketRest, flags
  <2>5. QED
    BY <2>2, <2>3, <2>4
<1>3. CASE AttemptConnect
  <2>1. SocketTypeOK'
    BY <1>3 DEF AttemptConnect, TypeOK, SocketTypeOK, CallSteps, Wires, Goto,
       Cancelled, NotWanted, socketRest, flags
  <2>2. TypeOK'
    BY <1>3, <2>1 DEF AttemptConnect, TypeOK, Threads, RecoverySteps, Goto,
       Cancelled, NotWanted, socketRest, flags
  <2>3. LockInv'
    BY <1>3 DEF AttemptConnect, LockInv, TypeOK, SocketTypeOK, Goto, Cancelled,
       NotWanted, socketRest, flags
  <2>4. (LeaseHoldsSocket /\ PublishedHasSocket /\ ThreadIsJoinedBeforeSpawn)'
    BY <1>3 DEF AttemptConnect, LeaseHoldsSocket, PublishedHasSocket,
       ThreadIsJoinedBeforeSpawn, LockInv, TypeOK, SocketTypeOK, Goto,
       Cancelled, NotWanted, socketRest, flags
  <2>5. QED
    BY <2>2, <2>3, <2>4
<1>4. CASE AttemptConnected
  <2>1. SocketTypeOK'
    BY <1>4 DEF AttemptConnected, TypeOK, SocketTypeOK, CallSteps, Wires,
       socketVars, flags
  <2>2. TypeOK'
    BY <1>4, <2>1 DEF AttemptConnected, TypeOK, Threads, RecoverySteps,
       socketVars, flags
  <2>3. LockInv'
    BY <1>4 DEF AttemptConnected, LockInv, TypeOK, SocketTypeOK, socketVars,
       flags
  <2>4. (LeaseHoldsSocket /\ PublishedHasSocket /\ ThreadIsJoinedBeforeSpawn)'
    BY <1>4 DEF AttemptConnected, LeaseHoldsSocket, PublishedHasSocket,
       ThreadIsJoinedBeforeSpawn, LockInv, TypeOK, SocketTypeOK, socketVars,
       flags
  <2>5. QED
    BY <2>2, <2>3, <2>4
<1>5. CASE AttemptJoin
  <2>1. SocketTypeOK'
    BY <1>5 DEF AttemptJoin, TypeOK, SocketTypeOK, CallSteps, Wires, CanSend,
       socketVars, flags
  <2>2. TypeOK'
    BY <1>5, <2>1 DEF AttemptJoin, TypeOK, Threads, RecoverySteps, CanSend,
       socketVars, flags
  <2>3. LockInv'
    BY <1>5 DEF AttemptJoin, LockInv, TypeOK, SocketTypeOK, CanSend,
       socketVars, flags
  <2>4. (LeaseHoldsSocket /\ PublishedHasSocket /\ ThreadIsJoinedBeforeSpawn)'
    BY <1>5 DEF AttemptJoin, LeaseHoldsSocket, PublishedHasSocket,
       ThreadIsJoinedBeforeSpawn, LockInv, TypeOK, SocketTypeOK, CanSend,
       socketVars, flags
  <2>5. QED
    BY <2>2, <2>3, <2>4
<1>6. CASE AttemptPublish
  <2>1. SocketTypeOK'
    BY <1>6 DEF AttemptPublish, TypeOK, SocketTypeOK, CallSteps, Wires, Unlock,
       Goto, Free, Publish, CanSend, flags
  <2>2. TypeOK'
    BY <1>6, <2>1 DEF AttemptPublish, TypeOK, Threads, RecoverySteps, Unlock,
       Goto, Free, Publish, CanSend, flags
  <2>3. LockInv'
    BY <1>6 DEF AttemptPublish, LockInv, TypeOK, SocketTypeOK, Unlock, Goto,
       Free, Publish, CanSend, flags
  <2>4. (LeaseHoldsSocket /\ PublishedHasSocket /\ ThreadIsJoinedBeforeSpawn)'
    BY <1>6 DEF AttemptPublish, LeaseHoldsSocket, PublishedHasSocket,
       ThreadIsJoinedBeforeSpawn, LockInv, TypeOK, SocketTypeOK, Unlock, Goto,
       Free, Publish, CanSend, flags
  <2>5. QED
    BY <2>2, <2>3, <2>4
<1>7. CASE AttemptFails
  <2>1. SocketTypeOK'
    BY <1>7 DEF AttemptFails, TypeOK, SocketTypeOK, CallSteps, Wires,
       DetachThen, socketRest, flags
  <2>2. TypeOK'
    BY <1>7, <2>1 DEF AttemptFails, TypeOK, Threads, RecoverySteps, DetachThen,
       socketRest, flags
  <2>3. LockInv'
    BY <1>7 DEF AttemptFails, LockInv, TypeOK, SocketTypeOK, DetachThen,
       socketRest, flags
  <2>4. (LeaseHoldsSocket /\ PublishedHasSocket /\ ThreadIsJoinedBeforeSpawn)'
    BY <1>7 DEF AttemptFails, LeaseHoldsSocket, PublishedHasSocket,
       ThreadIsJoinedBeforeSpawn, LockInv, TypeOK, SocketTypeOK, DetachThen,
       socketRest, flags
  <2>5. QED
    BY <2>2, <2>3, <2>4
<1>8. CASE AttemptOver
  <2>1. SocketTypeOK'
    BY <1>8 DEF AttemptOver, TypeOK, SocketTypeOK, CallSteps, Wires, Unlock,
       Goto, Free, socketRest, flags
  <2>2. TypeOK'
    BY <1>8, <2>1 DEF AttemptOver, TypeOK, Threads, RecoverySteps, Unlock,
       Goto, Free, socketRest, flags
  <2>3. LockInv'
    BY <1>8 DEF AttemptOver, LockInv, TypeOK, SocketTypeOK, Unlock, Goto, Free,
       socketRest, flags
  <2>4. (LeaseHoldsSocket /\ PublishedHasSocket /\ ThreadIsJoinedBeforeSpawn)'
    BY <1>8 DEF AttemptOver, LeaseHoldsSocket, PublishedHasSocket,
       ThreadIsJoinedBeforeSpawn, LockInv, TypeOK, SocketTypeOK, Unlock, Goto,
       Free, socketRest, flags
  <2>5. QED
    BY <2>2, <2>3, <2>4
<1>9. CASE RecoveryEnds
  <2>1. SocketTypeOK'
    BY <1>9 DEF RecoveryEnds, TypeOK, SocketTypeOK, CallSteps, Wires,
       socketVars
  <2>2. TypeOK'
    BY <1>9, <2>1 DEF RecoveryEnds, TypeOK, Threads, RecoverySteps, socketVars
  <2>3. LockInv'
    BY <1>9 DEF RecoveryEnds, LockInv, TypeOK, SocketTypeOK, socketVars
  <2>4. (LeaseHoldsSocket /\ PublishedHasSocket /\ ThreadIsJoinedBeforeSpawn)'
    BY <1>9 DEF RecoveryEnds, LeaseHoldsSocket, PublishedHasSocket,
       ThreadIsJoinedBeforeSpawn, LockInv, TypeOK, SocketTypeOK, socketVars
  <2>5. QED
    BY <2>2, <2>3, <2>4
<1>10. QED
  BY <1>1, <1>2, <1>3, <1>4, <1>5, <1>6, <1>7, <1>8, <1>9 DEF RecoveryStep

\* The callbacks keep it.
LEMMA HandlerKeeps ==
  ASSUME IInv, Deliver \/ HandlerStep
  PROVE  IInv'
<1> USE DEF IInv, At, CallbackAdmitted
<1>1. CASE Deliver
  <2> PICK s \in Sockets : Admit(s) /\ handler' = Head(pending[s])
    BY <1>1 DEF Deliver
  <2> USE DEF Admit, Admissible
  <2>1. pending[s] \in Seq(Kinds) /\ pending[s] # <<>>
    BY DEF TypeOK, SocketTypeOK
  <2>2. Head(pending[s]) \in Kinds /\ Tail(pending[s]) \in Seq(Kinds)
    BY <2>1
  <2>3. SocketTypeOK'
    BY <1>1, <2>2 DEF Deliver, TypeOK, SocketTypeOK
  <2>4. TypeOK'
    BY <1>1, <2>2, <2>3 DEF Deliver, TypeOK, Kinds, HandlerSteps, flags
  <2>5. LockInv'
    BY <1>1, <2>2 DEF Deliver, LockInv, Kinds
  <2>6. (LeaseHoldsSocket /\ PublishedHasSocket /\ ThreadIsJoinedBeforeSpawn)'
    BY <1>1, <2>2 DEF Deliver, Kinds, LeaseHoldsSocket, PublishedHasSocket,
       ThreadIsJoinedBeforeSpawn
  <2>7. QED
    BY <2>4, <2>5, <2>6
<1>2. CASE OnOpen
  <2>1. SocketTypeOK'
    BY ZenonT(40), <1>2 DEF OnOpen, TypeOK, SocketTypeOK, CallSteps, Wires,
       Return, Then, flags, handlerRest
  <2>2. TypeOK'
    BY <1>2, <2>1 DEF OnOpen, TypeOK, Threads, HandlerSteps, Return, Then,
       flags, handlerRest
  <2>3. LockInv'
    BY <1>2 DEF OnOpen, LockInv, TypeOK, SocketTypeOK, Return, Then, flags,
       handlerRest
  <2>4. (LeaseHoldsSocket /\ PublishedHasSocket /\ ThreadIsJoinedBeforeSpawn)'
    BY <1>2 DEF OnOpen, LeaseHoldsSocket, PublishedHasSocket,
       ThreadIsJoinedBeforeSpawn, LockInv, TypeOK, SocketTypeOK, Return, Then,
       flags, handlerRest
  <2>5. QED
    BY <2>2, <2>3, <2>4
<1>3. CASE OnClosed
  <2>1. SocketTypeOK'
    BY ZenonT(40), <1>3 DEF OnClosed, TypeOK, SocketTypeOK, CallSteps, Wires,
       Then, flags, handlerRest
  <2>2. TypeOK'
    BY <1>3, <2>1 DEF OnClosed, TypeOK, Threads, HandlerSteps, Then, flags,
       handlerRest
  <2>3. LockInv'
    BY <1>3 DEF OnClosed, LockInv, TypeOK, SocketTypeOK, Then, flags,
       handlerRest
  <2>4. (LeaseHoldsSocket /\ PublishedHasSocket /\ ThreadIsJoinedBeforeSpawn)'
    BY <1>3 DEF OnClosed, LeaseHoldsSocket, PublishedHasSocket,
       ThreadIsJoinedBeforeSpawn, LockInv, TypeOK, SocketTypeOK, Then, flags,
       handlerRest
  <2>5. QED
    BY <2>2, <2>3, <2>4
<1>4. CASE OnError
  <2>1. SocketTypeOK'
    BY <1>4 DEF OnError, TypeOK, SocketTypeOK, CallSteps, Wires, Then, flags,
       handlerRest
  <2>2. TypeOK'
    BY <1>4, <2>1 DEF OnError, TypeOK, Threads, HandlerSteps, Then, flags,
       handlerRest
  <2>3. LockInv'
    BY <1>4 DEF OnError, LockInv, TypeOK, SocketTypeOK, Then, flags,
       handlerRest
  <2>4. (LeaseHoldsSocket /\ PublishedHasSocket /\ ThreadIsJoinedBeforeSpawn)'
    BY <1>4 DEF OnError, LeaseHoldsSocket, PublishedHasSocket,
       ThreadIsJoinedBeforeSpawn, LockInv, TypeOK, SocketTypeOK, Then, flags,
       handlerRest
  <2>5. QED
    BY <2>2, <2>3, <2>4
<1>5. CASE OnLoss
  <2>1. SocketTypeOK'
    BY <1>5 DEF OnLoss, TypeOK, SocketTypeOK, CallSteps, Wires, Return, Then,
       flags, handlerRest, IgnoresLoss, NotWanted, Announcing
  <2>2. TypeOK'
    BY <1>5, <2>1 DEF OnLoss, TypeOK, Threads, HandlerSteps, Return, Then,
       flags, handlerRest, IgnoresLoss, NotWanted, Announcing
  <2>3. LockInv'
    BY <1>5 DEF OnLoss, LockInv, TypeOK, SocketTypeOK, Return, Then, flags,
       handlerRest, IgnoresLoss, NotWanted, Announcing
  <2>4. (LeaseHoldsSocket /\ PublishedHasSocket /\ ThreadIsJoinedBeforeSpawn)'
    BY <1>5 DEF OnLoss, LeaseHoldsSocket, PublishedHasSocket,
       ThreadIsJoinedBeforeSpawn, LockInv, TypeOK, SocketTypeOK, Return, Then,
       flags, handlerRest, IgnoresLoss, NotWanted, Announcing
  <2>5. QED
    BY <2>2, <2>3, <2>4
<1>6. CASE StartRecovery
  <2>1. SocketTypeOK'
    BY <1>6 DEF StartRecovery, TypeOK, SocketTypeOK, CallSteps, Wires, Return,
       Then, handlerRest
  <2>2. TypeOK'
    BY <1>6, <2>1 DEF StartRecovery, TypeOK, Threads, HandlerSteps, JoinSteps,
       Return, Then, Ending, handlerRest
  <2>3. LockInv'
    BY <1>6 DEF StartRecovery, LockInv, TypeOK, SocketTypeOK, Return, Then,
       handlerRest
  <2>4. (LeaseHoldsSocket /\ PublishedHasSocket /\ ThreadIsJoinedBeforeSpawn)'
    BY <1>6 DEF StartRecovery, LeaseHoldsSocket, PublishedHasSocket,
       ThreadIsJoinedBeforeSpawn, LockInv, TypeOK, SocketTypeOK, Return, Then,
       handlerRest
  <2>5. QED
    BY <2>2, <2>3, <2>4
<1>7. CASE HandlerJoins
  <2>1. SocketTypeOK'
    BY <1>7, HandlerJoinStep DEF TypeOK, SocketTypeOK, handlerRest
  <2>2. TypeOK'
    <3>1. /\ handler' \in HandlerSteps /\ recovery' \in RecoverySteps
          /\ overtaken' \subseteq Joiners
      BY <1>7, HandlerJoinStep DEF TypeOK, HandlerSteps, RecoverySteps
    <3> QED BY <1>7, <2>1, <3>1, HandlerJoinStep DEF TypeOK, flags, handlerRest
  <2>3. LockInv'
    BY <1>7, HandlerJoinStep DEF LockInv, JoinSteps, handlerRest
  <2>4. (LeaseHoldsSocket /\ PublishedHasSocket /\ ThreadIsJoinedBeforeSpawn)'
    BY <1>7, HandlerJoinStep DEF LeaseHoldsSocket, PublishedHasSocket,
       ThreadIsJoinedBeforeSpawn, handlerRest
  <2>5. QED
    BY <2>2, <2>3, <2>4
<1>8. CASE Spawn
  <2>1. SocketTypeOK'
    BY <1>8 DEF Spawn, TypeOK, SocketTypeOK, CallSteps, Wires, Return, flags,
       handlerRest
  <2>2. TypeOK'
    BY <1>8, <2>1 DEF Spawn, TypeOK, Threads, ControlSteps, JoinSteps,
       RecoverySteps, HandlerSteps, Return, flags, handlerRest
  <2>3. LockInv'
    BY <1>8 DEF Spawn, LockInv, ThreadIsJoinedBeforeSpawn, TypeOK, Return,
       handlerRest
  <2>4. (LeaseHoldsSocket /\ PublishedHasSocket /\ ThreadIsJoinedBeforeSpawn)'
    BY <1>8 DEF Spawn, LeaseHoldsSocket, PublishedHasSocket,
       ThreadIsJoinedBeforeSpawn, LockInv, TypeOK, SocketTypeOK, Return, flags,
       handlerRest
  <2>5. QED
    BY <2>2, <2>3, <2>4
<1>9. CASE OnAlert
  <2>1. SocketTypeOK'
    BY <1>9 DEF OnAlert, TypeOK, SocketTypeOK, CallSteps, Wires, Then,
       handlerRest, Starting, Announcing
  <2>2. TypeOK'
    BY <1>9, <2>1 DEF OnAlert, TypeOK, Threads, HandlerSteps, Then,
       handlerRest, Starting, Announcing
  <2>3. LockInv'
    BY <1>9 DEF OnAlert, LockInv, TypeOK, SocketTypeOK, Then, handlerRest,
       Starting, Announcing
  <2>4. (LeaseHoldsSocket /\ PublishedHasSocket /\ ThreadIsJoinedBeforeSpawn)'
    BY <1>9 DEF OnAlert, LeaseHoldsSocket, PublishedHasSocket,
       ThreadIsJoinedBeforeSpawn, LockInv, TypeOK, SocketTypeOK, Then,
       handlerRest, Starting, Announcing
  <2>5. QED
    BY <2>2, <2>3, <2>4
<1>10. CASE AlertDisconnects
  <2>1. SocketTypeOK'
    BY <1>10 DEF AlertDisconnects, TypeOK, SocketTypeOK, CallSteps, Wires,
       Lock, Free, Unlock, Goto, DetachThen, Return, Then, flags
  <2>2. TypeOK'
    BY <1>10, <2>1 DEF AlertDisconnects, TypeOK, Threads, ControlSteps,
       JoinSteps, RecoverySteps, HandlerSteps, Lock, Free, Unlock, Goto,
       DetachThen, Return, Then, flags
  <2>3. LockInv'
    BY <1>10 DEF AlertDisconnects, LockInv, TypeOK, SocketTypeOK, Lock, Free,
       Unlock, Goto, DetachThen, Return, Then, flags
  <2>4. (LeaseHoldsSocket /\ PublishedHasSocket /\ ThreadIsJoinedBeforeSpawn)'
    BY <1>10 DEF AlertDisconnects, LeaseHoldsSocket, PublishedHasSocket,
       ThreadIsJoinedBeforeSpawn, LockInv, TypeOK, SocketTypeOK, Lock, Free,
       Unlock, Goto, DetachThen, Return, Then, flags
  <2>5. QED
    BY <2>2, <2>3, <2>4
<1>11. QED
  BY <1>1, <1>2, <1>3, <1>4, <1>5, <1>6, <1>7, <1>8, <1>9, <1>10 DEF
     HandlerStep

\* The socket calls keep it.
LEMMA CallKeeps ==
  ASSUME IInv, CallStep(Cancelled) \/ GiveUp, UNCHANGED threadVars,
         cutShort' \in BOOLEAN
  PROVE  IInv'
<1> USE DEF IInv, At, CallbackAdmitted
<1>1. CASE ConnectBegin
  <2>1. SocketTypeOK'
    BY <1>1 DEF ConnectBegin, TypeOK, SocketTypeOK, CallSteps, Wires, Goto,
       DetachThen, threadVars, flags
  <2>2. TypeOK'
    BY <1>1, <2>1 DEF ConnectBegin, TypeOK, Threads, Goto, DetachThen,
       threadVars, flags
  <2>3. LockInv'
    BY <1>1 DEF ConnectBegin, LockInv, TypeOK, SocketTypeOK, Goto, DetachThen,
       threadVars, flags
  <2>4. (LeaseHoldsSocket /\ PublishedHasSocket /\ ThreadIsJoinedBeforeSpawn)'
    BY <1>1 DEF ConnectBegin, LeaseHoldsSocket, PublishedHasSocket,
       ThreadIsJoinedBeforeSpawn, LockInv, TypeOK, SocketTypeOK, Goto,
       DetachThen, threadVars, flags
  <2>5. QED
    BY <2>2, <2>3, <2>4
<1>2. CASE Detach
  <2>1. SocketTypeOK'
    <3> USE <1>2 DEF Detach, Retiring
    <3>1. \A s \in Sockets : pending[s] \in Seq(Kinds)
      BY DEF TypeOK, SocketTypeOK
    <3>2. \A s \in Sockets : UnderWay(s) \in Seq(Kinds)
      BY UnderWayType, <3>1
    <3>3. \A s \in Sockets : Append(pending[s], "closed") \in Seq(Kinds)
      BY <3>1 DEF Kinds
    <3>4. pending' \in [Sockets -> Seq(Kinds)]
      BY <3>1, <3>2, <3>3
    <3>5. wire' \in [Sockets -> Wires]
      BY DEF TypeOK, SocketTypeOK, Wires
    <3>6. call' \in [step : CallSteps, next : CallSteps]
      BY DEF TypeOK, SocketTypeOK, CallSteps
    <3>7. active' \in Sockets \cup {NoSocket} /\ retired' \subseteq Sockets
      BY DEF TypeOK, SocketTypeOK
    <3>8. QED
      BY <3>4, <3>5, <3>6, <3>7 DEF TypeOK, SocketTypeOK
  <2>2. TypeOK'
    BY <1>2, <2>1 DEF Detach, TypeOK, Threads, UnderWay, Retiring, threadVars,
       flags
  <2>3. LockInv'
    BY <1>2 DEF Detach, LockInv, TypeOK, SocketTypeOK, UnderWay, Retiring,
       threadVars, flags
  <2>4. (LeaseHoldsSocket /\ PublishedHasSocket /\ ThreadIsJoinedBeforeSpawn)'
    BY <1>2 DEF Detach, LeaseHoldsSocket, PublishedHasSocket,
       ThreadIsJoinedBeforeSpawn, LockInv, TypeOK, SocketTypeOK, UnderWay,
       Retiring, threadVars, flags
  <2>5. QED
    BY <2>2, <2>3, <2>4
<1>3. CASE Clear
  <2>1. SocketTypeOK'
    BY <1>3 DEF Clear, TypeOK, SocketTypeOK, CallSteps, Wires, Goto,
       threadVars, flags
  <2>2. TypeOK'
    BY <1>3, <2>1 DEF Clear, TypeOK, Threads, Goto, threadVars, flags
  <2>3. LockInv'
    BY <1>3 DEF Clear, LockInv, TypeOK, SocketTypeOK, Goto, threadVars, flags
  <2>4. (LeaseHoldsSocket /\ PublishedHasSocket /\ ThreadIsJoinedBeforeSpawn)'
    BY <1>3 DEF Clear, LeaseHoldsSocket, PublishedHasSocket,
       ThreadIsJoinedBeforeSpawn, LockInv, TypeOK, SocketTypeOK, Goto,
       threadVars, flags
  <2>5. QED
    BY <2>2, <2>3, <2>4
<1>4. CASE Activate
  <2>1. SocketTypeOK'
    <3> USE <1>4 DEF Activate
    <3>1. call' \in [step : CallSteps, next : CallSteps]
      BY DEF Goto, CallSteps
    <3>2. pending' \in [Sockets -> Seq(Kinds)]
      <4>1. \A s \in Sockets : pending[s] \in Seq(Kinds)
        BY DEF TypeOK, SocketTypeOK
      <4>2. \A s \in Sockets : UnderWay(s) \in Seq(Kinds)
        BY UnderWayType, <4>1
      <4>3. CASE pending' = pending
        BY <4>3 DEF TypeOK, SocketTypeOK
      <4>4. CASE pending' = [s \in Sockets |->
                   IF s \in retired THEN UnderWay(s) ELSE pending[s]]
        BY <4>1, <4>2, <4>4
      <4>5. QED
        BY <4>3, <4>4
    <3>3. wire' \in [Sockets -> Wires] /\ active' \in Sockets \cup {NoSocket}
      BY DEF TypeOK, SocketTypeOK, Wires, Fresh
    <3>4. retired' \subseteq Sockets /\ connectionFailed' \in BOOLEAN
      BY DEF TypeOK, SocketTypeOK
    <3>5. QED
      BY <3>1, <3>2, <3>3, <3>4 DEF TypeOK, SocketTypeOK
  <2>2. TypeOK'
    BY <1>4, <2>1 DEF Activate, TypeOK, Threads, Goto, Fresh, UnderWay,
       threadVars, flags
  <2>3. LockInv'
    BY <1>4 DEF Activate, LockInv, TypeOK, SocketTypeOK, Goto, Fresh, UnderWay,
       threadVars, flags
  <2>4. (LeaseHoldsSocket /\ PublishedHasSocket /\ ThreadIsJoinedBeforeSpawn)'
    BY <1>4 DEF Activate, LeaseHoldsSocket, PublishedHasSocket,
       ThreadIsJoinedBeforeSpawn, LockInv, TypeOK, SocketTypeOK, Goto, Fresh,
       UnderWay, threadVars, flags
  <2>5. QED
    BY <2>2, <2>3, <2>4
<1>5. CASE Wait
  <2>1. SocketTypeOK'
    BY <1>5 DEF Wait, TypeOK, SocketTypeOK, CallSteps, Wires, Goto, threadVars,
       flags
  <2>2. TypeOK'
    BY <1>5, <2>1 DEF Wait, TypeOK, Threads, Goto, threadVars, flags
  <2>3. LockInv'
    BY <1>5 DEF Wait, LockInv, TypeOK, SocketTypeOK, Goto, threadVars, flags
  <2>4. (LeaseHoldsSocket /\ PublishedHasSocket /\ ThreadIsJoinedBeforeSpawn)'
    BY <1>5 DEF Wait, LeaseHoldsSocket, PublishedHasSocket,
       ThreadIsJoinedBeforeSpawn, LockInv, TypeOK, SocketTypeOK, Goto,
       threadVars, flags
  <2>5. QED
    BY <2>2, <2>3, <2>4
<1>6. CASE KeepWaiting(Cancelled)
  <2>1. SocketTypeOK'
    BY <1>6 DEF KeepWaiting, TypeOK, SocketTypeOK, CallSteps, Wires, Goto,
       threadVars, flags
  <2>2. TypeOK'
    BY <1>6, <2>1 DEF KeepWaiting, TypeOK, Threads, Goto, threadVars, flags
  <2>3. LockInv'
    BY <1>6 DEF KeepWaiting, LockInv, TypeOK, SocketTypeOK, Goto, threadVars,
       flags
  <2>4. (LeaseHoldsSocket /\ PublishedHasSocket /\ ThreadIsJoinedBeforeSpawn)'
    BY <1>6 DEF KeepWaiting, LeaseHoldsSocket, PublishedHasSocket,
       ThreadIsJoinedBeforeSpawn, LockInv, TypeOK, SocketTypeOK, Goto,
       threadVars, flags
  <2>5. QED
    BY <2>2, <2>3, <2>4
<1>7. CASE Opened(Cancelled)
  <2>1. SocketTypeOK'
    BY <1>7 DEF Opened, TypeOK, SocketTypeOK, CallSteps, Wires, Goto,
       DetachThen, threadVars, flags
  <2>2. TypeOK'
    BY <1>7, <2>1 DEF Opened, TypeOK, Threads, Goto, DetachThen, threadVars,
       flags
  <2>3. LockInv'
    BY <1>7 DEF Opened, LockInv, TypeOK, SocketTypeOK, Goto, DetachThen,
       threadVars, flags
  <2>4. (LeaseHoldsSocket /\ PublishedHasSocket /\ ThreadIsJoinedBeforeSpawn)'
    BY <1>7 DEF Opened, LeaseHoldsSocket, PublishedHasSocket,
       ThreadIsJoinedBeforeSpawn, LockInv, TypeOK, SocketTypeOK, Goto,
       DetachThen, threadVars, flags
  <2>5. QED
    BY <2>2, <2>3, <2>4
<1>8. CASE GiveUp
  <2>1. SocketTypeOK'
    BY <1>8 DEF GiveUp, TypeOK, SocketTypeOK, CallSteps, Wires, DetachThen,
       threadVars, flags
  <2>2. TypeOK'
    BY <1>8, <2>1 DEF GiveUp, TypeOK, Threads, DetachThen, threadVars, flags
  <2>3. LockInv'
    BY <1>8 DEF GiveUp, LockInv, TypeOK, SocketTypeOK, DetachThen, threadVars,
       flags
  <2>4. (LeaseHoldsSocket /\ PublishedHasSocket /\ ThreadIsJoinedBeforeSpawn)'
    BY <1>8 DEF GiveUp, LeaseHoldsSocket, PublishedHasSocket,
       ThreadIsJoinedBeforeSpawn, LockInv, TypeOK, SocketTypeOK, DetachThen,
       threadVars, flags
  <2>5. QED
    BY <2>2, <2>3, <2>4
<1>9. QED
  BY <1>1, <1>2, <1>3, <1>4, <1>5, <1>6, <1>7, <1>8 DEF CallStep

\* The network keeps it.
LEMMA NetworkKeeps ==
  ASSUME IInv, Network \/ Refusing
  PROVE  IInv'
<1> USE DEF IInv, At, CallbackAdmitted
<1>1. CASE Network
  <2>1. SocketTypeOK'
    <3>1. PICK s \in Sockets : SocketOpens(s) \/ SocketCloses(s) \/ ServerRefusesStream(s)
      BY <1>1 DEF Network, NetworkStep
    <3>2. pending[s] \in Seq(Kinds)
      BY DEF TypeOK, SocketTypeOK
    <3>3. \E q \in Seq(Kinds) : pending' = [pending EXCEPT ![s] = q]
      <4>1. /\ Append(pending[s], "open") \in Seq(Kinds)
            /\ Append(pending[s], "alert") \in Seq(Kinds)
            /\ pending[s] \o <<"closed">> \in Seq(Kinds)
            /\ pending[s] \o <<"error", "closed">> \in Seq(Kinds)
        BY <3>2 DEF Kinds
      <4>2. QED
        BY <3>1, <4>1 DEF SocketOpens, SocketCloses, ServerRefusesStream
    <3>4. wire' \in [Sockets -> Wires]
      BY <3>1 DEF TypeOK, SocketTypeOK, SocketOpens, SocketCloses,
         ServerRefusesStream, Wires
    <3>5. QED
      BY <1>1, <3>3, <3>4 DEF Network, NetworkStep, TypeOK, SocketTypeOK
  <2>2. TypeOK'
    BY <1>1, <2>1 DEF Network, TypeOK, Threads, appVars, threadVars, flags,
       NetworkStep, SocketOpens, SocketCloses, ServerRefusesStream
  <2>3. LockInv'
    BY <1>1 DEF Network, LockInv, TypeOK, SocketTypeOK, appVars, threadVars,
       flags, NetworkStep, SocketOpens, SocketCloses, ServerRefusesStream
  <2>4. (LeaseHoldsSocket /\ PublishedHasSocket /\ ThreadIsJoinedBeforeSpawn)'
    BY <1>1 DEF Network, LeaseHoldsSocket, PublishedHasSocket,
       ThreadIsJoinedBeforeSpawn, LockInv, TypeOK, SocketTypeOK, appVars,
       threadVars, flags, NetworkStep, SocketOpens, SocketCloses,
       ServerRefusesStream
  <2>5. QED
    BY <2>2, <2>3, <2>4
<1>2. CASE Refusing
  <2>1. SocketTypeOK'
    BY <1>2 DEF Refusing, TypeOK, SocketTypeOK, CallSteps, Wires, appVars,
       threadVars, flags, Refuse, Admissible
  <2>2. TypeOK'
    BY <1>2, <2>1 DEF Refusing, TypeOK, Threads, appVars, threadVars, flags,
       Refuse, Admissible
  <2>3. LockInv'
    BY <1>2 DEF Refusing, LockInv, TypeOK, SocketTypeOK, appVars, threadVars,
       flags, Refuse, Admissible
  <2>4. (LeaseHoldsSocket /\ PublishedHasSocket /\ ThreadIsJoinedBeforeSpawn)'
    BY <1>2 DEF Refusing, LeaseHoldsSocket, PublishedHasSocket,
       ThreadIsJoinedBeforeSpawn, LockInv, TypeOK, SocketTypeOK, appVars,
       threadVars, flags, Refuse, Admissible
  <2>5. QED
    BY <2>2, <2>3, <2>4
<1>3. QED
  BY <1>1, <1>2

---------------------------------------------------------------------------

\* The invariant holds in every reachable state.
THEOREM Invariance == Spec => []IInv
<1>1. IInv /\ [Next]_vars => IInv'
  <2> SUFFICES ASSUME IInv, [Next]_vars PROVE IInv'
    OBVIOUS
  <2>1. CASE GoLive \/ StopLive \/ ControlStep
    BY <2>1, ControlKeeps
  <2>2. CASE RecoveryStep
    BY <2>2, RecoveryKeeps
  <2>3. CASE Deliver \/ HandlerStep
    BY <2>3, HandlerKeeps
  <2>4. CASE Calling \/ GivingUp
    <3>1. cutShort' \in BOOLEAN /\ UNCHANGED threadVars
      BY <2>4 DEF Calling, GivingUp, appVars, IInv, TypeOK
    <3> QED BY <2>4, <3>1, CallKeeps DEF Calling, GivingUp
  <2>5. CASE Network \/ Refusing
    BY <2>5, NetworkKeeps
  <2>6. CASE UNCHANGED vars
    BY <2>6 DEF vars, socketVars, appVars, threadVars, IInv, TypeOK,
       SocketTypeOK, LockInv, At, LeaseHoldsSocket, PublishedHasSocket,
       ThreadIsJoinedBeforeSpawn
  <2>7. QED
    BY <2>1, <2>2, <2>3, <2>4, <2>5, <2>6 DEF Next
<1>2. QED
  BY InitEstablishes, <1>1, PTL DEF Spec

\* Every reachable state of the lifecycle is well typed.
THEOREM SignalingTypeCorrect == Spec => []TypeOK
BY Invariance, PTL DEF IInv

\* No admitted callback ever outlives its socket: connect's refusal, the
\* identity check of acquire and retirement suffice, whatever the threads do.
THEOREM LeaseTheorem == Spec => []LeaseHoldsSocket
BY Invariance, PTL DEF IInv

\* Outside of disconnect, a published stream has a socket.
THEOREM PublicationTheorem == Spec => []PublishedHasSocket
BY Invariance, PTL DEF IInv

\* No recovery thread is started over one that has not been joined.
THEOREM SpawnTheorem == Spec => []ThreadIsJoinedBeforeSpawn
BY Invariance, PTL DEF IInv

---------------------------------------------------------------------------
(* Rest is consistent.                                                     *)

\* goLive has a socket of its own, or is about to say that it is live.
Established ==
  \/ control \in {"join", "publish", "link", "announce"}
  \/ control = "connecting" /\ call.step \in {"wait", "check", "opened", "succeeded"}

\* A stop shows in live_ as long as control is busy; a live stream that is to
\* be stopped by an alert is about to lose live_, or was refused too early.
StageInv ==
  /\ control # "idle" => ~live
  /\ /\ control \in {"connect", "connecting", "join", "publish", "link", "announce"}
     /\ stopRequested
     => missed # {}
  /\ live /\ stopRequested => handler = "alert2" \/ missed # {}
  /\ handler \in {"alert3", "disconnecting"} /\ (live \/ Established) => missed # {}

\* While there is an active socket, only its own callback runs.
LeaseInv ==
  /\ handler = "idle" <=> callback = NoCallback
  /\ callback # NoCallback /\ active # NoSocket => callback = active

Has(q, K) == \E i \in DOMAIN q : q[i] \in K

\* What a socket reports of its end, and the places of the callbacks that
\* act on it.
Losses == {"closed", "error"}
LossSteps ==
  JoinSteps \cup {"closed", "closed2", "error", "failing", "dropped", "start", "spawn"}

\* Only a closed socket has a loss to report.
ClosedInv ==
  \A s \in Sockets :
    Has(pending[s], Losses) \/ (callback = s /\ handler \in LossSteps)
      => wire[s] = "closed"

\* After disconnect there is no socket until connect makes one.
DroppedInv ==
  /\ \/ call.step \in {"begin", "activate", "wait", "check", "opened"}
     \/ call.step \in {"detach", "clear"} /\ call.next = "activate"
     => control = "connecting" \/ recovery = "connecting"
  /\ call.step \in {"clear", "activate"} => active = NoSocket
  /\ \/ recovery \in {"drop", "abandon"} \/ control \in {"abandon", "disconnecting"}
     \/ handler = "disconnecting"
     => At("detach") \/ active = NoSocket
  /\ recovery = "connecting" /\ call.step \in {"begin", "failed"} => active = NoSocket
  /\ control = "connecting" /\ call.step \in {"detach", "clear"}
       => call.next # "succeeded"

\* The loss of the connection has still to be heard, or its handler goes on
\* to start a recovery; or an alert is about to end the stream.
LossAhead ==
  \/ /\ active # NoSocket
     /\ Has(pending[active], {"closed"}) \/ handler \in {"closed", "closed2", "dropped"}
  \/ live /\ handler \in JoinSteps \cup {"start", "spawn", "alert2"}

\* A recovery has dropped the connection, or will try again.
Recovering ==
  \/ recovery \in {"drop", "connecting", "join", "publish", "abandon"}
  \/ live /\ recovery \in {"loop", "attempt", "pause"}
  \/ recovery = "pause" /\ active = NoSocket

\* From the publication on a stream is served, or somebody will see to it.
ShownInv ==
  (live \/ Announcing) /\ missed = {} => Served \/ LossAhead \/ Recovering

\* Somebody who has to go on first will disconnect, or say live.
Dropping ==
  \/ control \in {"join", "publish", "abandon", "link", "announce", "unpublish",
                  "disconnecting"}
  \/ control = "connecting" /\ call.step \notin {"begin", "failed"}
  \/ control \in JoinSteps /\ wasLive
  \/ handler \in {"alert3", "disconnecting"}
  \/ recovery = "connecting" /\ ~At("succeeded")
  \/ recovery \in {"drop", "abandon"}

\* Without a live stream, a socket is somebody's to drop.
OfflineInv ==
  ~live /\ active # NoSocket =>
    Dropping \/ (cutShort /\ wire[active] = "closed")

\* Inside join(), a thread is there to wait for, or the other has joined it.
JoinInv ==
  /\ "control" \in overtaken => control = "joining"
  /\ "handler" \in overtaken => handler = "joining"
  /\ control = "joining" => "control" \in overtaken \/ CanWait
  /\ handler = "joining" => "handler" \in overtaken \/ CanWait

\* From Reset on, reconnecting_ is about the session that starts.
InSession == live \/ Starting

\* The flag is backed by a recovery under way; a callback whose join throws
\* holds it for a session that is over, and keeps the next from connecting.
FlagInv ==
  /\ InSession /\ reconnecting => Running \/ handler \in JoinSteps \cup {"spawn"}
  /\ Doomed("handler") => ~live /\ ~Established /\ ~(InSession /\ reconnecting)

\* A stop whose join throws finds the connection down: the callback that was
\* first runs on a socket that has closed.
ClashInv ==
  /\ Doomed("control") /\ active # NoSocket => wire[active] = "closed"
  /\ "control" \in overtaken => recovery \in {"reaped", "none", "loop", "quit", "done"}

RestInv ==
  /\ StageInv /\ LeaseInv /\ ClosedInv /\ DroppedInv
  /\ JoinInv /\ FlagInv /\ ClashInv /\ ShownInv /\ OfflineInv

---------------------------------------------------------------------------

LEMMA HasTail ==
  ASSUME NEW q \in Seq(Kinds), q # <<>>, NEW K
  PROVE  /\ Tail(q) \in Seq(Kinds) /\ Head(q) \in Kinds
         /\ Has(Tail(q), K) => Has(q, K)
         /\ Has(q, K) <=> Has(Tail(q), K) \/ Head(q) \in K
<1> DEFINE t == Tail(q)
<1>1. Len(q) \in Nat /\ DOMAIN q = 1 .. Len(q) /\ Len(q) # 0 /\ Head(q) = q[1]
  OBVIOUS
<1>2. /\ t \in Seq(Kinds) /\ Len(t) = Len(q) - 1 /\ DOMAIN t = 1 .. (Len(q) - 1)
      /\ \A i \in DOMAIN t : t[i] = q[i + 1]
  BY <1>1
<1> HIDE DEF t
<1>3. Has(t, K) => Has(q, K) BY <1>1, <1>2 DEF Has
<1>4. Has(q, K) => Has(t, K) \/ q[1] \in K
  <2> SUFFICES ASSUME NEW i \in DOMAIN q, q[i] \in K, i # 1 PROVE Has(t, K)
    BY DEF Has
  <2>1. i - 1 \in DOMAIN t /\ t[i - 1] = q[i] BY <1>1, <1>2
  <2> QED BY <2>1 DEF Has
<1>5. q[1] \in Kinds BY <1>1
<1>6. q[1] \in K => Has(q, K) BY <1>1 DEF Has
<1> QED BY <1>1, <1>2, <1>3, <1>4, <1>5, <1>6 DEF t

LEMMA HasAppend ==
  ASSUME NEW q \in Seq(Kinds), NEW k \in Kinds, NEW K
  PROVE  Has(Append(q, k), K) <=> Has(q, K) \/ k \in K
<1> DEFINE a == Append(q, k)
<1>1. Len(q) \in Nat /\ DOMAIN q = 1 .. Len(q) OBVIOUS
<1>2. /\ DOMAIN a = 1 .. (Len(q) + 1) /\ a[Len(q) + 1] = k
      /\ \A i \in 1 .. Len(q) : a[i] = q[i]
  BY <1>1
<1> HIDE DEF a
<1>3. Len(q) + 1 \in DOMAIN a BY <1>1, <1>2
<1>4. Has(a, K) => Has(q, K) \/ k \in K BY <1>1, <1>2 DEF Has
<1>5. Has(q, K) \/ k \in K => Has(a, K) BY <1>1, <1>2, <1>3 DEF Has
<1> QED BY <1>4, <1>5 DEF a

\* A report of a failure ends with the close.
LEMMA HasReport ==
  ASSUME NEW q \in Seq(Kinds), NEW r \in Seq(Kinds), NEW i \in DOMAIN r, NEW K,
         r[i] \in K
  PROVE  Has(q \o r, K)
<1> DEFINE a == q \o r
<1>1. Len(q) \in Nat /\ Len(r) \in Nat /\ i \in 1 .. Len(r) OBVIOUS
<1>2. DOMAIN a = 1 .. (Len(q) + Len(r)) /\ a[Len(q) + i] = r[i]
  BY <1>1
<1> HIDE DEF a
<1>3. Len(q) + i \in DOMAIN a BY <1>1, <1>2
<1> QED BY <1>2, <1>3 DEF Has, a

\* Of a destroyed socket a report arrives only if it was pending.
LEMMA HasUnderWay ==
  ASSUME NEW s \in Sockets, pending[s] \in Seq(Kinds), NEW K, Has(UnderWay(s), K)
  PROVE  Has(pending[s], K)
<1>1. pending[s] # <<>>
  <2>1. DOMAIN <<>> = {} OBVIOUS
  <2> QED BY <2>1 DEF Has, UnderWay
<1>2. UnderWay(s) = <<Head(pending[s])>> BY <1>1 DEF UnderWay
<1>3. Head(pending[s]) \in K BY <1>2 DEF Has
<1>4. 1 \in DOMAIN pending[s] /\ Head(pending[s]) = pending[s][1] BY <1>1
<1> QED BY <1>3, <1>4 DEF Has

\* What the delivery of a callback does.
LEMMA Delivered ==
  ASSUME IInv, Deliver
  PROVE  /\ active \in Sockets /\ callback = NoCallback /\ handler = "idle"
         /\ callback' = active /\ handler' \in Kinds
         /\ pending[active] \in Seq(Kinds) /\ pending[active] # <<>>
         /\ handler' = Head(pending[active])
         /\ pending' = [pending EXCEPT ![active] = Tail(@)]
         /\ UNCHANGED <<active, wire, connected, published, call, live, stopRequested,
                        reconnecting, opsMutex, control, recovery, wasLive, missed,
                        cutShort>>
<1>1. PICK s \in Sockets : Admit(s) /\ handler' = Head(pending[s])
  BY DEF Deliver
<1>2. pending[s] \in Seq(Kinds) /\ pending[s] # <<>> /\ s = active
  BY <1>1 DEF IInv, TypeOK, SocketTypeOK, Admit, Admissible
<1>3. Head(pending[s]) \in Kinds BY <1>2, HasTail
<1> QED BY <1>1, <1>2, <1>3 DEF Deliver, Admit, CallbackAdmitted, flags

\* goLive, stopLive and the recovery leave callbacks alone, and no socket
\* closes or opens by them.
LEMMA ThreadsLeaveCallbacks ==
  ASSUME IInv, GoLive \/ StopLive \/ ControlStep \/ RecoveryStep
  PROVE  /\ UNCHANGED <<active, callback, pending, handler>>
         /\ \A s \in Sockets : wire[s] = "closed" => wire'[s] = "closed"
<1>1. CASE GoLive \/ StopLive \/ ControlStep
  <2>1. UNCHANGED <<active, callback, pending, handler>>
    BY <1>1, StopJoinStep DEF ControlStep, GoLive, socketVars, flags, StopLive,
       StopFlags, Reset, StartRefused, Connect, Lock, Free, Goto, socketRest,
       Connecting, Unlock, JoinRoom, DetachThen, PublishStream, Publish, Same,
       Abandon, ShareLink, Announce, Unpublish, StopEnds
  <2>2. PublishStream \/ UNCHANGED wire
    BY <1>1, StopJoinStep DEF ControlStep, GoLive, socketVars, flags, StopLive,
       Reset, StartRefused, Connect, Lock, Free, Goto, socketRest, Connecting,
       Unlock, JoinRoom, DetachThen, Abandon, ShareLink, Announce, Unpublish,
       StopEnds
  <2>3. ASSUME PublishStream
        PROVE  \A s \in Sockets : wire[s] = "closed" => wire'[s] = "closed"
    BY <2>3 DEF PublishStream, Publish, CanSend, IInv, TypeOK, SocketTypeOK,
       Same, socketRest
  <2> QED BY <2>1, <2>2, <2>3
<1>2. CASE RecoveryStep
  <2>1. UNCHANGED <<active, callback, pending, handler>>
    BY <1>2 DEF RecoveryStep, RecoveryLoop, socketVars, flags, Attempt, Lock,
       DetachThen, socketRest, AttemptConnect, Goto, AttemptConnected,
       AttemptJoin, AttemptPublish, Publish, Unlock, AttemptFails, AttemptOver,
       RecoveryEnds
  <2>2. AttemptPublish \/ UNCHANGED wire
    BY <1>2 DEF RecoveryStep, RecoveryLoop, socketVars, flags, Attempt, Lock,
       DetachThen, socketRest, AttemptConnect, Goto, AttemptConnected,
       AttemptJoin, AttemptFails, AttemptOver, Unlock, RecoveryEnds
  <2>3. ASSUME AttemptPublish
        PROVE  \A s \in Sockets : wire[s] = "closed" => wire'[s] = "closed"
    BY <2>3 DEF AttemptPublish, Publish, CanSend, IInv, TypeOK, SocketTypeOK
  <2> QED BY <2>1, <2>2, <2>3
<1> QED BY <1>1, <1>2

\* Callbacks come and go with their lease.
LEMMA LeaseKeeps ==
  ASSUME IInv, LeaseInv, [Next]_vars
  PROVE  LeaseInv'
<1> USE DEF IInv
<1>1. CASE GoLive \/ StopLive \/ ControlStep \/ RecoveryStep
  BY <1>1, ThreadsLeaveCallbacks DEF LeaseInv
<1>2. CASE Deliver
  BY <1>2, Delivered, SocketsAssumption DEF LeaseInv, Kinds
<1>3. CASE OnOpen
  BY <1>3 DEF OnOpen, Return, Then, handlerRest, LeaseInv
<1>4. CASE OnClosed
  BY <1>4 DEF OnClosed, Return, Then, handlerRest, LeaseInv
<1>5. CASE OnError
  BY <1>5 DEF OnError, Then, handlerRest, LeaseInv
<1>6. CASE OnLoss
  BY <1>6 DEF OnLoss, Return, Then, IgnoresLoss, handlerRest, LeaseInv
<1>7. CASE StartRecovery
  BY <1>7 DEF StartRecovery, Return, Then, handlerRest, LeaseInv
<1>8. CASE HandlerJoins
  BY <1>8, HandlerJoinStep DEF JoinSteps, handlerRest, LeaseInv
<1>9. CASE Spawn
  BY <1>9 DEF Spawn, Return, LeaseInv
<1>10. CASE OnAlert
  BY <1>10 DEF OnAlert, Then, Starting, handlerRest, LeaseInv
<1>11. CASE AlertDisconnects
  BY <1>11 DEF AlertDisconnects, Unlock, Return, Then, LeaseInv
<1>12. CASE ConnectBegin /\ UNCHANGED threadVars
  BY <1>12 DEF ConnectBegin, appVars, threadVars, LeaseInv
<1>13. CASE Detach /\ UNCHANGED threadVars
  BY <1>13 DEF Detach, appVars, threadVars, LeaseInv
<1>14. CASE Clear /\ UNCHANGED threadVars
  BY <1>14 DEF Clear, appVars, threadVars, LeaseInv
<1>15. CASE Activate /\ UNCHANGED threadVars
  BY <1>15 DEF Activate, CallbackAdmitted, Fresh, appVars, threadVars, LeaseInv
<1>16. CASE Wait /\ UNCHANGED threadVars
  BY <1>16 DEF Wait, appVars, threadVars, LeaseInv
<1>17. CASE KeepWaiting(Cancelled) /\ UNCHANGED threadVars
  BY <1>17 DEF KeepWaiting, appVars, threadVars, LeaseInv
<1>18. CASE Opened(Cancelled) /\ UNCHANGED threadVars
  BY <1>18 DEF Opened, appVars, threadVars, LeaseInv
<1>19. CASE GivingUp
  BY <1>19 DEF GivingUp, GiveUp, appVars, threadVars, LeaseInv
<1>20. CASE Refusing
  BY <1>20 DEF Refusing, Refuse, appVars, threadVars, LeaseInv
<1>21. CASE Network
  BY <1>21 DEF Network, NetworkStep, SocketOpens, SocketCloses,
     ServerRefusesStream, appVars, threadVars, LeaseInv
<1>22. CASE UNCHANGED vars
  BY <1>22 DEF vars, socketVars, appVars, threadVars, flags, LeaseInv, At
<1> QED BY <1>1, <1>2, <1>3, <1>4, <1>5, <1>6, <1>7, <1>8, <1>9, <1>10, <1>11,
   <1>12, <1>13, <1>14, <1>15, <1>16, <1>17, <1>18, <1>19, <1>20, <1>21, <1>22
   DEF Next, ControlStep, RecoveryStep, HandlerStep, Calling, CallStep, vars

\* A close is reported once the socket is closed.
LEMMA ClosedKeeps ==
  ASSUME IInv, LeaseInv, ClosedInv, [Next]_vars
  PROVE  ClosedInv'
<1> USE DEF IInv
<1>1. CASE GoLive \/ StopLive \/ ControlStep \/ RecoveryStep
  BY <1>1, ThreadsLeaveCallbacks DEF ClosedInv
<1>2. CASE Deliver
  <2>1. /\ Has(Tail(pending[active]), Losses) => Has(pending[active], Losses)
        /\ Head(pending[active]) \in Losses => Has(pending[active], Losses)
    <3>1. Has(pending[active], Losses) \/ Head(pending[active]) \notin Losses
      <4>1. 1 \in DOMAIN pending[active] /\ Head(pending[active]) = pending[active][1]
        BY <1>2, Delivered
      <4> QED BY <4>1 DEF Has
    <3> QED BY <3>1, <1>2, Delivered, HasTail
  <2>2. \A s \in Sockets : s # active => pending'[s] = pending[s]
    BY <1>2, Delivered DEF TypeOK, SocketTypeOK
  <2>3. pending'[active] = Tail(pending[active])
    BY <1>2, Delivered DEF TypeOK, SocketTypeOK
  <2>4. Has(pending[active], Losses) => wire[active] = "closed"
    BY <1>2, Delivered DEF ClosedInv
  <2> SUFFICES ASSUME NEW s \in Sockets,
                      Has(pending'[s], Losses)
                      \/ (callback' = s /\ handler' \in LossSteps)
               PROVE  wire'[s] = "closed"
    BY DEF ClosedInv
  <2>5. wire' = wire /\ callback' = active /\ handler' \in Kinds
        /\ handler' = Head(pending[active])
    BY <1>2, Delivered
  <2>6. CASE s = active
    <3>1. Has(Tail(pending[active]), Losses) \/ Head(pending[active]) \in Losses
      BY <2>3, <2>5, <2>6 DEF Kinds, LossSteps, Losses, JoinSteps
    <3> QED BY <3>1, <2>1, <2>4, <2>5, <2>6
  <2>7. CASE s # active BY <2>2, <2>5, <2>7 DEF ClosedInv
  <2> QED BY <2>6, <2>7
<1>3. CASE OnOpen
  BY <1>3 DEF OnOpen, Return, Then, handlerRest, ClosedInv, LossSteps,
     JoinSteps
<1>4. CASE OnClosed
  BY <1>4 DEF OnClosed, Return, Then, handlerRest, ClosedInv, LossSteps,
     JoinSteps
<1>5. CASE OnError
  BY <1>5 DEF OnError, Then, handlerRest, ClosedInv, LossSteps, JoinSteps
<1>6. CASE OnLoss
  BY <1>6 DEF OnLoss, Return, Then, IgnoresLoss, handlerRest, ClosedInv,
     LossSteps, JoinSteps
<1>7. CASE StartRecovery
  BY <1>7 DEF StartRecovery, Return, Then, handlerRest, ClosedInv, LossSteps,
     JoinSteps
<1>8. CASE HandlerJoins
  BY <1>8, HandlerJoinStep DEF JoinSteps, handlerRest, ClosedInv, LossSteps
<1>9. CASE Spawn
  BY <1>9 DEF Spawn, Return, handlerRest, ClosedInv, LossSteps, JoinSteps
<1>10. CASE OnAlert
  BY <1>10 DEF OnAlert, Then, Starting, handlerRest, ClosedInv, LossSteps,
     JoinSteps
<1>11. CASE AlertDisconnects
  BY <1>11 DEF AlertDisconnects, Unlock, Return, Then, ClosedInv, LossSteps,
     JoinSteps
<1>12. CASE ConnectBegin /\ UNCHANGED threadVars
  BY <1>12 DEF ConnectBegin, appVars, threadVars, ClosedInv
<1>13. CASE Detach /\ UNCHANGED threadVars
  <2> SUFFICES ASSUME NEW s \in Sockets,
                      Has(pending'[s], Losses)
                      \/ (callback = s /\ handler \in LossSteps)
               PROVE  wire'[s] = "closed"
    BY <1>13 DEF Detach, appVars, threadVars, ClosedInv
  <2>1. wire'[s] = IF s = active THEN "closed" ELSE wire[s]
    BY <1>13 DEF Detach
  <2>2. CASE s # active
    <3>1. pending'[s] \in {pending[s], UnderWay(s)} BY <1>13, <2>2 DEF Detach
    <3>2. Has(pending'[s], Losses) => Has(pending[s], Losses)
      BY <3>1, HasUnderWay DEF TypeOK, SocketTypeOK
    <3> QED BY <3>2, <2>1, <2>2 DEF ClosedInv
  <2> QED BY <2>1, <2>2
<1>14. CASE Clear /\ UNCHANGED threadVars
  BY <1>14 DEF Clear, appVars, threadVars, ClosedInv
<1>15. CASE Activate /\ UNCHANGED threadVars
  <2>1. CASE pending' = pending /\ wire' = wire
    BY <1>15, <2>1 DEF appVars, threadVars, Activate, ClosedInv
  <2>2. CASE ~CallbackAdmitted /\ active = NoSocket
    <3>1. PICK a \in Fresh : wire' = [wire EXCEPT ![a] = "connecting"]
      BY <1>15, <2>2 DEF Activate
    <3>2. pending' = [s \in Sockets |-> IF s \in retired THEN UnderWay(s) ELSE pending[s]]
      BY <1>15, <2>2 DEF Activate
    <3>3. a \in Sockets /\ a \notin retired /\ pending[a] = <<>>
      BY <3>1 DEF Fresh
    <3> SUFFICES ASSUME NEW s \in Sockets, Has(pending'[s], Losses)
                 PROVE  wire'[s] = "closed"
      <4>1. UNCHANGED <<callback, handler>> /\ \A s \in Sockets : callback # s
        BY <1>15, <2>2, SocketsAssumption DEF Activate, appVars, threadVars,
           CallbackAdmitted
      <4> QED BY <4>1 DEF ClosedInv
    <3>4. Has(pending[s], Losses)
      <4>1. pending'[s] \in {pending[s], UnderWay(s)} BY <3>2
      <4> QED BY <4>1, HasUnderWay DEF TypeOK, SocketTypeOK
    <3>5. ~Has(<<>>, Losses)
      <4>1. DOMAIN <<>> = {} OBVIOUS
      <4> QED BY <4>1 DEF Has
    <3>6. s # a BY <3>3, <3>4, <3>5
    <3> QED BY <3>1, <3>4, <3>6 DEF ClosedInv, TypeOK, SocketTypeOK
  <2> QED BY <1>15, <2>1, <2>2 DEF Activate
<1>16. CASE Wait /\ UNCHANGED threadVars
  BY <1>16 DEF Wait, appVars, threadVars, ClosedInv
<1>17. CASE KeepWaiting(Cancelled) /\ UNCHANGED threadVars
  BY <1>17 DEF KeepWaiting, appVars, threadVars, ClosedInv
<1>18. CASE Opened(Cancelled) /\ UNCHANGED threadVars
  BY <1>18 DEF Opened, appVars, threadVars, ClosedInv
<1>19. CASE GivingUp
  BY <1>19 DEF GivingUp, GiveUp, appVars, threadVars, ClosedInv
<1>20. CASE Refusing
  <2>1. PICK s \in Sockets : Refuse(s) BY <1>20 DEF Refusing
  <2>2. pending[s] \in Seq(Kinds) /\ pending[s] # <<>>
    BY <2>1 DEF Refuse, TypeOK, SocketTypeOK
  <2>3. Has(Tail(pending[s]), Losses) => Has(pending[s], Losses)
    BY <2>2, HasTail
  <2> QED BY <1>20, <2>1, <2>3 DEF Refusing, Refuse, appVars, threadVars,
     ClosedInv, TypeOK, SocketTypeOK
<1>21. CASE Network
  <2>1. PICK s \in Sockets : SocketOpens(s) \/ SocketCloses(s) \/ ServerRefusesStream(s)
    BY <1>21 DEF Network, NetworkStep
  <2>2. pending[s] \in Seq(Kinds) /\ wire \in [Sockets -> Wires]
        /\ pending \in [Sockets -> Seq(Kinds)]
        /\ UNCHANGED <<callback, handler>>
    BY <1>21 DEF TypeOK, SocketTypeOK, Network, NetworkStep, appVars,
       threadVars
  <2>3. CASE SocketOpens(s) \/ ServerRefusesStream(s)
    <3>1. \E k \in {"open", "alert"} : pending'[s] = Append(pending[s], k)
      BY <2>2, <2>3 DEF SocketOpens, ServerRefusesStream
    <3>2. Has(pending'[s], Losses) => Has(pending[s], Losses)
      BY <2>2, <3>1, HasAppend DEF Kinds, Losses
    <3>3. wire[s] # "closed" BY <2>3 DEF SocketOpens, ServerRefusesStream
    <3> QED BY <2>2, <2>3, <3>2, <3>3 DEF SocketOpens, ServerRefusesStream,
       ClosedInv
  <2>4. CASE SocketCloses(s)
    BY <2>2, <2>4 DEF SocketCloses, ClosedInv
  <2> QED BY <2>1, <2>3, <2>4
<1>22. CASE UNCHANGED vars
  BY <1>22 DEF vars, socketVars, appVars, threadVars, flags, ClosedInv, At
<1> QED BY <1>1, <1>2, <1>3, <1>4, <1>5, <1>6, <1>7, <1>8, <1>9, <1>10, <1>11,
   <1>12, <1>13, <1>14, <1>15, <1>16, <1>17, <1>18, <1>19, <1>20, <1>21, <1>22
   DEF Next, ControlStep, RecoveryStep, HandlerStep, Calling, CallStep, vars

\* Nobody but connect brings a socket.
LEMMA DroppedKeeps ==
  ASSUME IInv, LeaseInv, DroppedInv, [Next]_vars
  PROVE  DroppedInv'
<1> USE DEF IInv
<1>1. CASE GoLive
  BY <1>1 DEF GoLive, socketVars, DroppedInv, At
<1>2. CASE StopLive
  BY <1>2 DEF StopLive, StopFlags, socketVars, DroppedInv, At
<1>3. CASE Reset
  BY <1>3 DEF Reset, socketVars, DroppedInv, At
<1>4. CASE StartRefused
  BY <1>4 DEF StartRefused, StopFlags, socketVars, DroppedInv, At
<1>5. CASE Connect
  BY <1>5 DEF Connect, Lock, Free, Goto, DroppedInv, LockInv
<1>6. CASE Connecting
  BY <1>6 DEF Connecting, Unlock, Goto, StopFlags, socketRest, DroppedInv, At
<1>7. CASE JoinRoom
  BY <1>7 DEF JoinRoom, CanSend, DetachThen, DroppedInv, At
<1>8. CASE PublishStream
  BY <1>8 DEF PublishStream, Publish, Same, DetachThen, DroppedInv, At
<1>9. CASE Abandon
  BY <1>9 DEF Abandon, Unlock, Goto, StopFlags, socketRest, DroppedInv, At
<1>10. CASE ShareLink
  BY <1>10 DEF ShareLink, socketVars, DroppedInv, At
<1>11. CASE Announce
  BY <1>11 DEF Announce, socketVars, DroppedInv, At
<1>12. CASE StopJoins
  BY <1>12, StopJoinStep DEF JoinSteps, socketVars, DroppedInv, At
<1>13. CASE Unpublish
  BY <1>13 DEF Unpublish, DetachThen, DroppedInv, At
<1>14. CASE StopEnds
  BY <1>14 DEF StopEnds, Unlock, Goto, socketRest, DroppedInv, At
<1>15. CASE RecoveryLoop
  BY <1>15 DEF RecoveryLoop, LeavesNewStream, socketVars, DroppedInv, At
<1>16. CASE Attempt
  BY <1>16 DEF Attempt, Lock, DetachThen, DroppedInv, Free, At, LockInv
<1>17. CASE AttemptConnect
  BY <1>17 DEF AttemptConnect, Cancelled, Goto, socketRest, DroppedInv, At
<1>18. CASE AttemptConnected
  BY <1>18 DEF AttemptConnected, socketVars, DroppedInv, At
<1>19. CASE AttemptJoin
  BY <1>19 DEF AttemptJoin, socketVars, DroppedInv, At
<1>20. CASE AttemptPublish
  BY <1>20 DEF AttemptPublish, Publish, Unlock, Goto, DroppedInv, LockInv
<1>21. CASE AttemptFails
  BY <1>21 DEF AttemptFails, DetachThen, DroppedInv, At
<1>22. CASE AttemptOver
  BY <1>22 DEF AttemptOver, Unlock, Goto, socketRest, DroppedInv, At
<1>23. CASE RecoveryEnds
  BY <1>23 DEF RecoveryEnds, socketVars, DroppedInv, At
<1>24. CASE Deliver
  BY <1>24, Delivered DEF DroppedInv, At, Kinds
<1>25. CASE OnOpen
  BY <1>25 DEF OnOpen, Return, Then, handlerRest, DroppedInv, At
<1>26. CASE OnClosed
  BY <1>26 DEF OnClosed, Return, Then, handlerRest, DroppedInv, At
<1>27. CASE OnError
  BY <1>27 DEF OnError, Then, handlerRest, DroppedInv, At
<1>28. CASE OnLoss
  BY <1>28 DEF OnLoss, Return, Then, IgnoresLoss, handlerRest, DroppedInv, At
<1>29. CASE StartRecovery
  BY <1>29 DEF StartRecovery, Return, Then, handlerRest, DroppedInv, At
<1>30. CASE HandlerJoins
  BY <1>30, HandlerJoinStep DEF JoinSteps, handlerRest, DroppedInv, At
<1>31. CASE Spawn
  BY <1>31 DEF Spawn, Return, handlerRest, DroppedInv, At,
     ThreadIsJoinedBeforeSpawn
<1>32. CASE OnAlert
  BY <1>32 DEF OnAlert, Then, Starting, handlerRest, DroppedInv, At
<1>33. CASE AlertDisconnects
  BY <1>33 DEF AlertDisconnects, Lock, DetachThen, Unlock, Goto, DroppedInv,
     Free, At, LockInv
<1>34. CASE ConnectBegin /\ UNCHANGED threadVars
  BY <1>34 DEF ConnectBegin, DetachThen, Goto, appVars, threadVars, DroppedInv,
     At
<1>35. CASE Detach /\ UNCHANGED threadVars
  BY <1>35 DEF Detach, appVars, threadVars, DroppedInv, At
<1>36. CASE Clear /\ UNCHANGED threadVars
  BY <1>36 DEF Clear, Goto, appVars, threadVars, DroppedInv, At, LockInv
<1>37. CASE Activate /\ UNCHANGED threadVars
  <2>1. CASE Goto("failed") /\ UNCHANGED active
    BY <1>37, <2>1 DEF Activate, Goto, appVars, threadVars, flags, DroppedInv,
       At, LockInv
  <2>2. CASE Goto("wait")
    BY <1>37, <2>2 DEF Activate, Goto, appVars, threadVars, flags, DroppedInv,
       At, LockInv
  <2> QED BY <1>37, <2>1, <2>2 DEF Activate
<1>38. CASE Wait /\ UNCHANGED threadVars
  BY <1>38 DEF Wait, Goto, appVars, threadVars, DroppedInv, At
<1>39. CASE KeepWaiting(Cancelled) /\ UNCHANGED threadVars
  BY <1>39 DEF KeepWaiting, Goto, appVars, threadVars, DroppedInv, At
<1>40. CASE Opened(Cancelled) /\ UNCHANGED threadVars
  BY <1>40 DEF Opened, DetachThen, Goto, appVars, threadVars, DroppedInv, At
<1>41. CASE GivingUp
  BY <1>41 DEF GivingUp, GiveUp, DetachThen, appVars, threadVars, DroppedInv,
     At
<1>42. CASE Refusing
  BY <1>42 DEF Refusing, Refuse, appVars, threadVars, DroppedInv, At
<1>43. CASE Network
  BY <1>43 DEF Network, NetworkStep, SocketOpens, SocketCloses,
     ServerRefusesStream, appVars, threadVars, DroppedInv, At
<1>44. CASE UNCHANGED vars
  BY <1>44 DEF vars, socketVars, appVars, threadVars, flags, DroppedInv, Free,
     At
<1> QED BY <1>1, <1>2, <1>3, <1>4, <1>5, <1>6, <1>7, <1>8, <1>9, <1>10, <1>11,
   <1>12, <1>13, <1>14, <1>15, <1>16, <1>17, <1>18, <1>19, <1>20, <1>21, <1>22,
   <1>23, <1>24, <1>25, <1>26, <1>27, <1>28, <1>29, <1>30, <1>31, <1>32, <1>33,
   <1>34, <1>35, <1>36, <1>37, <1>38, <1>39, <1>40, <1>41, <1>42, <1>43, <1>44
   DEF Next, ControlStep, RecoveryStep, HandlerStep, Calling, CallStep, vars

\* The stages of goLive, of stopLive and of an alert.
LEMMA StageKeeps ==
  ASSUME IInv, LeaseInv, DroppedInv, StageInv, [Next]_vars
  PROVE  StageInv'
<1> USE DEF IInv
<1>1. CASE GoLive
  BY <1>1 DEF GoLive, flags, StageInv, Established
<1>2. CASE StopLive
  BY <1>2 DEF StopLive, StopFlags, StageInv, Established
<1>3. CASE Reset
  BY <1>3 DEF Reset, StageInv, Established
<1>4. CASE StartRefused
  BY <1>4 DEF StartRefused, StopFlags, StageInv, Established
<1>5. CASE Connect
  BY <1>5 DEF Connect, Goto, flags, StageInv, Established
<1>6. CASE Connecting
  BY <1>6 DEF Connecting, Unlock, StopFlags, flags, StageInv, Established, At
<1>7. CASE JoinRoom
  BY <1>7 DEF JoinRoom, flags, StageInv, Established
<1>8. CASE PublishStream
  BY <1>8 DEF PublishStream, Publish, Same, flags, StageInv, Established
<1>9. CASE Abandon
  BY <1>9 DEF Abandon, Unlock, StopFlags, StageInv, Established
<1>10. CASE ShareLink
  BY <1>10 DEF ShareLink, flags, StageInv, Established
<1>11. CASE Announce
  BY <1>11 DEF Announce, StageInv, Established
<1>12. CASE StopJoins
  BY <1>12, StopJoinStep DEF JoinSteps, flags, StageInv, Established
<1>13. CASE Unpublish
  BY <1>13 DEF Unpublish, flags, StageInv, Established
<1>14. CASE StopEnds
  BY <1>14 DEF StopEnds, Unlock, flags, StageInv, Established
<1>15. CASE RecoveryLoop
  BY <1>15 DEF RecoveryLoop, LeavesNewStream, socketVars, flags, StageInv,
     Established
<1>16. CASE Attempt
  BY <1>16 DEF Attempt, DetachThen, flags, StageInv, Established
<1>17. CASE AttemptConnect
  BY <1>17 DEF AttemptConnect, Cancelled, Goto, flags, StageInv, Established
<1>18. CASE AttemptConnected
  BY <1>18 DEF AttemptConnected, socketVars, flags, StageInv, Established
<1>19. CASE AttemptJoin
  BY <1>19 DEF AttemptJoin, socketVars, flags, StageInv, Established
<1>20. CASE AttemptPublish
  BY <1>20 DEF AttemptPublish, Publish, Unlock, Goto, flags, StageInv,
     Established
<1>21. CASE AttemptFails
  BY <1>21 DEF AttemptFails, DetachThen, flags, StageInv, Established
<1>22. CASE AttemptOver
  BY <1>22 DEF AttemptOver, Unlock, Goto, flags, StageInv, Established
<1>23. CASE RecoveryEnds
  BY <1>23 DEF RecoveryEnds, socketVars, StageInv, Established
<1>24. CASE Deliver
  BY <1>24, Delivered DEF StageInv, Established, Kinds
<1>25. CASE OnOpen
  BY <1>25 DEF OnOpen, Return, Then, handlerRest, flags, StageInv
<1>26. CASE OnClosed
  BY <1>26 DEF OnClosed, Return, Then, handlerRest, flags, StageInv
<1>27. CASE OnError
  BY <1>27 DEF OnError, Then, handlerRest, flags, StageInv
<1>28. CASE OnLoss
  BY <1>28 DEF OnLoss, Return, Then, IgnoresLoss, handlerRest, flags, StageInv
<1>29. CASE StartRecovery
  BY <1>29 DEF StartRecovery, Return, Then, handlerRest, StageInv
<1>30. CASE HandlerJoins
  BY <1>30, HandlerJoinStep DEF JoinSteps, handlerRest, flags, StageInv
<1>31. CASE Spawn
  BY <1>31 DEF Spawn, Return, handlerRest, flags, StageInv
<1>32. CASE OnAlert
  BY <1>32 DEF OnAlert, Then, Starting, handlerRest, StageInv, Established,
     Announcing
<1>33. CASE AlertDisconnects
  BY <1>33 DEF AlertDisconnects, DetachThen, Unlock, Return, Then, flags,
     StageInv, Established
<1>34. CASE ConnectBegin /\ UNCHANGED threadVars
  BY <1>34 DEF ConnectBegin, DetachThen, Goto, appVars, threadVars, StageInv,
     Established
<1>35. CASE Detach /\ UNCHANGED threadVars
  BY <1>35 DEF Detach, appVars, threadVars, StageInv, Established
<1>36. CASE Clear /\ UNCHANGED threadVars
  BY <1>36 DEF Clear, Goto, appVars, threadVars, StageInv, Established, At,
     LockInv, DroppedInv
<1>37. CASE Activate /\ UNCHANGED threadVars
  BY <1>37 DEF Activate, CallbackAdmitted, Goto, Fresh, appVars, threadVars,
     StageInv, Established, LeaseInv
<1>38. CASE Wait /\ UNCHANGED threadVars
  BY <1>38 DEF Wait, appVars, threadVars, StageInv, Established, At
<1>39. CASE KeepWaiting(Cancelled) /\ UNCHANGED threadVars
  BY <1>39 DEF KeepWaiting, appVars, threadVars, StageInv, Established, At
<1>40. CASE Opened(Cancelled) /\ UNCHANGED threadVars
  BY <1>40 DEF Opened, appVars, threadVars, StageInv, Established, At
<1>41. CASE GivingUp
  BY <1>41 DEF GivingUp, GiveUp, DetachThen, appVars, threadVars, StageInv,
     Established
<1>42. CASE Refusing
  BY <1>42 DEF Refusing, Refuse, appVars, threadVars, StageInv, Established
<1>43. CASE Network
  BY <1>43 DEF Network, NetworkStep, SocketOpens, SocketCloses,
     ServerRefusesStream, appVars, threadVars, StageInv, Established
<1>44. CASE UNCHANGED vars
  BY <1>44 DEF vars, socketVars, appVars, threadVars, flags, StageInv,
     Established, Announcing, At
<1> QED BY <1>1, <1>2, <1>3, <1>4, <1>5, <1>6, <1>7, <1>8, <1>9, <1>10, <1>11,
   <1>12, <1>13, <1>14, <1>15, <1>16, <1>17, <1>18, <1>19, <1>20, <1>21, <1>22,
   <1>23, <1>24, <1>25, <1>26, <1>27, <1>28, <1>29, <1>30, <1>31, <1>32, <1>33,
   <1>34, <1>35, <1>36, <1>37, <1>38, <1>39, <1>40, <1>41, <1>42, <1>43, <1>44
   DEF Next, ControlStep, RecoveryStep, HandlerStep, Calling, CallStep, vars

\* Outside of stopSignalingRecoveryThread nobody comes into it but at its
\* start, and a thread that could be waited for still can.
LEMMA OthersMove ==
  ASSUME IInv, [Next]_vars, ~StopJoins, ~HandlerJoins
  PROVE  /\ UNCHANGED overtaken
         /\ \/ control' = control
            \/ control \notin JoinSteps /\ control' \notin JoinSteps \ {"joinThread"}
         /\ \/ handler' = handler
            \/ handler \notin JoinSteps /\ handler' \notin JoinSteps \ {"joinThread"}
         /\ \/ recovery' = recovery
            \/ RecoveryStep /\ CanWait /\ CanWait'
            \/ handler = "spawn" /\ handler' = "idle" /\ recovery' = "loop"
<1> USE DEF IInv
<1>1. CASE GoLive \/ StopLive \/ ControlStep
  BY <1>1 DEF ControlStep, GoLive, StopLive, StopFlags, Reset, StartRefused,
     Connect, Connecting, JoinRoom, PublishStream, Abandon, ShareLink,
     Announce, Unpublish, StopEnds, JoinSteps
<1>2. CASE RecoveryStep
  BY <1>2 DEF RecoveryStep, RecoveryLoop, Attempt, AttemptConnect,
     AttemptConnected, AttemptJoin, AttemptPublish, AttemptFails, AttemptOver,
     RecoveryEnds, CanWait
<1>3. CASE Deliver
  BY <1>3, Delivered DEF Deliver, Kinds, JoinSteps
<1>4. CASE HandlerStep
  BY <1>4 DEF HandlerStep, OnOpen, OnClosed, OnError, OnLoss, StartRecovery,
     Spawn, OnAlert, AlertDisconnects, Return, Then, handlerRest, JoinSteps
<1>5. CASE Calling \/ GivingUp \/ Refusing \/ Network \/ UNCHANGED vars
  BY <1>5 DEF Calling, GivingUp, Refusing, Network, appVars, threadVars, vars
<1> QED BY <1>1, <1>2, <1>3, <1>4, <1>5 DEF Next

\* Whoever is overtaken is inside join().
LEMMA JoinKeeps ==
  ASSUME IInv, JoinInv, [Next]_vars
  PROVE  JoinInv'
<1>1. CASE StopJoins
  <2>1. PICK next \in JoinSteps \cup {"returned", "thrown"} :
          /\ Joins("control", next)
          /\ control' = IF next \in JoinSteps THEN next
                        ELSE IF next = "returned" /\ wasLive THEN "unpublish"
                        ELSE "idle"
    BY <1>1 DEF StopJoins
  <2>2. UNCHANGED handler BY <1>1 DEF StopJoins
  <2> QED BY <2>1, <2>2 DEF Joins, Place, Joiners, JoinInv, CanWait, JoinSteps,
             IInv, TypeOK, LockInv
<1>2. CASE HandlerJoins
  <2>1. PICK next \in JoinSteps \cup {"returned", "thrown"} :
          /\ Joins("handler", next)
          /\ handler' = IF next \in JoinSteps THEN next
                        ELSE IF next = "returned" THEN "spawn" ELSE "idle"
    BY <1>2 DEF HandlerJoins, Then, Return, JoinSteps
  <2>2. UNCHANGED control BY <1>2 DEF HandlerJoins, handlerRest
  <2> QED BY <2>1, <2>2 DEF Joins, Place, Joiners, JoinInv, CanWait, JoinSteps,
             IInv, TypeOK, LockInv
<1>3. CASE ~StopJoins /\ ~HandlerJoins
  BY <1>3, OthersMove DEF JoinInv, CanWait, JoinSteps
<1> QED BY <1>1, <1>2, <1>3

\* A join that throws leaves reconnecting_ set for nobody's session.
LEMMA FlagKeeps ==
  ASSUME IInv, LeaseInv, DroppedInv, StageInv, JoinInv, FlagInv, [Next]_vars
  PROVE  FlagInv'
<1> USE DEF IInv, FlagInv, InSession, Starting, Announcing, Established, Doomed,
            Place, Running, CanWait, JoinSteps, JoinInv
<1>1. CASE StopJoins
  <2>1. /\ ~InSession /\ ~Established /\ ~live
        /\ UNCHANGED <<live, reconnecting, handler, call>>
    BY <1>1, StopJoinStep DEF StageInv, flags, socketVars
  <2>2. ~InSession' /\ ~Established' /\ ~live'
    BY <2>1, <1>1, StopJoinStep
  <2> QED BY <2>2
<1>2. CASE HandlerJoins
  <2>1. UNCHANGED <<live, reconnecting, control, call>>
    BY <1>2, HandlerJoinStep DEF flags, handlerRest
  <2>2. PICK next \in JoinSteps \cup {"returned", "thrown"} :
          /\ Joins("handler", next)
          /\ handler' = IF next \in JoinSteps THEN next
                        ELSE IF next = "returned" THEN "spawn" ELSE "idle"
    BY <1>2 DEF HandlerJoins, Then, Return
  <2>3. handler' = "idle" => Doomed("handler")
    BY <1>2, HandlerJoinStep
  <2>4. handler' # "idle" => handler' \in JoinSteps \cup {"spawn"}
    BY <1>2, HandlerJoinStep
  <2>5. Doomed("handler")' => \/ ~live /\ ~Established /\ ~InSession
                              \/ Doomed("handler")
    <3>1. CASE handler = "joinThread"
      <4>1. Doomed("handler")' => recovery = "reaped"
        BY <2>2, <3>1 DEF Joins, Joinable
      <4>2. recovery = "reaped" => control = "joined"
        BY <3>1 DEF LockInv
      <4> QED BY <4>1, <4>2 DEF StageInv
    <3>2. CASE handler # "joinThread"
      BY <2>2, <3>2 DEF Joins, Joiners, TypeOK
    <3> QED BY <3>1, <3>2
  <2> QED BY <2>1, <2>3, <2>4, <2>5
<1>3. CASE GoLive
  BY <1>3 DEF GoLive, flags
<1>4. CASE StopLive
  BY <1>4 DEF StopLive, StopFlags
<1>5. CASE Reset
  BY <1>5 DEF Reset, StageInv
<1>6. CASE StartRefused
  BY <1>6 DEF StartRefused, StopFlags
<1>7. CASE Connect
  BY <1>7 DEF Connect, Goto, flags
<1>8. CASE Connecting
  BY <1>8 DEF Connecting, Unlock, StopFlags, flags, At
<1>9. CASE JoinRoom
  BY <1>9 DEF JoinRoom, flags
<1>10. CASE PublishStream
  BY <1>10 DEF PublishStream, flags
<1>11. CASE Abandon
  BY <1>11 DEF Abandon, StopFlags
<1>12. CASE ShareLink
  BY <1>12 DEF ShareLink, flags
<1>13. CASE Announce
  BY <1>13 DEF Announce
<1>14. CASE Unpublish
  BY <1>14 DEF Unpublish, flags
<1>15. CASE StopEnds
  BY <1>15 DEF StopEnds, flags
<1>16. CASE RecoveryLoop
  BY <1>16 DEF RecoveryLoop, socketVars, flags
<1>17. CASE Attempt
  BY <1>17 DEF Attempt, DetachThen, flags
<1>18. CASE AttemptConnect
  BY <1>18 DEF AttemptConnect, Goto, flags, LockInv
<1>19. CASE AttemptConnected
  BY <1>19 DEF AttemptConnected, socketVars, flags
<1>20. CASE AttemptJoin
  BY <1>20 DEF AttemptJoin, socketVars, flags
<1>21. CASE AttemptPublish
  BY <1>21 DEF AttemptPublish, Unlock, Goto, flags
<1>22. CASE AttemptFails
  BY <1>22 DEF AttemptFails, DetachThen, flags
<1>23. CASE AttemptOver
  BY <1>23 DEF AttemptOver, Unlock, Goto, flags
<1>24. CASE RecoveryEnds
  BY <1>24 DEF RecoveryEnds, socketVars
<1>25. CASE Deliver
  BY <1>25, Delivered DEF Deliver, Kinds
<1>26. CASE OnOpen
  BY <1>26 DEF OnOpen, Return, Then, handlerRest, flags
<1>27. CASE OnClosed
  BY <1>27 DEF OnClosed, Return, Then, handlerRest, flags
<1>28. CASE OnError
  BY <1>28 DEF OnError, Then, handlerRest, flags
<1>29. CASE OnLoss
  BY <1>29 DEF OnLoss, Return, Then, handlerRest, flags
<1>30. CASE StartRecovery
  BY <1>30 DEF StartRecovery, Return, Then, handlerRest
<1>31. CASE Spawn
  BY <1>31 DEF Spawn, Return, handlerRest, flags, ThreadIsJoinedBeforeSpawn
<1>32. CASE OnAlert
  BY <1>32 DEF OnAlert, Then, handlerRest
<1>33. CASE AlertDisconnects
  BY <1>33 DEF AlertDisconnects, DetachThen, Unlock, Goto, Return, Then, flags
<1>34. CASE ConnectBegin /\ UNCHANGED threadVars
  BY <1>34 DEF ConnectBegin, DetachThen, Goto, At, threadVars
<1>35. CASE Detach /\ UNCHANGED threadVars
  BY <1>35 DEF Detach, At, threadVars
<1>36. CASE Clear /\ UNCHANGED threadVars
  BY <1>36 DEF Clear, Goto, At, LockInv, DroppedInv, threadVars
<1>37. CASE Activate /\ UNCHANGED threadVars
  BY <1>37 DEF Activate, CallbackAdmitted, Goto, LeaseInv, threadVars
<1>38. CASE Wait /\ UNCHANGED threadVars
  BY <1>38 DEF Wait, Goto, At, threadVars
<1>39. CASE KeepWaiting(Cancelled) /\ UNCHANGED threadVars
  BY <1>39 DEF KeepWaiting, Goto, At, threadVars
<1>40. CASE Opened(Cancelled) /\ UNCHANGED threadVars
  BY <1>40 DEF Opened, DetachThen, Goto, At, threadVars
<1>41. CASE GivingUp
  BY <1>41 DEF GivingUp, GiveUp, DetachThen, appVars, At, threadVars
<1>42. CASE Refusing
  BY <1>42 DEF Refusing, Refuse, appVars, threadVars
<1>43. CASE Network
  BY <1>43 DEF Network, NetworkStep, appVars, threadVars
<1>44. CASE UNCHANGED vars
  BY <1>44 DEF vars, socketVars, appVars, threadVars
<1> QED BY <1>1, <1>2, <1>3, <1>4, <1>5, <1>6, <1>7, <1>8, <1>9, <1>10, <1>11,
   <1>12, <1>13, <1>14, <1>15, <1>16, <1>17, <1>18, <1>19, <1>20, <1>21, <1>22,
   <1>23, <1>24, <1>25, <1>26, <1>27, <1>28, <1>29, <1>30, <1>31, <1>32, <1>33,
   <1>34, <1>35, <1>36, <1>37, <1>38, <1>39, <1>40, <1>41, <1>42, <1>43, <1>44
   DEF Next, ControlStep, RecoveryStep, HandlerStep, Calling, CallStep, vars

\* A socket that has closed stays closed, and connect alone makes another.
LEMMA ClosedStays ==
  ASSUME IInv, DroppedInv, [Next]_vars, active' # NoSocket
  PROVE  \/ control = "connecting" \/ recovery = "connecting"
         \/ active' = active /\ (wire[active] = "closed" => wire'[active] = "closed")
<1> USE DEF IInv
<1>1. CASE GoLive \/ StopLive \/ ControlStep \/ RecoveryStep
  BY <1>1, ThreadsLeaveCallbacks DEF TypeOK, SocketTypeOK
<1>2. CASE Deliver
  BY <1>2, Delivered
<1>3. CASE HandlerStep
  BY <1>3, HandlerJoinStep DEF HandlerStep, OnOpen, OnClosed, OnError, OnLoss,
     StartRecovery, Spawn, OnAlert, AlertDisconnects, handlerRest
<1>4. CASE Calling
  <2>1. CASE Detach BY <2>1 DEF Detach
  <2>2. CASE Activate BY <2>2 DEF Activate, At, DroppedInv
  <2>3. CASE ConnectBegin \/ Clear \/ Wait \/ KeepWaiting(Cancelled)
             \/ Opened(Cancelled)
    BY <2>3 DEF ConnectBegin, Clear, Wait, KeepWaiting, Opened
  <2> QED BY <1>4, <2>1, <2>2, <2>3 DEF Calling, CallStep
<1>5. CASE GivingUp \/ Refusing \/ UNCHANGED vars
  BY <1>5 DEF GivingUp, GiveUp, Refusing, Refuse, vars, socketVars
<1>6. CASE Network
  BY <1>6 DEF Network, NetworkStep, SocketOpens, SocketCloses,
     ServerRefusesStream, TypeOK, SocketTypeOK
<1> QED BY <1>1, <1>2, <1>3, <1>4, <1>5, <1>6 DEF Next

\* While a stop is about to throw, the socket stays closed and the recovery
\* thread that a callback started makes no attempt.
LEMMA ClashKeeps ==
  ASSUME IInv, LeaseInv, ClosedInv, DroppedInv, StageInv, JoinInv, ClashInv,
         [Next]_vars
  PROVE  ClashInv'
<1> USE DEF IInv
<1>1. handler \in JoinSteps /\ active # NoSocket => wire[active] = "closed"
  BY SocketsAssumption DEF LeaseInv, ClosedInv, LossSteps, JoinSteps, TypeOK,
     SocketTypeOK
<1>2. CASE StopJoins
  <2>1. UNCHANGED <<active, wire, handler>>
    BY <1>2, StopJoinStep DEF socketVars
  <2>2. PICK next \in JoinSteps \cup {"returned", "thrown"} :
          /\ Joins("control", next)
          /\ control' = IF next \in JoinSteps THEN next
                        ELSE IF next = "returned" /\ wasLive THEN "unpublish"
                        ELSE "idle"
    BY <1>2 DEF StopJoins
  <2>3. /\ "control" \in overtaken' => "control" \in overtaken /\ recovery' = recovery
        /\ Doomed("control")' => \/ Doomed("control")
                                 \/ control = "joinThread" /\ recovery = "reaped"
    BY <2>2 DEF Joins, Place, Doomed, Joinable, CanWait, JoinInv, JoinSteps,
       Joiners, TypeOK
  <2>4. recovery = "reaped" /\ control = "joinThread" => handler = "joined"
    BY DEF LockInv
  <2> QED BY <2>1, <2>3, <2>4, <1>1 DEF ClashInv, JoinSteps
<1>3. CASE HandlerJoins
  <2>1. UNCHANGED <<active, wire, control>>
    BY <1>3, HandlerJoinStep DEF handlerRest
  <2>2. \E next : Joins("handler", next)
    BY <1>3 DEF HandlerJoins
  <2>3. "control" \in overtaken' =>
          \/ recovery' = "reaped"
          \/ "control" \in overtaken /\ recovery' \in {recovery, "none"}
    BY <2>2 DEF Joins
  <2>4. handler \in JoinSteps BY <1>3 DEF HandlerJoins
  <2> QED BY <2>1, <2>3, <2>4, <1>1 DEF ClashInv
<1>4. CASE ~StopJoins /\ ~HandlerJoins
  <2>1. "control" \in overtaken' =>
          recovery' \in {"reaped", "none", "loop", "quit", "done"}
    <3> SUFFICES ASSUME "control" \in overtaken', recovery' # recovery
                 PROVE  recovery' \in {"loop", "quit", "done"}
      BY <1>4, OthersMove DEF ClashInv
    <3>1. "control" \in overtaken /\ ~live
      BY <1>4, OthersMove DEF JoinInv, StageInv
    <3>2. CASE RecoveryStep
      BY <3>1, <3>2 DEF ClashInv, RecoveryStep, RecoveryLoop, NotWanted,
         Attempt, AttemptConnect, AttemptConnected, AttemptJoin,
         AttemptPublish, AttemptFails, AttemptOver, RecoveryEnds
    <3>3. CASE ~RecoveryStep
      BY <3>3, <1>4, OthersMove
    <3> QED BY <3>2, <3>3
  <2>2. Doomed("control")' => Doomed("control")
    BY <1>4, OthersMove DEF Doomed, Place, CanWait, JoinSteps
  <2>3. Doomed("control") => control # "connecting" /\ recovery # "connecting"
    BY DEF Doomed, Place, CanWait, JoinInv, ClashInv
  <2> QED BY <2>1, <2>2, <2>3, ClosedStays DEF ClashInv
<1> QED BY <1>2, <1>3, <1>4

\* A stream that was published is served or seen to.
LEMMA ShownKeeps ==
  ASSUME IInv, LeaseInv, ClosedInv, DroppedInv, StageInv, FlagInv, ShownInv,
         [Next]_vars
  PROVE  ShownInv'
<1> USE DEF IInv
<1>1. CASE GoLive
  BY <1>1 DEF GoLive, flags, ShownInv, Announcing
<1>2. CASE StopLive
  BY <1>2 DEF StopLive, StopFlags, ShownInv, Announcing
<1>3. CASE Reset
  BY <1>3 DEF Reset, ShownInv, StageInv, Announcing
<1>4. CASE StartRefused
  BY <1>4 DEF StartRefused, StopFlags, ShownInv, Announcing
<1>5. CASE Connect
  BY <1>5 DEF Connect, socketRest, flags, ShownInv, Served, LossAhead,
     Recovering, Announcing
<1>6. CASE Connecting
  BY <1>6 DEF Connecting, Unlock, StopFlags, socketRest, flags, ShownInv,
     Served, LossAhead, Recovering, Announcing
<1>7. CASE JoinRoom
  BY <1>7 DEF JoinRoom, socketRest, flags, ShownInv, Served, LossAhead,
     Recovering, Announcing
<1>8. CASE PublishStream
  BY <1>8 DEF PublishStream, Publish, CanSend, Same, socketRest, flags,
     ShownInv, Served, LossAhead, Recovering, Announcing, TypeOK, SocketTypeOK
<1>9. CASE Abandon
  BY <1>9 DEF Abandon, Unlock, StopFlags, ShownInv, Announcing
<1>10. CASE ShareLink
  BY <1>10 DEF ShareLink, socketVars, flags, ShownInv, Served, LossAhead,
     Recovering, Announcing
<1>11. CASE Announce
  BY <1>11 DEF Announce, socketVars, ShownInv, Served, LossAhead, Recovering,
     Announcing
<1>12. CASE StopJoins
  BY <1>12, StopJoinStep DEF JoinSteps, flags, ShownInv, StageInv, Announcing
<1>13. CASE Unpublish
  BY <1>13 DEF Unpublish, flags, ShownInv, StageInv, Announcing
<1>14. CASE StopEnds
  BY <1>14 DEF StopEnds, Unlock, socketRest, flags, ShownInv, Served,
     LossAhead, Recovering, Announcing
<1>15. CASE RecoveryLoop
  BY <1>15 DEF RecoveryLoop, NotWanted, LeavesNewStream, socketVars, flags,
     ShownInv, Served, LossAhead, Recovering, StageInv, Announcing
<1>16. CASE Attempt
  BY <1>16 DEF Attempt, ShownInv, Recovering
<1>17. CASE AttemptConnect
  BY <1>17 DEF AttemptConnect, Cancelled, ShownInv, Recovering
<1>18. CASE AttemptConnected
  BY <1>18 DEF AttemptConnected, ShownInv, Recovering
<1>19. CASE AttemptJoin
  BY <1>19 DEF AttemptJoin, ShownInv, Recovering
<1>20. CASE AttemptPublish
  BY <1>20 DEF AttemptPublish, Publish, CanSend, Unlock, ShownInv, Served
<1>21. CASE AttemptFails
  BY <1>21 DEF AttemptFails, ShownInv, Recovering
<1>22. CASE AttemptOver
  BY <1>22 DEF AttemptOver, Unlock, socketRest, ShownInv, Recovering,
     DroppedInv, At
<1>23. CASE RecoveryEnds
  BY <1>23 DEF RecoveryEnds, socketVars, ShownInv, Served, LossAhead,
     Recovering, Announcing
<1>24. CASE Deliver
  <2>1. Has(pending[active], {"closed"}) =>
          Has(pending'[active], {"closed"}) \/ handler' = "closed"
    <3>1. pending'[active] = Tail(pending[active])
      BY <1>24, Delivered DEF TypeOK, SocketTypeOK
    <3> QED BY <3>1, <1>24, Delivered, HasTail
  <2> QED BY <2>1, <1>24, Delivered DEF ShownInv, Served, LossAhead, JoinSteps,
     Recovering, Announcing
<1>25. CASE OnOpen
  BY <1>25 DEF OnOpen, handlerRest, flags, ShownInv, Served, LossAhead,
     JoinSteps, Recovering, Announcing
<1>26. CASE OnClosed
  BY <1>26 DEF OnClosed, Return, Then, handlerRest, flags, ShownInv, Served,
     LossAhead, JoinSteps, Recovering, Announcing
<1>27. CASE OnError
  BY <1>27 DEF OnError, handlerRest, flags, ShownInv, Served, LossAhead,
     JoinSteps, Recovering, Announcing
<1>28. CASE OnLoss
  BY <1>28 DEF OnLoss, Return, Then, IgnoresLoss, NotWanted, handlerRest,
     flags, ShownInv, Served, LossAhead, JoinSteps, Recovering, StageInv,
     Announcing
<1>29. CASE StartRecovery
  BY <1>29 DEF StartRecovery, Return, Then, Ending, handlerRest, ShownInv,
     Served, LossAhead, Recovering, Announcing, FlagInv, InSession, Starting,
     Running, JoinSteps, TypeOK, RecoverySteps
<1>30. CASE HandlerJoins
  BY <1>30, HandlerJoinStep DEF handlerRest, flags, ShownInv, Served,
     LossAhead, Recovering, Announcing, FlagInv, JoinSteps
<1>31. CASE Spawn
  BY <1>31 DEF Spawn, handlerRest, flags, ShownInv, Served, LossAhead,
     JoinSteps, Recovering, Announcing, ThreadIsJoinedBeforeSpawn
<1>32. CASE OnAlert
  BY <1>32 DEF OnAlert, Then, Starting, handlerRest, ShownInv, LossAhead,
     JoinSteps, Announcing
<1>33. CASE AlertDisconnects
  BY <1>33 DEF AlertDisconnects, Unlock, flags, ShownInv, Served, LossAhead,
     JoinSteps, Recovering, Announcing
<1>34. CASE ConnectBegin /\ UNCHANGED threadVars
  BY <1>34 DEF ConnectBegin, appVars, threadVars, ShownInv, Served, LossAhead,
     Recovering, Announcing
<1>35. CASE Detach /\ UNCHANGED threadVars
  <2>1. opsMutex # Free /\ UNCHANGED <<control, recovery, handler, live, missed>>
    BY <1>35 DEF Detach, appVars, threadVars, flags, LockInv, At
  <2>2. opsMutex = "control" => ~live /\ ~Announcing
    BY DEF LockInv, StageInv, Announcing
  <2>3. opsMutex = "recovery" => Recovering'
    BY <2>1, <1>35 DEF LockInv, Recovering
  <2>4. opsMutex = "handler" => handler = "disconnecting" BY DEF LockInv
  <2> QED BY <2>1, <2>2, <2>3, <2>4
    DEF ShownInv, StageInv, Established, Announcing, TypeOK, Threads
<1>36. CASE Clear /\ UNCHANGED threadVars
  BY <1>36 DEF Clear, appVars, threadVars, ShownInv, Served, LossAhead,
     Recovering, DroppedInv, Announcing, At
<1>37. CASE Activate /\ UNCHANGED threadVars
  <2>1. opsMutex # Free /\ UNCHANGED <<control, recovery, handler, live, missed, opsMutex>>
    BY <1>37 DEF Activate, appVars, threadVars, flags, LockInv, At
  <2>2. opsMutex = "control" => ~live /\ ~Announcing
    BY DEF LockInv, StageInv, Announcing
  <2>3. opsMutex = "recovery" => Recovering'
    BY <2>1, <1>37 DEF LockInv, Recovering
  <2>4. opsMutex # "handler" BY <1>37 DEF LockInv, DroppedInv, Activate, At
  <2> QED BY <2>1, <2>2, <2>3, <2>4 DEF ShownInv, Announcing, TypeOK, Threads
<1>38. CASE Wait /\ UNCHANGED threadVars
  BY <1>38 DEF Wait, appVars, threadVars, ShownInv, Served, LossAhead,
     Recovering, Announcing
<1>39. CASE KeepWaiting(Cancelled) /\ UNCHANGED threadVars
  BY <1>39 DEF KeepWaiting, appVars, threadVars, ShownInv, Served, LossAhead,
     Recovering, Announcing
<1>40. CASE Opened(Cancelled) /\ UNCHANGED threadVars
  BY <1>40 DEF Opened, appVars, threadVars, ShownInv, Served, LossAhead,
     Recovering, Announcing
<1>41. CASE GivingUp
  BY <1>41 DEF GivingUp, GiveUp, appVars, threadVars, ShownInv, Served,
     LossAhead, Recovering, Announcing
<1>42. CASE Refusing
  BY <1>42 DEF Refusing, Refuse, Admissible, appVars, threadVars, ShownInv,
     Served, LossAhead, Recovering, Announcing
<1>43. CASE Network
  <2>1. PICK s \in Sockets : SocketOpens(s) \/ SocketCloses(s) \/ ServerRefusesStream(s)
    BY <1>43 DEF Network, NetworkStep
  <2>2. pending[s] \in Seq(Kinds) /\ s = active /\ active # NoSocket
        /\ wire \in [Sockets -> Wires] /\ pending \in [Sockets -> Seq(Kinds)]
        /\ UNCHANGED <<active, callback, handler, live, missed, control, recovery,
                       connected, published>>
    BY <1>43, <2>1, SocketsAssumption DEF TypeOK, SocketTypeOK, Network,
       NetworkStep, appVars, threadVars, flags, SocketOpens, SocketCloses,
       ServerRefusesStream
  <2>3. CASE SocketOpens(s) \/ ServerRefusesStream(s)
    <3>1. ~Has(pending[s], {"closed"})
      BY <2>2, <2>3 DEF ClosedInv, Has, Losses, SocketOpens,
         ServerRefusesStream
    <3>2. Served => Served'
      BY <2>2, <2>3 DEF Served, SocketOpens, ServerRefusesStream
    <3> QED BY <2>2, <3>1, <3>2 DEF ShownInv, LossAhead, Recovering, Announcing
  <2>4. CASE SocketCloses(s)
    <3>1. Has(pending'[s], {"closed"})
      <4>1. /\ <<"closed">> \in Seq(Kinds) /\ <<"error", "closed">> \in Seq(Kinds)
            /\ 1 \in DOMAIN <<"closed">> /\ 2 \in DOMAIN <<"error", "closed">>
        BY DEF Kinds
      <4>2. \E r \in {<<"closed">>, <<"error", "closed">>} :
              pending'[s] = pending[s] \o r
        BY <2>2, <2>4 DEF SocketCloses
      <4>3. Has(pending[s] \o <<"closed">>, {"closed"})
        BY <2>2, <4>1, HasReport
      <4>4. Has(pending[s] \o <<"error", "closed">>, {"closed"})
        BY <2>2, <4>1, HasReport
      <4> QED BY <4>2, <4>3, <4>4
    <3> QED BY <2>2, <3>1 DEF ShownInv, LossAhead
  <2> QED BY <2>1, <2>3, <2>4
<1>44. CASE UNCHANGED vars
  BY <1>44 DEF vars, socketVars, appVars, threadVars, flags, ShownInv, Served,
     LossAhead, Recovering, Announcing, ThreadIsJoinedBeforeSpawn, At
<1> QED BY <1>1, <1>2, <1>3, <1>4, <1>5, <1>6, <1>7, <1>8, <1>9, <1>10, <1>11,
   <1>12, <1>13, <1>14, <1>15, <1>16, <1>17, <1>18, <1>19, <1>20, <1>21, <1>22,
   <1>23, <1>24, <1>25, <1>26, <1>27, <1>28, <1>29, <1>30, <1>31, <1>32, <1>33,
   <1>34, <1>35, <1>36, <1>37, <1>38, <1>39, <1>40, <1>41, <1>42, <1>43, <1>44
   DEF Next, ControlStep, RecoveryStep, HandlerStep, Calling, CallStep, vars

\* Without a live stream, whoever has a socket drops it.
LEMMA OfflineKeeps ==
  ASSUME IInv, LeaseInv, DroppedInv, StageInv, ClashInv, OfflineInv,
         [Next]_vars
  PROVE  OfflineInv'
<1> USE DEF IInv
<1>1. CASE GoLive
  BY <1>1 DEF GoLive, socketVars, OfflineInv, Dropping, JoinSteps, At
<1>2. CASE StopLive
  BY <1>2 DEF StopLive, StopFlags, socketVars, OfflineInv, Dropping, JoinSteps,
     At
<1>3. CASE Reset
  BY <1>3 DEF Reset, socketVars, OfflineInv, Dropping, JoinSteps, At
<1>4. CASE StartRefused
  BY <1>4 DEF StartRefused, StopFlags, socketVars, OfflineInv, Dropping,
     JoinSteps, At
<1>5. CASE Connect
  BY <1>5 DEF Connect, socketRest, flags, OfflineInv, Dropping, JoinSteps, At
<1>6. CASE Connecting
  BY <1>6 DEF Connecting, Unlock, Goto, StopFlags, socketRest, OfflineInv,
     Dropping, JoinSteps, At
<1>7. CASE JoinRoom
  BY <1>7 DEF JoinRoom, OfflineInv, Dropping, JoinSteps
<1>8. CASE PublishStream
  BY <1>8 DEF PublishStream, OfflineInv, Dropping, JoinSteps
<1>9. CASE Abandon
  BY <1>9 DEF Abandon, Unlock, StopFlags, socketRest, OfflineInv, DroppedInv,
     At
<1>10. CASE ShareLink
  BY <1>10 DEF ShareLink, OfflineInv, Dropping, JoinSteps
<1>11. CASE Announce
  BY <1>11 DEF Announce, OfflineInv
<1>12. CASE StopJoins
  BY <1>12, StopJoinStep DEF JoinSteps, socketVars, flags, OfflineInv,
     Dropping, ClashInv, At
<1>13. CASE Unpublish
  BY <1>13 DEF Unpublish, OfflineInv, Dropping, JoinSteps
<1>14. CASE StopEnds
  BY <1>14 DEF StopEnds, Unlock, socketRest, OfflineInv, DroppedInv, At
<1>15. CASE RecoveryLoop
  BY <1>15 DEF RecoveryLoop, LeavesNewStream, socketVars, flags, OfflineInv,
     Dropping, JoinSteps
<1>16. CASE Attempt
  BY <1>16 DEF Attempt, OfflineInv, Dropping, JoinSteps
<1>17. CASE AttemptConnect
  BY <1>17 DEF AttemptConnect, Cancelled, Goto, OfflineInv, Dropping,
     JoinSteps, At
<1>18. CASE AttemptConnected
  BY <1>18 DEF AttemptConnected, socketVars, flags, OfflineInv, Dropping,
     JoinSteps
<1>19. CASE AttemptJoin
  BY <1>19 DEF AttemptJoin, socketVars, flags, OfflineInv, Dropping, JoinSteps
<1>20. CASE AttemptPublish
  BY <1>20 DEF AttemptPublish, Publish, CanSend, Unlock, Goto, flags,
     OfflineInv, Dropping, JoinSteps
<1>21. CASE AttemptFails
  BY <1>21 DEF AttemptFails, OfflineInv, Dropping, JoinSteps
<1>22. CASE AttemptOver
  BY <1>22 DEF AttemptOver, Unlock, socketRest, OfflineInv, DroppedInv, At
<1>23. CASE RecoveryEnds
  BY <1>23 DEF RecoveryEnds, socketVars, OfflineInv, Dropping, JoinSteps
<1>24. CASE Deliver
  BY <1>24, Delivered DEF OfflineInv, Dropping, JoinSteps, At, Kinds
<1>25. CASE OnOpen
  BY <1>25 DEF OnOpen, handlerRest, flags, OfflineInv, Dropping, JoinSteps, At
<1>26. CASE OnClosed
  BY <1>26 DEF OnClosed, handlerRest, flags, OfflineInv, Dropping, JoinSteps,
     At
<1>27. CASE OnError
  BY <1>27 DEF OnError, handlerRest, flags, OfflineInv, Dropping, JoinSteps, At
<1>28. CASE OnLoss
  BY <1>28 DEF OnLoss, IgnoresLoss, handlerRest, flags, OfflineInv, Dropping,
     JoinSteps, At
<1>29. CASE StartRecovery
  BY <1>29 DEF StartRecovery, handlerRest, OfflineInv, Dropping, JoinSteps, At
<1>30. CASE HandlerJoins
  BY <1>30, HandlerJoinStep DEF JoinSteps, At, handlerRest, flags, OfflineInv,
     Dropping
<1>31. CASE Spawn
  BY <1>31 DEF Spawn, handlerRest, flags, OfflineInv, Dropping, JoinSteps,
     ThreadIsJoinedBeforeSpawn
<1>32. CASE OnAlert
  BY <1>32 DEF OnAlert, Then, Starting, handlerRest, OfflineInv, Dropping,
     JoinSteps, At
<1>33. CASE AlertDisconnects
  BY <1>33 DEF AlertDisconnects, Unlock, Return, Then, OfflineInv, Dropping,
     JoinSteps, DroppedInv, At
<1>34. CASE ConnectBegin /\ Calling
  <2>1. UNCHANGED <<active, wire, live>> /\ (cutShort => cutShort')
    BY <1>34 DEF ConnectBegin, Calling, threadVars, At
  <2>2. Dropping => Dropping'
    BY <1>34 DEF ConnectBegin, DetachThen, Goto, Calling, threadVars, Dropping,
       At
  <2> QED BY <2>1, <2>2 DEF OfflineInv
<1>35. CASE Detach /\ Calling
  BY <1>35 DEF Detach, Calling, threadVars, OfflineInv
<1>36. CASE Clear /\ Calling
  BY <1>36 DEF Clear, Calling, threadVars, OfflineInv, DroppedInv, At
<1>37. CASE Activate /\ Calling
  <2>1. control = "connecting" \/ recovery = "connecting"
    BY <1>37 DEF Activate, At, DroppedInv
  <2>2. CASE Goto("failed") /\ UNCHANGED active
    BY <1>37, <2>2 DEF Activate, At, Calling, threadVars, OfflineInv,
       DroppedInv
  <2>3. CASE Goto("wait")
    BY <1>37, <2>1, <2>3 DEF Goto, At, Calling, threadVars, OfflineInv,
       Dropping, JoinSteps
  <2> QED BY <1>37, <2>2, <2>3 DEF Activate
<1>38. CASE Wait /\ Calling
  BY <1>38 DEF Wait, Goto, Calling, threadVars, OfflineInv, Dropping,
     JoinSteps, At
<1>39. CASE KeepWaiting(Cancelled) /\ Calling
  BY <1>39 DEF KeepWaiting, Goto, Calling, threadVars, OfflineInv, Dropping,
     JoinSteps, At
<1>40. CASE Opened(Cancelled) /\ Calling
  <2>1. UNCHANGED <<active, wire, live>> /\ (cutShort => cutShort')
    BY <1>40 DEF Opened, Calling, threadVars, At
  <2>2. Dropping /\ ~live => Dropping'
    BY <1>40 DEF Opened, DetachThen, Goto, Calling, threadVars, Dropping, At,
       LockInv, Cancelled, NotWanted
  <2> QED BY <2>1, <2>2 DEF OfflineInv
<1>41. CASE GivingUp
  BY <1>41 DEF GivingUp, GiveUp, DetachThen, appVars, threadVars, OfflineInv,
     Dropping, JoinSteps, At
<1>42. CASE Refusing
  BY <1>42 DEF Refusing, Refuse, appVars, threadVars, OfflineInv, Dropping,
     JoinSteps, At
<1>43. CASE Network
  BY <1>43 DEF Network, NetworkStep, SocketOpens, SocketCloses,
     ServerRefusesStream, appVars, threadVars, OfflineInv, Dropping, JoinSteps,
     At
<1>44. CASE UNCHANGED vars
  BY <1>44 DEF vars, socketVars, appVars, threadVars, flags, OfflineInv,
     Dropping, JoinSteps, At
<1> QED BY <1>1, <1>2, <1>3, <1>4, <1>5, <1>6, <1>7, <1>8, <1>9, <1>10, <1>11,
   <1>12, <1>13, <1>14, <1>15, <1>16, <1>17, <1>18, <1>19, <1>20, <1>21, <1>22,
   <1>23, <1>24, <1>25, <1>26, <1>27, <1>28, <1>29, <1>30, <1>31, <1>32, <1>33,
   <1>34, <1>35, <1>36, <1>37, <1>38, <1>39, <1>40, <1>41, <1>42, <1>43, <1>44
   DEF Next, ControlStep, RecoveryStep, HandlerStep, Calling, CallStep, vars

LEMMA RestInvariant == Spec => []RestInv
<1>1. Init => RestInv
  BY DEF Init, SocketInit, RestInv, StageInv, Established, LeaseInv, ClosedInv,
     Has, DroppedInv, ShownInv, Announcing, OfflineInv, At, JoinInv, CanWait,
     FlagInv, InSession, Starting, Doomed, Place, ClashInv
<1>2. IInv /\ RestInv /\ [Next]_vars => RestInv'
  BY LeaseKeeps, ClosedKeeps, DroppedKeeps, StageKeeps, JoinKeeps, FlagKeeps,
     ClashKeeps, ShownKeeps, OfflineKeeps
  DEF RestInv
<1> QED BY <1>1, <1>2, Invariance, PTL DEF Spec

\* Callbacks, publications and threads keep what they stand on, with a join
\* that takes its steps in between those of the other joiner and may throw: a
\* callback admitted by acquire holds a socket, a published stream has one, no
\* thread is started over another, and in a live stream reconnecting_ has a
\* thread or a callback behind it (versus_app.cpp 7253 to 7345).
THEOREM OwnersTheorem == Spec => []OwnersKeepWhatTheyUse
<1>1. IInv /\ RestInv => OwnersKeepWhatTheyUse
  BY DEF IInv, RestInv, FlagInv, InSession, Starting, Announcing,
     OwnersKeepWhatTheyUse, FlagHasItsThread
<1> QED BY <1>1, Invariance, RestInvariant, PTL

\* Whatever came before, a lifecycle that has come to rest serves its stream
\* or has nothing left on the server, except after the four losses nobody
\* acts on, and after a stop that threw in its join, which may leave the
\* socket of a connection that is down (versus_app.cpp 1309 to 1560, 3326 to
\* 3369, 7253 to 7345).
THEOREM RestTheorem == Spec => []RestIsConsistent
<1>1. IInv /\ RestInv => RestIsConsistent
  <2> SUFFICES ASSUME IInv, RestInv, Quiet PROVE RestIsConsistent
    BY DEF RestIsConsistent, LiveIsServedUnlessMissed, StoppedIsOffline
  <2>1. At("idle") BY DEF Quiet, IInv, LockInv
  <2>2. live /\ missed = {} => Served
    <3>1. active # NoSocket => ~Has(pending[active], {"closed"})
      <4>1. DOMAIN <<>> = {} OBVIOUS
      <4> QED BY <4>1 DEF Quiet, Has
    <3> QED BY <3>1 DEF RestInv, ShownInv, LossAhead, Recovering, Quiet,
       JoinSteps
  <2>3. ~live => active = NoSocket \/ (cutShort /\ wire[active] = "closed")
    BY <2>1 DEF RestInv, OfflineInv, Dropping, Quiet, JoinSteps
  <2>4. active = NoSocket => ~published
    BY <2>1 DEF IInv, PublishedHasSocket, At
  <2> QED BY <2>2, <2>3, <2>4 DEF RestIsConsistent, LiveIsServedUnlessMissed,
     StoppedIsOffline
<1> QED BY <1>1, Invariance, RestInvariant, PTL
=============================================================================
