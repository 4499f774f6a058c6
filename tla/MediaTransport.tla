--------------------------- MODULE MediaTransport ---------------------------
(***************************************************************************)
(* The way of a video frame through one transport: sendVideo gives its     *)
(* packets to the retransmission cache (VideoRecovery) and then to the     *)
(* pacer, whose own thread spreads them over time and hands them to the    *)
(* peer connection, until the transport is closed by a reset, a shutdown   *)
(* or its last owner.                                                      *)
(*                                                                         *)
(* The schedule of the pacer counts in the units of time of VideoRecovery; *)
(* a packet takes as many units as it has bytes.  The pacer's mutex is     *)
(* held by the sender while it paces a frame; every other step that needs  *)
(* it is one action.                                                       *)
(***************************************************************************)
EXTENDS VideoRecovery

CONSTANTS
    Frames,        \* a frame is the sequence of the sizes of its packets
    MaxFrames,     \* bound: frames sent
    MaxQueued,     \* bytes the pacer queues (8 MiB)
    MaxAhead       \* how far its schedule runs ahead (750 ms)

ASSUME PacerAssumption ==
    /\ Frames \subseteq Seq(Nat) \ {<<>>} /\ MaxFrames \in Nat
    /\ MaxQueued \in Nat /\ MaxAhead \in Nat

VARIABLES
    sender,     \* sendVideo: where it is, and the packets left
    frames,     \* frames sent (bound)
    queue,      \* the pacer's queue_
    next,       \* next_
    failed, stopped,
    thread,     \* the pacer's thread
    closer,     \* TransportState::close
    wire,       \* history: packets the pacer handed to the transport
    paced       \* history: packets the pacer accepted

pacerVars == <<queue, next, failed, stopped, thread, wire, paced>>
transportVars == <<sender, frames, pacerVars, closer>>
vars == <<recoveryVars, transportVars>>

Rests == [at |-> "idle"]
PacerIsFree == sender.at # "pace"

Init ==
    /\ RecoveryInit
    /\ sender = Rests /\ frames = 0
    /\ queue = <<>> /\ next = 0 /\ failed = FALSE /\ stopped = FALSE
    /\ thread = [at |-> "loop"]
    /\ closer = "open"
    /\ wire = <<>> /\ paced = 0

---------------------------------------------------------------------------
(* sendVideo, under videoSendMutex.  A failed pacer refuses frames; so     *)
(* does a closed transport, which is no longer the current one.            *)
SendVideo(f) ==
    /\ sender = Rests /\ closer = "open" /\ ~failed
    /\ frames < MaxFrames /\ frames' = frames + 1
    /\ sender' = [at |-> "cache", first |-> cached + 1, sizes |-> f, left |-> f]
    /\ UNCHANGED <<recoveryVars, pacerVars, closer>>

(* The packets of the frame go to the cache one by one, then all to the    *)
(* pacer, whose mutex no other step needs to share with the cache.         *)
CacheNext ==
    /\ sender.at = "cache"
    /\ CachePacket(Head(sender.left))
    /\ sender' = IF Len(sender.left) = 1
                 THEN [sender EXCEPT !.at = "pace", !.left = sender.sizes]
                 ELSE [sender EXCEPT !.left = Tail(@)]
    /\ UNCHANGED <<frames, pacerVars, closer>>

QueuedBytes == FoldFunction(LAMBDA e, sum : e.size + sum, 0, queue)

(* Too much is queued, or the schedule runs too far ahead.                 *)
Overrun(size, start) ==
    QueuedBytes + size > MaxQueued \/ start - now > MaxAhead

(* outgoing of the pacer, for the next packet of the frame.                *)
PaceNext ==
    LET size == Head(sender.left)
        start == Max({next, now})
        packet == sender.first + Len(sender.sizes) - Len(sender.left)
    IN /\ sender.at = "pace"
       /\ sender' = IF Len(sender.left) = 1 \/ failed \/ stopped \/ Overrun(size, start)
                    THEN Rests ELSE [sender EXCEPT !.left = Tail(@)]
       /\ IF stopped \/ failed THEN UNCHANGED pacerVars
          ELSE IF Overrun(size, start)
               THEN /\ failed' = TRUE /\ queue' = <<>> /\ next' = start
                    /\ UNCHANGED <<stopped, thread, wire, paced>>
               ELSE /\ queue' = Append(queue, [packet |-> packet, size |-> size,
                                               due |-> start])
                    /\ next' = start + size /\ paced' = paced + 1
                    /\ UNCHANGED <<failed, stopped, thread, wire>>
       /\ UNCHANGED <<recoveryVars, frames, closer>>

---------------------------------------------------------------------------
(* run: the pacer's thread.  It waits for a packet, or for the time of the *)
(* first one; a stop wakes it from either.                                 *)

MayTake ==
    /\ thread.at = "loop" /\ PacerIsFree
    /\ ~stopped /\ queue # <<>> /\ Head(queue).due <= now

TakePacket ==
    /\ MayTake
    /\ thread' = [at |-> "send", packet |-> Head(queue).packet]
    /\ queue' = Tail(queue)
    /\ UNCHANGED <<recoveryVars, sender, frames, next, failed, stopped, wire,
                   paced, closer>>

(* The packet is sent with the mutex free; an exception fails the pacer.   *)
SendPacket ==
    /\ thread.at = "send"
    /\ \/ wire' = Append(wire, thread.packet) /\ UNCHANGED failed
       \/ failed' = TRUE /\ UNCHANGED wire
    /\ thread' = [at |-> "lock"]
    /\ UNCHANGED <<recoveryVars, sender, frames, queue, next, stopped, paced, closer>>

\* Mutant of QueueAfterSend: what was queued before a failure is still sent.
QueueAfterSendMutant == queue

(* A pacer that failed sends nothing more.                                 *)
QueueAfterSend == IF failed THEN <<>> ELSE queue

MayLockAgain == thread.at = "lock" /\ PacerIsFree

LockAgain ==
    /\ MayLockAgain
    /\ queue' = QueueAfterSend
    /\ thread' = [at |-> "loop"]
    /\ UNCHANGED <<recoveryVars, sender, frames, next, failed, stopped, wire,
                   paced, closer>>

\* Mutant of Leaves: the thread looks at the stop only with a packet queued.
LeavesMutant == stopped /\ queue # <<>>

Leaves == stopped

MayEnd == thread.at = "loop" /\ PacerIsFree /\ Leaves

ThreadEnds ==
    /\ MayEnd
    /\ thread' = [at |-> "ended"]
    /\ UNCHANGED <<recoveryVars, sender, frames, queue, next, failed, stopped,
                   wire, paced, closer>>

---------------------------------------------------------------------------
(* close: the pacer is stopped and its thread joined, then the tracks, the *)
(* channel and the peer connection lose their callbacks and are closed.    *)

StopPacer ==
    /\ closer = "open" /\ PacerIsFree
    /\ stopped' = TRUE /\ queue' = <<>>
    /\ closer' = "join"
    /\ UNCHANGED <<recoveryVars, sender, frames, next, failed, thread, wire, paced>>

\* Mutant of Joined: the thread is not waited for.
JoinedMutant == TRUE

Joined == thread.at = "ended"

CloseConnection ==
    /\ closer = "join" /\ Joined
    /\ closer' = "closed"
    /\ UNCHANGED <<recoveryVars, sender, frames, pacerVars>>

---------------------------------------------------------------------------
Recovers(A) == A /\ UNCHANGED transportVars

Send == (\E f \in Frames : SendVideo(f)) \/ CacheNext \/ PaceNext
Pace == TakePacket \/ SendPacket \/ LockAgain \/ ThreadEnds

(* Pace can take a step: one of its actions finds its guard true.          *)
PacerRuns == MayTake \/ thread.at = "send" \/ MayLockAgain \/ MayEnd

Next ==
    \/ Send \/ Pace \/ StopPacer \/ CloseConnection
    \/ Recovers(Negotiate) \/ Recovers(Tick)
    \/ \E h \in Handlers :
          \/ \E r \in Reports : Recovers(Report(h, r))
          \/ Recovers(HandleReport(h))

Spec == Init /\ [][Next]_vars

---------------------------------------------------------------------------
(* Properties.                                                             *)

(* What the pacer's thread hands to the peer connection is a gapless       *)
(* beginning of what the pacer accepted: a failure, of a send or of the    *)
(* schedule, ends the stream and never leaves a hole in it                 *)
(* (video_pacer.h 27 to 51).                                               *)
PacedWithoutGaps == wire = [i \in 1 .. Len(wire) |-> i] /\ Len(wire) <= paced

(* A close waits for the pacer's thread, which must never wait itself:     *)
(* while it joins, the thread has ended, can go on, or waits for the       *)
(* sender to leave the pacer; and once the peer connection is closed, the  *)
(* thread is not about to send to it (video_pacer.h 24, 39 to 52;          *)
(* webrtc_client.cpp 225).                                                 *)
CloseIsClean ==
    /\ closer = "join" => Joined \/ PacerRuns \/ ~PacerIsFree
    /\ closer = "closed" => thread.at # "send"
=============================================================================
