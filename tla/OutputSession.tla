------------------------------ MODULE OutputSession ------------------------------
(***************************************************************************)
(* output::Session: the worker that publishes to one destination, over WHIP*)
(* or through an FFmpeg muxer, and the bounded queue the capture threads   *)
(* append to.  A stalled destination empties the queue and makes the worker*)
(* reconnect; an attempt that fails is repeated after a pause; a permanent *)
(* error ends the worker.                                                  *)
(*                                                                         *)
(* The video packets are numbered as they are pushed, and a packet's number*)
(* is its time.  An audio packet covers AudioLength of that time from its  *)
(* own.  The destination, its server and FFmpeg are external: an attempt   *)
(* may fail wherever the code looks at them.  Time limits are faults.      *)
(***************************************************************************)
EXTENDS Integers, Sequences, FiniteSetsExt

CONSTANTS
  MaxQueued,     \* packets the queue holds (its limits of bytes and of age)
  AudioLength,   \* what an audio packet covers
  CatchUp,       \* silence written at most for one gap (1 s)
  MaxPackets,    \* video packets explored
  MaxFaults      \* failures of the destination explored

ASSUME OutputAssumption ==
  /\ MaxQueued \in Nat \ {0} /\ AudioLength \in Nat \ {0}
  /\ CatchUp \in Nat \ {0} /\ MaxPackets \in Nat /\ MaxFaults \in Nat

VARIABLES
  protocol,   \* config.protocol: "whip" or "mux", one of those through FFmpeg
  stopping, restartRequested, queue,
  state,      \* current.state
  owner,      \* the thread that starts and stops the session
  offered,    \* per kind of media, the packet of a push that saw no stop
  clock,      \* video packets pushed so far
  audioClock, \* the end of the audio pushed so far
  worker,     \* the worker: where it is, and the attempt's local variables
  stream,     \* history: what the attempt sent last
  faults

vars == <<protocol, stopping, restartRequested, queue, state, owner, offered,
          clock, audioClock, worker, stream, faults>>
capture == <<offered, clock, audioClock>>

None == [kind |-> "none", pts |-> 0, key |-> FALSE, size |-> 0]

IdleWorker == [pc |-> "none", packet |-> None, initial |-> <<>>,
               size |-> 0, audioEnd |-> 0, silence |-> 0, keyed |-> FALSE,
               retried |-> FALSE, fresh |-> FALSE]

\* The last video packet sent on a connection, and whether it was a keyframe;
\* the start of the last audio written (audio turns at each), and the ends of
\* all audio and of the silence.
NothingSent == [video |-> 0, key |-> FALSE,
                audio |-> FALSE, from |-> 0, heard |-> 0, silent |-> 0]

Init ==
  /\ protocol \in {"whip", "mux"}
  /\ stopping = TRUE /\ restartRequested = FALSE /\ queue = <<>>
  /\ state = "Stopped" /\ owner = "new"
  /\ offered = [k \in {"video", "audio"} |-> None]
  /\ clock = 0 /\ audioClock = 0
  /\ worker = IdleWorker /\ stream = NothingSent /\ faults = 0

At(l) == worker.pc = l
Goto(l) == worker' = [worker EXCEPT !.pc = l]
Fault == faults < MaxFaults /\ faults' = faults + 1

---------------------------------------------------------------------------
(* The owner.                                                              *)

Start ==
  /\ owner = "new" /\ owner' = "started"
  /\ stopping' = FALSE
  /\ state' = "Connecting"
  /\ Goto("loop")
  /\ UNCHANGED <<protocol, restartRequested, queue, capture, stream, faults>>

Stop ==
  /\ owner = "started" /\ owner' = "joining"
  /\ stopping' = TRUE
  /\ UNCHANGED <<protocol, restartRequested, queue, state, capture, worker,
                 stream, faults>>

Join ==
  /\ owner = "joining" /\ At("ended")
  /\ owner' = "stopped"
  /\ UNCHANGED <<protocol, stopping, restartRequested, queue, state, capture,
                 worker, stream, faults>>

---------------------------------------------------------------------------
(* The capture threads: push looks at stopping first, and then locks.      *)

OfferVideo ==
  /\ ~stopping /\ offered["video"] = None /\ clock < MaxPackets
  /\ clock' = clock + 1
  /\ \E key \in BOOLEAN, size \in {1, 2} :
       /\ size = 2 => key /\ protocol = "mux"
       /\ offered' = [offered EXCEPT !["video"] =
            [kind |-> "video", pts |-> clock', key |-> key, size |-> size]]
  /\ UNCHANGED <<protocol, stopping, restartRequested, queue, state, owner,
                 audioClock, worker, stream, faults>>

\* Audio comes with the video of its time, or later.  WHIP sends it as it is.
OfferAudio ==
  /\ ~stopping /\ offered["audio"] = None
  /\ \E pts \in audioClock..clock :
       /\ protocol = "whip" => pts = audioClock
       /\ offered' = [offered EXCEPT !["audio"] =
            [None EXCEPT !.kind = "audio", !.pts = pts]]
       /\ audioClock' = pts + AudioLength
  /\ UNCHANGED <<protocol, stopping, restartRequested, queue, state, owner,
                 clock, worker, stream, faults>>

Push ==
  /\ \E k \in {"video", "audio"} :
       /\ offered[k] # None
       /\ offered' = [offered EXCEPT ![k] = None]
       /\ \/ /\ state = "Error"
             /\ UNCHANGED <<queue, restartRequested>>
          \/ /\ state # "Error" /\ Len(queue) >= MaxQueued
             /\ queue' = <<>> /\ restartRequested' = TRUE
          \/ /\ state # "Error" /\ Len(queue) < MaxQueued
             /\ queue' = Append(queue, offered[k])
             /\ UNCHANGED restartRequested
  /\ UNCHANGED <<protocol, stopping, state, owner, clock, audioClock, worker,
                 stream, faults>>

---------------------------------------------------------------------------
(* run: the loop over the attempts.                                        *)

LoopClears ==
  /\ At("loop") /\ ~stopping
  /\ queue' = <<>>
  /\ Goto("arm")
  /\ UNCHANGED <<protocol, stopping, restartRequested, state, owner, capture,
                 stream, faults>>

LoopArms ==
  /\ At("arm")
  /\ restartRequested' = FALSE
  /\ state' = IF worker.retried THEN "Reconnecting" ELSE "Connecting"
  /\ stream' = NothingSent
  /\ worker' = [worker EXCEPT !.pc = IF protocol = "whip" THEN "negotiate"
                                     ELSE "keyframe",
                  !.initial = <<>>, !.keyed = FALSE, !.packet = None]
  /\ UNCHANGED <<protocol, stopping, queue, owner, capture, faults>>

\* The attempt throws: stopped, it ends; after a permanent error so does the
\* worker; otherwise there is a next attempt.
Throw(kind) ==
  worker' = [worker EXCEPT !.fresh = (kind = "fresh"),
               !.pc = IF stopping THEN "finish"
                      ELSE IF kind = "permanent" THEN "error" ELSE "retry"]

EndsInError ==
  /\ At("error")
  /\ state' = "Error" /\ Goto("errorClears")
  /\ UNCHANGED <<protocol, stopping, restartRequested, queue, owner, capture,
                 stream, faults>>

ErrorClears ==
  /\ At("errorClears")
  /\ queue' = <<>> /\ Goto("ended")
  /\ UNCHANGED <<protocol, stopping, restartRequested, state, owner, capture,
                 stream, faults>>

Retry ==
  /\ At("retry")
  /\ state' = "Reconnecting"
  /\ queue' = IF stopping THEN queue ELSE <<>>
  /\ worker' = [worker EXCEPT !.retried = TRUE,
                  !.pc = IF stopping THEN "finish" ELSE "pause"]
  /\ UNCHANGED <<protocol, stopping, restartRequested, owner, capture, stream,
                 faults>>

\* The pause is over, or the session is stopped.
Pause ==
  /\ At("pause")
  /\ Goto(IF stopping THEN "finish" ELSE "loop")
  /\ UNCHANGED <<protocol, stopping, restartRequested, queue, state, owner,
                 capture, stream, faults>>

LoopEnds ==
  /\ At("loop") /\ stopping
  /\ Goto("finish")
  /\ UNCHANGED <<protocol, stopping, restartRequested, queue, state, owner,
                 capture, stream, faults>>

Finish ==
  /\ At("finish")
  /\ queue' = <<>> /\ state' = "Stopped"
  /\ Goto("ended")
  /\ UNCHANGED <<protocol, stopping, restartRequested, owner, capture, stream,
                 faults>>

---------------------------------------------------------------------------
(* pop.                                                                    *)

\* Mutant of Pops: a packet is taken whatever was asked for.
PopsMutant == ~stopping /\ queue # <<>>

\* A packet is taken: none when the session stops, and a request to restart
\* makes the attempt throw.
Pops == ~stopping /\ ~restartRequested /\ queue # <<>>

Stalls == ~stopping /\ restartRequested

\* Mutant of Interrupted: the wait for a keyframe goes on.
InterruptedMutant(l) == stopping /\ l # "keyframe"

\* The attempt notices the stop where it waits.
Interrupted(l) == stopping

Waits == {"negotiate", "keyframe", "send"}

StopsAttempt ==
  /\ \E l \in Waits : At(l) /\ Interrupted(l)
  /\ Goto("finish")
  /\ UNCHANGED <<protocol, stopping, restartRequested, queue, state, owner,
                 capture, stream, faults>>

Stalled ==
  /\ worker.pc \in {"keyframe", "send"} /\ Stalls
  /\ Throw("transient")
  /\ UNCHANGED <<protocol, stopping, restartRequested, queue, state, owner,
                 capture, stream, faults>>

\* A time limit, the server, FFmpeg or the connection fails the attempt.
Fails ==
  /\ worker.pc \in Waits \cup {"startMux", "deliver"} /\ Fault
  /\ \/ Throw("transient")
     \/ worker.pc \in {"negotiate", "startMux"} /\ Throw("permanent")
     \/ /\ At("send") /\ protocol = "mux" /\ ~worker.fresh /\ Throw("fresh")
  /\ UNCHANGED <<protocol, stopping, restartRequested, queue, state, owner,
                 capture, stream>>

---------------------------------------------------------------------------
(* runWhip.                                                                *)

WhipConnects ==
  /\ At("negotiate") /\ ~stopping
  /\ Goto("clearWhip")
  /\ UNCHANGED <<protocol, stopping, restartRequested, queue, state, owner,
                 capture, stream, faults>>

WhipClears ==
  /\ At("clearWhip")
  /\ queue' = <<>> /\ Goto("armWhip")
  /\ UNCHANGED <<protocol, stopping, restartRequested, state, owner, capture,
                 stream, faults>>

\* The keyframe is asked for, and comes with a later packet.
WhipArms ==
  /\ At("armWhip")
  /\ restartRequested' = FALSE
  /\ Goto("goLive")
  /\ UNCHANGED <<protocol, stopping, queue, state, owner, capture, stream,
                 faults>>

WhipGoesLive ==
  /\ At("goLive")
  /\ state' = IF stopping THEN state ELSE "Live"
  /\ Goto("send")
  /\ UNCHANGED <<protocol, stopping, restartRequested, queue, owner, capture,
                 stream, faults>>

---------------------------------------------------------------------------
(* runMux.                                                                 *)

\* Until a keyframe comes, audio is kept and video dropped.
AwaitKeyframe ==
  /\ At("keyframe") /\ Pops
  /\ LET p == Head(queue) IN
     worker' = IF p.kind = "audio"
               THEN [worker EXCEPT !.initial = Append(@, p)]
               ELSE IF p.key THEN [worker EXCEPT !.pc = "startMux", !.packet = p]
               ELSE worker
  /\ queue' = Tail(queue)
  /\ UNCHANGED <<protocol, stopping, restartRequested, state, owner, capture,
                 stream, faults>>

\* What the writing of audio from a to b leaves.
Heard(s, a, b) ==
  [s EXCEPT !.audio = ~@, !.from = a, !.heard = Max({@, b})]

\* What is left of audio after what is too old at time t is dropped from its
\* front.
Recent(audio, t) ==
  LET start == Min({i \in 1..Len(audio) + 1 :
                      i \in DOMAIN audio => audio[i].pts + CatchUp >= t}) IN
  SubSeq(audio, start, Len(audio))

\* FFmpeg is given the audio kept, but for what is too old, and the keyframe.
StartMux ==
  /\ At("startMux")
  /\ LET first == worker.packet
         kept == Recent(worker.initial, first.pts)
         end == IF kept = <<>> THEN first.pts
                ELSE kept[Len(kept)].pts + AudioLength
         epoch == IF kept = <<>> THEN first.pts ELSE Min({first.pts, kept[1].pts}) IN
     /\ worker' = [worker EXCEPT !.pc = "send", !.packet = None, !.keyed = TRUE,
                     !.initial = <<>>, !.size = first.size,
                     !.audioEnd = end, !.silence = epoch]
     /\ stream' = [NothingSent EXCEPT !.video = first.pts, !.key = TRUE,
                     !.heard = IF kept = <<>> THEN 0 ELSE end]
  /\ UNCHANGED <<protocol, stopping, restartRequested, queue, state, owner,
                 capture, faults>>

\* FFmpeg reports that it sends.
MuxProgress ==
  /\ protocol = "mux" /\ At("send")
  /\ state' = "Live"
  /\ UNCHANGED <<protocol, stopping, restartRequested, queue, owner, capture,
                 worker, stream, faults>>

---------------------------------------------------------------------------
(* Sending.                                                                *)

Take ==
  /\ At("send") /\ Pops
  /\ worker' = [worker EXCEPT !.pc = "deliver", !.packet = Head(queue)]
  /\ queue' = Tail(queue)
  /\ UNCHANGED <<protocol, stopping, restartRequested, state, owner, capture,
                 stream, faults>>

Sent(p) == [stream EXCEPT !.video = p.pts, !.key = p.key]

\* Over WHIP nothing is sent before a keyframe.
DeliverWhip ==
  /\ At("deliver") /\ protocol = "whip"
  /\ LET p == worker.packet
         goes == p.kind = "video" /\ (worker.keyed \/ p.key) IN
     /\ stream' = IF goes THEN Sent(p) ELSE stream
     /\ worker' = [worker EXCEPT !.pc = "send", !.packet = None,
                     !.keyed = @ \/ goes]
  /\ UNCHANGED <<protocol, stopping, restartRequested, queue, state, owner,
                 capture, faults>>

\* Where silence begins that fills the audio up to time t: after the audio
\* written, and not too far back.
SilenceFrom(t) == Max({worker.audioEnd, t - CatchUp})

\* A video packet of another size ends the attempt.
VideoOfOtherSize ==
  /\ At("deliver") /\ protocol = "mux"
  /\ worker.packet.kind = "video" /\ worker.packet.size # worker.size
  /\ Throw("transient")
  /\ UNCHANGED <<protocol, stopping, restartRequested, queue, state, owner,
                 capture, stream, faults>>

\* Before a video packet missing audio is filled with silence, if none came for
\* a while and none waits.
DeliverMuxVideo ==
  /\ At("deliver") /\ protocol = "mux"
  /\ worker.packet.kind = "video" /\ worker.packet.size = worker.size
  /\ LET p == worker.packet
         from == SilenceFrom(p.pts)
         idle == [worker EXCEPT !.pc = "send", !.packet = None] IN
     \/ /\ stream' = Sent(p)
        /\ worker' = idle
     \/ /\ \A i \in 1..Len(queue) : queue[i].kind # "audio"
        /\ from < p.pts
        /\ stream' = [Heard(Sent(p), from, p.pts) EXCEPT !.silent = p.pts]
        /\ worker' = [idle EXCEPT !.audioEnd = p.pts, !.silence = p.pts]
  /\ UNCHANGED <<protocol, stopping, restartRequested, queue, state, owner,
                 capture, faults>>

\* Mutant of AudioFrom: audio is written as it came.
AudioFromMutant(p) == p.pts

\* Audio that silence already stands for is cut off.
AudioFrom(p) == Max({p.pts, worker.silence})

DeliverMuxAudio ==
  /\ At("deliver") /\ protocol = "mux" /\ worker.packet.kind = "audio"
  /\ LET p == worker.packet
         end == p.pts + AudioLength
         written == AudioFrom(p) < end IN
     /\ stream' = IF written THEN Heard(stream, AudioFrom(p), end) ELSE stream
     /\ worker' = [worker EXCEPT !.pc = "send", !.packet = None,
                     !.audioEnd = IF written THEN Max({@, end}) ELSE @]
  /\ UNCHANGED <<protocol, stopping, restartRequested, queue, state, owner,
                 capture, faults>>

---------------------------------------------------------------------------

Owner == Start \/ Stop \/ Join

Capture == OfferVideo \/ OfferAudio \/ Push

Worker ==
  \/ LoopClears \/ LoopArms \/ LoopEnds \/ EndsInError \/ ErrorClears \/ Retry
  \/ Pause \/ Finish \/ StopsAttempt \/ Stalled \/ Fails
  \/ WhipConnects \/ WhipClears \/ WhipArms \/ WhipGoesLive
  \/ AwaitKeyframe \/ StartMux \/ Take
  \/ DeliverWhip \/ VideoOfOtherSize \/ DeliverMuxVideo \/ DeliverMuxAudio

Next == Owner \/ Capture \/ Worker \/ MuxProgress

\* The worker is scheduled, and stop waits for it.
Spec == Init /\ [][Next]_vars /\ WF_vars(Worker) /\ WF_vars(Join)

---------------------------------------------------------------------------
(* Properties.                                                             *)

\* What a destination receives on one connection can be decoded and played:
\* the video starts with a keyframe and misses no packet that was pushed since,
\* whatever overflowed, failed or was restarted; and silence that filled a gap
\* is never followed by the audio it stands for, nor written over audio ("do
\* not replay samples already replaced by silence").
VideoContinues ==
  \/ stream'.video \in {0, stream.video}
  \/ IF stream.video = 0 THEN stream'.key ELSE stream'.video = stream.video + 1

AudioContinues ==
  stream'.audio # stream.audio /\ stream'.video # 0 =>
    stream'.from >= IF stream'.silent # stream.silent THEN stream.heard
                    ELSE stream.silent

StreamIsWhole == [][VideoContinues /\ AudioContinues]_stream

\* stop returns, wherever the worker was: connecting, waiting for a keyframe, in
\* a pause, stalled or ended by an error; it leaves the session stopped.
StopReturns == owner = "joining" ~> owner = "stopped" /\ state \in {"Stopped", "Error"}
=============================================================================
