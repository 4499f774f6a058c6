------------------------------ MODULE VideoEncoder ------------------------------
(***************************************************************************)
(* VideoEncoder: one object with two kinds of pipeline behind it.          *)
(*                                                                         *)
(* The external pipeline is an FFmpeg process between two pipes.  encode   *)
(* queues a frame for the writer thread and its identity (the source       *)
(* timestamp) for the packet to come; the reader thread collects the       *)
(* process's output; encode takes the next packet out of it and gives it   *)
(* the oldest identity.  A process that fails, stalls, or has to yield a   *)
(* keyframe or take a bitrate is replaced.  A new process is first probed  *)
(* with made up frames and replaced once it has shown a packet; one that is*)
(* prepared for a handover is primed instead, and what it makes of the     *)
(* priming frames is discarded.                                            *)
(*                                                                         *)
(* The Media Foundation pipeline is a transform called in place: identities*)
(* are looked up by the sample time of the output.                         *)
(*                                                                         *)
(* The public operations are called one at a time, under the caller's      *)
(* videoSendMutex_ or alpha encoder mutex.  They run beside the writer, the*)
(* reader and the process.  Waits are steps whose time may be up at any    *)
(* moment; a live frame stands for its source timestamp.                   *)
(***************************************************************************)
EXTENDS Integers, Sequences, FiniteSetsExt, SequencesExt

CONSTANTS
  MaxQueued,      \* input frames that wait for the writer (3)
  MaxIdentities,  \* identities that wait for their packet (16)
  Priming,        \* frames that prepare a handover (8)
  MaxPending,     \* sample times remembered of the transform (128)
  PipeRoom,       \* frames and packets a pipe and the codec behind it hold
  MaxProbes,      \* probes before the warm-up deadline (3 s)
  MaxFrames,      \* live frames explored
  MaxEvents       \* interventions and faults explored

ASSUME EncoderAssumption ==
  /\ MaxQueued \in Nat \ {0} /\ MaxIdentities \in Nat \ {0}
  /\ Priming \in Nat \ {0} /\ Priming < MaxIdentities
  /\ MaxPending \in Nat \ {0} /\ PipeRoom \in Nat \ {0}
  /\ MaxProbes \in Nat \ {0} /\ MaxFrames \in Nat /\ MaxEvents \in Nat

Frames == 1..MaxFrames
Probe == 0            \* the frame of the warm-up probe, and its identity
Primer == -1          \* a priming frame, and the identity that names no frame

VARIABLES
  enc,      \* initialized_, the pipeline in use, its format and handover flags
  io,       \* what externalIoMutex_ guards
  writer,   \* the writer thread, and the frame it writes
  reader,   \* the reader thread
  child,    \* the FFmpeg process and its pipes
  mf,       \* the transform and the sample times submitted to it
  caller,   \* the thread inside a public operation
  latest,   \* the latest live frame
  returned, \* history: the packets of live frames, as encode returned them
  fresh,    \* history: none was returned since the pipeline was started
  events    \* interventions and faults so far

vars == <<enc, io, writer, reader, child, mf, caller, latest, returned, fresh,
          events>>
threads == <<io, writer, reader, child>>
history == <<latest, returned, fresh>>

NoPipe == "none"

IdleIo == [stop |-> FALSE, failed |-> FALSE, input |-> <<>>,
           identities |-> <<>>, output |-> <<>>, written |-> 0]
IdleChild == [state |-> "none", stdin |-> FALSE, inside |-> <<>>,
              stdout |-> <<>>, made |-> 0]
IdleMf == [inside |-> <<>>, pending |-> <<>>, last |-> 0, timed |-> TRUE,
           first |-> TRUE]
IdleCaller == [pc |-> "idle", then |-> <<>>, ok |-> TRUE, frame |-> Probe,
               time |-> 0, tries |-> 0]

Init ==
  /\ enc = [initialized |-> FALSE, pipe |-> NoPipe, kind |-> "ffmpeg",
            ivf |-> FALSE, handover |-> FALSE, firstLive |-> FALSE,
            prefixKey |-> FALSE, forceKey |-> FALSE, warming |-> FALSE]
  /\ io = IdleIo
  /\ writer = [pc |-> "none", frame |-> Probe]
  /\ reader = "none"
  /\ child = IdleChild
  /\ mf = IdleMf
  /\ caller = IdleCaller
  /\ latest = 0 /\ returned = <<>> /\ fresh = TRUE
  /\ events = 0

Intervene == events < MaxEvents /\ events' = events + 1

\* The caller's routines: Do runs l, then the routines of rest, then what was
\* to come next; Leave ends one with its result.
Goto(l) == caller' = [caller EXCEPT !.pc = l]
Do(l, rest) == caller' = [caller EXCEPT !.pc = l, !.then = rest \o @]
Leave(ok) ==
  caller' = IF caller.then = <<"idle">> THEN IdleCaller
            ELSE [caller EXCEPT !.pc = Head(caller.then), !.then = Tail(@),
                                !.ok = ok]

At(l) == caller.pc = l

---------------------------------------------------------------------------
(* The writer and the reader.                                              *)

WriterTakes ==
  /\ writer.pc = "waiting" /\ ~io.stop /\ io.input # <<>>
  /\ writer' = [pc |-> "writing", frame |-> Head(io.input)]
  /\ io' = [io EXCEPT !.input = Tail(@)]
  /\ UNCHANGED <<enc, reader, child, mf, caller, history, events>>

\* A write into a full pipe blocks.
WriterWrites ==
  /\ writer.pc = "writing" /\ child.state = "running" /\ child.stdin
  /\ Len(child.inside) < PipeRoom
  /\ child' = [child EXCEPT !.inside = Append(@, writer.frame)]
  /\ io' = [io EXCEPT !.written = IF @ < Priming THEN @ + 1 ELSE @]
  /\ writer' = [pc |-> "waiting", frame |-> Probe]
  /\ UNCHANGED <<enc, reader, mf, caller, history, events>>

\* A frame cut short by the stop is lost.
WriterStops ==
  /\ io.stop
  /\ \/ writer.pc = "waiting"
     \/ writer.pc = "writing" /\ Len(child.inside) < PipeRoom
  /\ writer' = [pc |-> "ended", frame |-> Probe]
  /\ UNCHANGED <<enc, io, reader, child, mf, caller, history, events>>

WriterFails ==
  /\ writer.pc = "writing" /\ child.state = "exited"
  /\ io' = [io EXCEPT !.failed = TRUE, !.stop = TRUE]
  /\ writer' = [pc |-> "ended", frame |-> Probe]
  /\ UNCHANGED <<enc, reader, child, mf, caller, history, events>>

ReaderReads ==
  /\ reader = "reading" /\ child.stdout # <<>>
  /\ io' = [io EXCEPT !.output = Append(@, Head(child.stdout))]
  /\ child' = [child EXCEPT !.stdout = Tail(@)]
  /\ reader' = IF io.stop THEN "ended" ELSE reader
  /\ UNCHANGED <<enc, writer, mf, caller, history, events>>

\* The end of the output is no failure; encode sees that the process is gone.
ReaderEnds ==
  /\ reader = "reading" /\ child.state = "exited" /\ child.stdout = <<>>
  /\ reader' = "ended"
  /\ UNCHANGED <<enc, io, writer, child, mf, caller, history, events>>

ReaderFails ==
  /\ reader = "reading" /\ Intervene
  /\ reader' = "ended"
  /\ io' = IF io.stop THEN io ELSE [io EXCEPT !.failed = TRUE, !.stop = TRUE]
  /\ UNCHANGED <<enc, writer, child, mf, caller, history>>

---------------------------------------------------------------------------
(* The process: it may fall silent at any time.                            *)

\* A packet per frame, in order (-bf 0, passthrough), the first a keyframe.
\* A keyframe forced later (-force_key_frames) may fail to appear.
ChildEncodes ==
  /\ child.state = "running" /\ child.inside # <<>>
  /\ Len(child.stdout) < PipeRoom
  /\ \E key \in {TRUE, child.made = 0} :
       child' = [child EXCEPT !.inside = Tail(@), !.made = 1,
                   !.stdout = Append(@, [frame |-> Head(child.inside), key |-> key])]
  /\ UNCHANGED <<enc, io, writer, reader, mf, caller, history, events>>

ChildExits ==
  /\ child.state = "running"
  /\ IF child.stdin THEN Intervene ELSE UNCHANGED events
  /\ child' = [child EXCEPT !.state = "exited"]
  /\ UNCHANGED <<enc, io, writer, reader, mf, caller, history>>

---------------------------------------------------------------------------
(* shutdownExternalFfmpegNvenc.                                            *)

ShutdownBegins ==
  /\ At("shutdown")
  /\ IF enc.pipe = "ffmpeg"
     THEN io' = [io EXCEPT !.stop = TRUE] /\ Goto("closeStdin")
     ELSE UNCHANGED io /\ Leave(TRUE)
  /\ UNCHANGED <<enc, writer, reader, child, mf, history, events>>

CloseStdin ==
  /\ At("closeStdin")
  /\ child' = [child EXCEPT !.stdin = FALSE]
  /\ Goto("waitExit")
  /\ UNCHANGED <<enc, io, writer, reader, mf, history, events>>

\* Mutant of Ended: a process that does not end is left alone.
EndedMutant(c) == c

\* The process after the wait: terminated unless it ended.
Ended(c) == [c EXCEPT !.state = "exited"]

WaitExit ==
  /\ At("waitExit")
  /\ child' = Ended(child)
  /\ Goto("join")
  /\ UNCHANGED <<enc, io, writer, reader, mf, history, events>>

\* The threads are joined and everything is reset.
Join ==
  /\ At("join") /\ writer.pc = "ended" /\ reader = "ended"
  /\ io' = IdleIo /\ child' = IdleChild
  /\ writer' = [pc |-> "none", frame |-> Probe] /\ reader' = "none"
  /\ enc' = [enc EXCEPT !.pipe = NoPipe, !.forceKey = FALSE]
  /\ fresh' = TRUE
  /\ Leave(TRUE)
  /\ UNCHANGED <<mf, latest, returned, events>>

---------------------------------------------------------------------------
(* initializeExternalFfmpegNvenc, restart and recovery.                    *)

StartProcess ==
  /\ At("start")
  /\ enc' = [enc EXCEPT !.pipe = "ffmpeg", !.forceKey = FALSE]
  /\ io' = IdleIo
  /\ child' = [IdleChild EXCEPT !.state = "running", !.stdin = TRUE]
  /\ writer' = [pc |-> "waiting", frame |-> Probe] /\ reader' = "reading"
  /\ Goto("startCheck")
  /\ UNCHANGED <<mf, history, events>>

StartFails ==
  /\ At("start") /\ Intervene
  /\ Leave(FALSE)
  /\ UNCHANGED <<enc, threads, mf, history>>

\* A process that is gone after 25 ms did not start.
StartCheck ==
  /\ At("startCheck")
  /\ IF child.state = "exited" THEN Do("shutdown", <<"fail">>) ELSE Leave(TRUE)
  /\ UNCHANGED <<enc, threads, mf, history, events>>

Fail ==
  /\ At("fail")
  /\ Leave(FALSE)
  /\ UNCHANGED <<enc, threads, mf, history, events>>

Restart ==
  /\ At("restart")
  /\ Do("shutdown", <<"start", "restarted", "warmed">>)
  /\ UNCHANGED <<enc, threads, mf, history, events>>

\* restartExternalFfmpegNvenc goes on with the warm-up if the process started.
Restarted ==
  /\ At("restarted")
  /\ IF caller.ok THEN Goto("warmUp") ELSE Leave(FALSE)
  /\ UNCHANGED <<enc, threads, mf, history, events>>

Warmed ==
  /\ At("warmed")
  /\ IF caller.ok THEN Leave(TRUE) ELSE Do("shutdown", <<"fail">>)
  /\ UNCHANGED <<enc, threads, mf, history, events>>

\* Inside a warm-up the process is given up: the warm-up's owner decides.
Recover ==
  /\ At("recover")
  /\ IF enc.warming THEN Do("shutdown", <<"fail">>) ELSE Goto("restart")
  /\ UNCHANGED <<enc, threads, mf, history, events>>

\* runWarmupProbeAndPrepareLivePipeline.
WarmUp ==
  /\ At("warmUp")
  /\ enc' = [enc EXCEPT !.warming = TRUE]
  /\ caller' = [caller EXCEPT !.pc = "probe", !.tries = 0]
  /\ UNCHANGED <<threads, mf, history, events>>

ProbeAgain ==
  /\ At("probe") /\ caller.tries < MaxProbes
  /\ caller' = [caller EXCEPT !.pc = "encode", !.then = <<"probed">> \o @,
                              !.tries = @ + 1]
  /\ UNCHANGED <<enc, threads, mf, history, events>>

ProbeEnds ==
  /\ At("probe")
  /\ enc' = [enc EXCEPT !.warming = FALSE]
  /\ Leave(FALSE)
  /\ UNCHANGED <<threads, mf, history, events>>

\* The process that answered a probe may hold more of them: it is replaced.
\* One that failed was retired by encode.
Probed ==
  /\ At("probed")
  /\ \/ /\ caller.ok
        /\ enc' = [enc EXCEPT !.warming = FALSE]
        /\ Do("shutdown", <<"start">>)
     \/ /\ ~caller.ok /\ enc.pipe = "ffmpeg"
        /\ Goto("probe") /\ UNCHANGED enc
     \/ /\ ~caller.ok /\ enc.pipe # "ffmpeg"
        /\ enc' = [enc EXCEPT !.warming = FALSE]
        /\ Leave(FALSE)
  /\ UNCHANGED <<threads, mf, history, events>>

---------------------------------------------------------------------------
(* encodeExternalFfmpegNvenc.                                              *)

\* What a frame is queued under.
Frame == IF enc.warming THEN Probe ELSE caller.frame

\* A keyframe is asked for by replacing the process.
EncodeBegins ==
  /\ At("encode")
  /\ IF enc.pipe = "ffmpeg" /\ enc.forceKey
     THEN enc' = [enc EXCEPT !.forceKey = FALSE] /\ Do("recover", <<"check">>)
     ELSE UNCHANGED enc /\ Goto("check")
  /\ UNCHANGED <<threads, mf, history, events>>

EncodeChecks ==
  /\ At("check")
  /\ \/ enc.pipe # "ffmpeg" /\ Leave(FALSE)
     \/ enc.pipe = "ffmpeg" /\ child.state = "exited" /\ Do("recover", <<"fail">>)
     \/ enc.pipe = "ffmpeg" /\ child.state # "exited" /\ Goto("enqueue")
  /\ UNCHANGED <<enc, threads, mf, history, events>>

\* A frame in a format the pipeline cannot convert is not encoded.
InputIsRefused ==
  /\ At("enqueue") /\ ~enc.warming /\ Intervene
  /\ Leave(FALSE)
  /\ UNCHANGED <<enc, threads, mf, history>>

\* Mutant of Queued: the identity is queued before the room is checked.
QueuedMutant(f, identity) ==
  IF io.failed \/ io.stop THEN "ioFailure"
  ELSE IF Len(io.identities) >= MaxIdentities THEN "outputStalled" ELSE "queued"

\* enqueueExternalInputFrame: the result.
Queued(f, identity) ==
  IF io.failed \/ io.stop THEN "ioFailure"
  ELSE IF Len(io.input) >= MaxQueued THEN "backpressure"
  ELSE IF Len(io.identities) >= MaxIdentities THEN "outputStalled"
  ELSE "queued"

Enqueue(f, identity) ==
  io' = [io EXCEPT !.identities = Append(@, identity),
           !.input = IF Len(@) < MaxQueued THEN Append(@, f) ELSE @]

EncodeEnqueues ==
  /\ At("enqueue")
  /\ LET result == Queued(Frame, Frame) IN
     \/ result = "queued" /\ Enqueue(Frame, Frame) /\ Goto("poll")
     \/ result = "backpressure" /\ Leave(FALSE) /\ UNCHANGED io
     \/ /\ result \in {"ioFailure", "outputStalled"}
        /\ Do("recover", <<"fail">>) /\ UNCHANGED io
  /\ UNCHANGED <<enc, writer, reader, child, mf, history, events>>

\* popExternalPacket.  An Annex B packet ends where the next begins; an IVF
\* packet has its length.
Ready == 1..(Len(io.output) - IF enc.ivf THEN 0 ELSE 1)

SourceAt(i) == IF i <= Len(io.identities) THEN io.identities[i] ELSE Primer

\* After a prepared handover what comes of the priming frames is discarded,
\* and then what comes before the first keyframe.
Handover == enc.handover /\ ~enc.warming
Discarded(i) ==
  /\ Handover
  /\ \/ SourceAt(i) = Primer
     \/ enc.firstLive /\ ~io.output[i].key

Wanted == {i \in Ready : ~Discarded(i)}
Popped == IF Wanted = {} THEN Max(Ready \cup {0}) ELSE Min(Wanted)

Pop ==
  /\ io' = [io EXCEPT !.output = SubSeq(@, Popped + 1, Len(@)),
                      !.identities = SubSeq(@, Popped + 1, Len(@))]
  /\ enc' = [enc EXCEPT
       !.prefixKey = @ \/ (Handover /\ \E i \in 1..Popped :
                             SourceAt(i) = Primer /\ io.output[i].key),
       !.firstLive = @ /\ (Handover => Wanted = {})]

\* The packet at i as encode returns it, and what became of the frames.
Give(packet, source) ==
  /\ returned' = Append(returned,
                        [frame |-> packet.frame, source |-> source,
                         key |-> packet.key])
  /\ fresh' = FALSE
  /\ UNCHANGED latest

EncodeReturns ==
  /\ At("poll") /\ Wanted # {}
  /\ Pop
  /\ IF enc.warming THEN UNCHANGED history
     ELSE Give(io.output[Popped], SourceAt(Popped))
  /\ Leave(TRUE)
  /\ UNCHANGED <<writer, reader, child, mf, events>>

\* Nothing came in time, or a thread or the process failed.
EncodeGivesUp ==
  /\ At("poll") /\ Wanted = {}
  /\ Pop
  /\ IF io.failed \/ child.state = "exited" THEN Do("recover", <<"fail">>)
     ELSE Leave(FALSE)
  /\ UNCHANGED <<writer, reader, child, mf, history, events>>

---------------------------------------------------------------------------
(* primeHandover.                                                          *)

Prime ==
  /\ At("prime")
  /\ IF caller.ok
     THEN /\ enc' = [enc EXCEPT !.firstLive = TRUE]
          /\ caller' = [caller EXCEPT !.pc = "push", !.tries = 0]
     ELSE UNCHANGED enc /\ Leave(FALSE)
  /\ UNCHANGED <<threads, mf, history, events>>

\* A full queue is tried again; any other failure, and the deadline, end it.
PrimePushes ==
  /\ At("push") /\ caller.tries < Priming /\ child.state # "exited"
  /\ Queued(Primer, Primer) = "queued"
  /\ Enqueue(Primer, Primer)
  /\ caller' = [caller EXCEPT !.tries = @ + 1,
                  !.pc = IF caller.tries + 1 = Priming THEN "await" ELSE "push"]
  /\ UNCHANGED <<enc, writer, reader, child, mf, history, events>>

PrimeFails ==
  /\ At("push") \/ At("await")
  /\ Leave(FALSE)
  /\ UNCHANGED <<enc, threads, mf, history, events>>

PrimePops ==
  /\ At("await") /\ Popped > 0
  /\ Pop
  /\ UNCHANGED <<writer, reader, child, mf, caller, history, events>>

PrimeSucceeds ==
  /\ At("await") /\ enc.prefixKey /\ io.written = Priming /\ ~io.failed
  /\ Leave(TRUE)
  /\ UNCHANGED <<enc, threads, mf, history, events>>

---------------------------------------------------------------------------
(* The Media Foundation transform.                                         *)

\* resetCurrentTransform and shutdownCurrentActivation: the transform is
\* flushed, shut down and released, and the sources that waited are forgotten.
ResetTransform == mf' = IdleMf

FrameStep == 1

\* The time given to a sample: the capture time, made to increase.
SampleTime(time) ==
  IF mf.last > 0 /\ time <= mf.last THEN mf.last + FrameStep ELSE time

\* A candidate is warmed up with probes, some of which stay inside.
MfWarmsUp ==
  /\ At("tryMf") /\ \E n \in 0..PipeRoom :
       mf' = [IdleMf EXCEPT
                !.inside = [i \in 1..n |-> [time |-> i, frame |-> Probe]],
                !.pending = [i \in 1..n |-> [time |-> i, source |-> Probe]],
                !.last = n, !.first = FALSE]
  /\ Goto("replaceMf")
  /\ UNCHANGED <<enc, threads, history, events>>

\* The warmed transform gives way to a fresh one.  A transform that leaves out
\* the sample times of its output is taken to lose no frame.
MfReplaced ==
  /\ At("replaceMf")
  /\ \E timed \in BOOLEAN : mf' = [IdleMf EXCEPT !.timed = timed]
  /\ enc' = [enc EXCEPT !.pipe = "mf"]
  /\ Leave(TRUE)
  /\ UNCHANGED <<threads, history, events>>

\* The candidate fails its warm-up or its replacement.
MfCandidateFails ==
  /\ At("replaceMf") /\ Intervene
  /\ ResetTransform
  /\ Goto("tryMf")
  /\ UNCHANGED <<enc, threads, history>>

\* initializeAutoAmfFallback, once, before a software candidate or at the end.
TryAmf ==
  /\ At("tryMf") /\ enc.kind = "mf"
  /\ enc' = [enc EXCEPT !.kind = "amf"]
  /\ Do("start", <<"amfStarted", "amfWarmed">>)
  /\ UNCHANGED <<threads, mf, history, events>>

AmfStarted ==
  /\ At("amfStarted")
  /\ IF caller.ok THEN Goto("warmUp") ELSE Leave(FALSE)
  /\ UNCHANGED <<enc, threads, mf, history, events>>

AmfWarmed ==
  /\ At("amfWarmed")
  /\ IF caller.ok THEN Leave(TRUE) ELSE Do("shutdown", <<"tryMf">>)
  /\ UNCHANGED <<enc, threads, mf, history, events>>

NoCandidate ==
  /\ At("tryMf") /\ enc.kind = "amf"
  /\ Leave(FALSE)
  /\ UNCHANGED <<enc, threads, mf, history, events>>

\* The transform skips a frame, or an output without a readable buffer is
\* consumed and dropped.  One that leaves out the sample times does neither:
\* its output is named by guess, and after a lost frame the guess would be wrong.
MfSkips ==
  /\ mf.timed /\ mf.inside # <<>> /\ Intervene
  /\ mf' = [mf EXCEPT !.inside = Tail(@)]
  /\ UNCHANGED <<enc, threads, caller, history>>

\* Mutant of Named: the packet is given the oldest source that waits.
NamedMutant(time) == IF mf.pending = <<>> THEN {} ELSE {1}

\* takeSubmittedSource: the sample submitted at that time.
Named(time) == {i \in 1..Len(mf.pending) : mf.pending[i].time = time}

\* pullOutput: the time of an output that has none is the oldest submitted.
MfPull ==
  /\ mf.inside # <<>>
  /\ \E key \in {TRUE, mf.first} :
       LET out == Head(mf.inside)
           time == IF mf.timed \/ mf.pending = <<>> THEN out.time
                   ELSE Head(mf.pending).time
           named == Named(time) IN
       /\ mf' = [mf EXCEPT !.inside = Tail(@), !.first = FALSE,
                   !.pending = IF named = {} THEN @ ELSE RemoveAt(@, Min(named))]
       /\ Give([frame |-> out.frame, key |-> key],
               IF named = {} THEN Primer ELSE mf.pending[Min(named)].source)

\* The frame cannot be converted, or no sample can be made for it.
MfInputIsRefused ==
  /\ At("mfEncode") /\ Intervene
  /\ Leave(FALSE)
  /\ UNCHANGED <<enc, threads, mf, history>>

\* An output that is ready is pulled before the input is given, by an
\* asynchronous transform, which may still take the input, or by one that
\* accepts none.
MfPullsFirst ==
  /\ At("mfEncode")
  /\ MfPull
  /\ Goto("mfInputOnly")
  /\ UNCHANGED <<enc, threads, events>>

\* The transform takes the input; or not, and the frame is dropped.
MfTakes ==
  /\ At("mfEncode") \/ At("mfInputOnly")
  /\ Len(mf.inside) < PipeRoom
  /\ LET time == SampleTime(caller.time)
         pending == Append(mf.pending, [time |-> time, source |-> caller.frame]) IN
     mf' = [mf EXCEPT !.last = time,
              !.inside = Append(@, [time |-> time, frame |-> caller.frame]),
              !.pending = IF Len(pending) > MaxPending THEN Tail(pending)
                          ELSE pending]
  /\ IF At("mfInputOnly") THEN Leave(TRUE) ELSE Goto("mfOutput")
  /\ UNCHANGED <<enc, threads, history, events>>

MfRefuses ==
  /\ At("mfEncode") \/ At("mfInputOnly")
  /\ mf' = [mf EXCEPT !.last = SampleTime(caller.time)]
  /\ Leave(At("mfInputOnly"))
  /\ UNCHANGED <<enc, threads, history, events>>

MfPullsAfter ==
  /\ At("mfOutput")
  /\ MfPull
  /\ Leave(TRUE)
  /\ UNCHANGED <<enc, threads, events>>

MfNeedsMore ==
  /\ At("mfOutput")
  /\ Leave(FALSE)
  /\ UNCHANGED <<enc, threads, mf, history, events>>

---------------------------------------------------------------------------
(* The public operations.                                                  *)

\* The pipeline is asked for, as the configuration requires: FFmpeg with IVF or
\* Annex B output, prepared for a handover or not, or Media Foundation.
Initialize ==
  /\ At("idle") /\ Intervene
  /\ caller' = [IdleCaller EXCEPT !.pc = "shutdown",
                  !.then = <<"down", "begin", "initialized", "idle">>]
  /\ UNCHANGED <<enc, threads, mf, history>>

Begin ==
  /\ At("begin")
  /\ \/ /\ enc' = [enc EXCEPT !.kind = "mf", !.ivf = FALSE, !.handover = FALSE,
                     !.firstLive = FALSE, !.prefixKey = FALSE]
        /\ Goto("tryMf")
     \/ \E ivf, handover \in BOOLEAN :
        /\ ~(ivf /\ handover)
        /\ enc' = [enc EXCEPT !.kind = "ffmpeg", !.ivf = ivf,
                     !.handover = handover, !.firstLive = FALSE,
                     !.prefixKey = FALSE]
        /\ Do("start", <<IF handover THEN "prime" ELSE "restarted">>)
  /\ UNCHANGED <<threads, mf, history, events>>

\* A pipeline that did not come up is shut down.
Initialized ==
  /\ At("initialized")
  /\ IF caller.ok
     THEN enc' = [enc EXCEPT !.initialized = TRUE] /\ Leave(TRUE)
     ELSE UNCHANGED enc /\ Do("shutdown", <<"down">>)
  /\ UNCHANGED <<threads, mf, history, events>>

Shutdown ==
  /\ At("idle")
  /\ caller' = [IdleCaller EXCEPT !.pc = "shutdown", !.then = <<"down", "idle">>]
  /\ UNCHANGED <<enc, threads, mf, history, events>>

Down ==
  /\ At("down")
  /\ enc' = [enc EXCEPT !.initialized = FALSE, !.pipe = NoPipe]
  /\ ResetTransform
  /\ fresh' = TRUE
  /\ Leave(TRUE)
  /\ UNCHANGED <<threads, latest, returned, events>>

\* encodeWithSourceTimestamp, of a new frame whose capture time may repeat.
Encode ==
  /\ At("idle") /\ enc.initialized /\ enc.pipe # NoPipe /\ latest < MaxFrames
  /\ latest' = latest + 1
  /\ \E time \in (IF enc.pipe = "mf" THEN {Max({1, latest}), latest + 1}
                  ELSE {latest + 1}) :
       caller' = [IdleCaller EXCEPT !.then = <<"idle">>,
                    !.pc = IF enc.pipe = "mf" THEN "mfEncode" ELSE "encode",
                    !.frame = latest', !.time = time]
  /\ UNCHANGED <<enc, threads, mf, returned, fresh, events>>

SetBitrate ==
  /\ At("idle") /\ enc.pipe = "ffmpeg" /\ Intervene
  /\ caller' = [IdleCaller EXCEPT !.pc = "restart", !.then = <<"idle">>]
  /\ UNCHANGED <<enc, threads, mf, history>>

RequestKeyframe ==
  /\ At("idle") /\ enc.pipe = "ffmpeg" /\ ~enc.forceKey /\ Intervene
  /\ enc' = [enc EXCEPT !.forceKey = TRUE]
  /\ UNCHANGED <<threads, mf, caller, history>>

---------------------------------------------------------------------------

Workers ==
  \/ WriterTakes \/ WriterWrites \/ WriterStops \/ WriterFails
  \/ ReaderReads \/ ReaderEnds \/ ReaderFails

Environment == ChildEncodes \/ ChildExits \/ MfSkips

\* A public operation is called.
Call == Initialize \/ Shutdown \/ Encode \/ SetBitrate \/ RequestKeyframe

\* A step inside a public operation.
Routine ==
  \/ ShutdownBegins \/ CloseStdin \/ WaitExit \/ Join
  \/ StartProcess \/ StartFails \/ StartCheck \/ Fail
  \/ Restart \/ Restarted \/ Warmed \/ Recover
  \/ WarmUp \/ ProbeAgain \/ ProbeEnds \/ Probed
  \/ EncodeBegins \/ EncodeChecks \/ InputIsRefused \/ EncodeEnqueues
  \/ EncodeReturns \/ EncodeGivesUp
  \/ Prime \/ PrimePushes \/ PrimeFails \/ PrimePops \/ PrimeSucceeds
  \/ MfWarmsUp \/ MfReplaced \/ MfCandidateFails
  \/ TryAmf \/ AmfStarted \/ AmfWarmed \/ NoCandidate
  \/ MfInputIsRefused \/ MfPullsFirst \/ MfTakes \/ MfRefuses \/ MfPullsAfter \/ MfNeedsMore
  \/ Begin \/ Initialized \/ Down

Next == Workers \/ Environment \/ Call \/ Routine

\* The writer and the reader are scheduled once they can run; the process and
\* the transform owe nothing.
Fairness == WF_vars(Routine) /\ WF_vars(Workers)

Spec == Init /\ [][Next]_vars /\ Fairness

---------------------------------------------------------------------------
(* Properties.                                                             *)

\* The live frames inside the pipeline, oldest first.
FramesOf(packets) == [i \in 1..Len(packets) |-> packets[i].frame]
FramesInside ==
  IF enc.pipe = "mf" THEN FramesOf(mf.inside)
  ELSE FramesOf(io.output) \o FramesOf(child.stdout) \o child.inside
       \o <<writer.frame>> \o io.input

FrameEncoder == INSTANCE FrameEncoder WITH
  Frames <- Frames, Unnamed <- Primer,
  inside <- SelectSeq(FramesInside, LAMBDA f : f \in Frames)

\* Whatever fails, stalls or is restarted, encode returns what an encoder may:
\* each packet under the source timestamp of the frame it shows, in order, none
\* of a probe or a priming frame, and a keyframe first ("Never expose those to
\* the live RTP path").
ImplementsFrameEncoder == FrameEncoder!Spec

\* Every public operation returns, be the process silent, full or gone: the
\* writer and the reader are always released to be joined.
CallsReturn == ~At("idle") ~> At("idle")
=============================================================================
