---------------------------- MODULE AlphaPipeline ----------------------------
(***************************************************************************)
(* The video send path of VersusApp with a transparent (dual track) source.*)
(*                                                                         *)
(* The encode thread takes a frame per output slot.  Under videoSendMutex_ *)
(* it admits the frame, hands a copy to the alpha thread, encodes the      *)
(* colour frame, collects finished alpha halves, sends colour alone to the *)
(* viewers without alpha, and pairs and sends both halves to the others.   *)
(* The alpha thread encodes at its own pace.  Meanwhile viewers announce   *)
(* their alpha capability and get new transports, the control thread       *)
(* reconfigures or replaces the encoders, and capture stops and starts.    *)
(*                                                                         *)
(* videoSendMutex_ is held while tick.pc or control is not idle; the other *)
(* mutexes are held within one action.  A viewer's transport operations    *)
(* (clientOperationMutex) are one action each.  Wire timestamps of a       *)
(* viewer refuse a packet only at the saturation of the clock: they are    *)
(* left to the pairer's own clock.                                         *)
(***************************************************************************)
EXTENDS AlphaFramePairer, FiniteSets

CONSTANTS
  Viewers,         \* the sessions with an active video track
  MaxReady,        \* alpha halves that wait for the encode thread (16)
  MaxDelay,        \* frames the colour encoder may hold back
  MaxSlots,        \* output slots explored
  MaxEvents        \* interventions and failures explored

ASSUME PipelineAssumption ==
  /\ IsFiniteSet(Viewers) /\ MaxReady \in Nat \ {0} /\ MaxDelay \in Nat
  /\ MaxSlots \in Nat /\ MaxSlots <= MaxTimestamp /\ MaxEvents \in Nat

VARIABLES
  phase,        \* capture: stopped, capturing, stopping, draining, clearing, shut
  config,       \* videoConfig_: the codec, and whether the alpha track is on
  generation,   \* alphaPipelineGeneration_
  pendingKey,   \* pendingGlobalKeyframe_
  primary,      \* the colour encoder: initialized, owes a keyframe, frames
                \* inside, not initialized again since a replacement was begun
                \* (configurationRevision), and primaryPacketSequence_
  alphaUp,      \* the alpha encoder is initialized
  job,          \* pendingAlphaEncodeJob_
  reconfigure,  \* pendingAlphaEncoderReconfigure_
  worker,       \* the alpha thread
  ready,        \* completedAlphaPackets_
  tick,         \* the encode thread
  slot,         \* the output slot, its timestamp
  viewer,       \* per session: alphaAllowed, waitingForKeyframe, cutoff,
                \* lastAlphaPrimaryEncodedSequence, and whether the transport
                \* is the adopted one
  shown,        \* history: the last colour half sent on this transport
  control,      \* the thread that reconfigures
  events        \* interventions so far

encoderVars == <<primary, alphaUp>>
queueVars == <<job, reconfigure, ready>>
threadVars == <<worker, tick, slot, control>>
viewerVars == <<viewer, shown>>
vars == <<pairerVars, phase, config, generation, pendingKey, encoderVars,
          queueVars, threadVars, viewerVars, events>>

NoJob == [adm |-> NoAdmission, frame |-> 0]
NoPacket == [ts |-> NoTimestamp, frame |-> 0, codec |-> "H264", key |-> FALSE]
NoHalf == [ts |-> NoTimestamp, gen |-> 0, seq |-> 0, codec |-> "H264",
           key |-> FALSE, enc |-> 0, frame |-> 0]
NothingShown == [enc |-> 0, key |-> FALSE]

IdleTick == [pc |-> "idle", key |-> FALSE, flow |-> FALSE, routed |-> {},
             adm |-> NoAdmission, have |-> NoPacket, plain |-> {},
             half |-> NoHalf, todo |-> <<>>]
IdleWorker == [pc |-> "idle", job |-> NoJob, half |-> NoHalf]
IdleControl == [pc |-> "idle", kind |-> "none", offer |-> {},
                config |-> [codec |-> "H264", alpha |-> FALSE]]

\* The colour encoder initialized again, or shut down.
Fresh(p) == [up |-> TRUE, owes |-> TRUE, inside |-> <<>>, steady |-> FALSE,
             out |-> p.out]
Down(p) == [up |-> FALSE, owes |-> FALSE, inside |-> <<>>, steady |-> FALSE,
            out |-> p.out]

Init ==
  /\ PairerInit
  /\ phase = "stopped"
  /\ config \in [codec : {"H264", "VP9"}, alpha : BOOLEAN]
  /\ generation = 1 /\ pendingKey = FALSE
  /\ primary = [up |-> FALSE, owes |-> FALSE, inside |-> <<>>,
                steady |-> FALSE, out |-> 0]
  /\ alphaUp = FALSE
  /\ job = NoJob /\ reconfigure = FALSE /\ ready = <<>>
  /\ worker = IdleWorker /\ tick = IdleTick /\ slot = 0
  /\ viewer = [v \in Viewers |-> [alpha |-> TRUE, waiting |-> TRUE,
                 cutoff |-> 0, last |-> 0, bound |-> TRUE, telling |-> "no"]]
  /\ shown = [v \in Viewers |-> NothingShown]
  /\ control = IdleControl /\ events = 0

Goto(l) == tick' = [tick EXCEPT !.pc = l]

\* The encode thread turns to the pairs it has; without any, the slot ends.
ToPairs(todo) ==
  IF todo = <<>> THEN IdleTick
  ELSE [tick EXCEPT !.pc = "pairs", !.plain = {}, !.half = NoHalf,
                    !.have = NoPacket, !.todo = todo]

\* The pairs the encode thread has once a half was submitted.
Extended(todo) ==
  IF pairs' = pairs THEN todo ELSE Append(todo, pairs'[Len(pairs')])

SendFree == tick.pc \in {"idle", "renegotiate"}
            /\ control.pc \in {"idle", "preparing", "offers"}
\* Once the last slot is over nothing more is sent, and nobody intervenes.
Intervene ==
  /\ events < MaxEvents /\ events' = events + 1
  /\ slot < MaxSlots \/ tick.pc # "idle"

---------------------------------------------------------------------------
(* The queues between the threads.                                         *)

\* The first half of clearAlphaEncodeQueues, under alphaEncodeMutex_.
RetireGeneration(reconf) ==
  /\ generation' = generation + 1
  /\ ClearPending
  /\ job' = NoJob /\ reconfigure' = reconf

\* The second half: the finished alpha halves and the pairer.
ClearPairs ==
  /\ ready' = <<>>
  /\ ClearPairer

\* reservePeerAlphaAdmissionCutoff.
Cutoff(old) == Larger(old, latestAdmission.seq)

---------------------------------------------------------------------------
(* The encode thread.                                                      *)

\* The thread's loop: a slot is due and a frame, fresh or cached, is taken for it.
TakeSlot ==
  /\ phase = "capturing" /\ tick.pc = "idle" /\ SendFree /\ slot < MaxSlots
  /\ slot' = slot + 1

\* A slot whose frame somebody wants: viewers, or an output or recording.
\* Without alpha, or without viewers, the frame is encoded alone.  A slot that
\* leaves a viewer out counts as an intervention.
BeginTick ==
  /\ TakeSlot
  /\ \E routed \in SUBSET Viewers :
       LET flow == routed # {} /\ config.alpha IN
       /\ IF routed = Viewers THEN UNCHANGED events ELSE Intervene
       /\ tick' = [IdleTick EXCEPT !.pc = IF flow THEN "admit" ELSE "encode",
                     !.key = pendingKey, !.flow = flow, !.routed = routed]
  /\ pendingKey' = FALSE
  /\ UNCHANGED <<pairerVars, phase, config, generation, encoderVars, queueVars,
                 worker, control, viewerVars>>

\* queueAlphaEncodeFrame: a job the alpha thread has not taken is replaced.
AdmitFrame ==
  /\ tick.pc = "admit"
  /\ Admit(slot, generation)
  /\ tick' = [tick EXCEPT !.pc = "encode", !.adm = AdmissionOf(slot, generation)]
  /\ job' = IF Rejected(slot, generation) THEN job
            ELSE [adm |-> AdmissionOf(slot, generation), frame |-> slot]
  /\ UNCHANGED <<phase, config, generation, pendingKey, encoderVars,
                 reconfigure, ready, worker, slot, control, viewerVars, events>>

\* The alpha plane of the frame could not be built.
FrameWithoutPlane ==
  /\ tick.pc = "admit" /\ Intervene
  /\ Goto("encode")
  /\ UNCHANGED <<pairerVars, phase, config, generation, pendingKey, encoderVars,
                 queueVars, worker, slot, control, viewerVars>>

\* A keyframe is due: asked for, the first of the encoder, or, in the
\* protected VP9 workflow, every frame.
KeyDue == tick.key \/ primary.owes \/ config = [codec |-> "VP9", alpha |-> TRUE]

\* The frame given to the colour encoder, as a keyframe or not.
Submitted(key) ==
  [ts |-> IF tick.adm = NoAdmission THEN slot ELSE tick.adm.ts,
   frame |-> slot, codec |-> config.codec, key |-> key]

\* The encoder may ignore a request or start a group of its own accord.
Encodes(key) ==
  IF key = KeyDue THEN UNCHANGED events ELSE ~primary.owes /\ Intervene

AfterEncode(packet) ==
  tick' = [tick EXCEPT !.pc = "collect", !.have = packet, !.adm = NoAdmission,
                       !.key = FALSE]

\* What becomes of a keyframe request the packet does not answer: it is made
\* again, unless the encoder is one that takes no requests.
Rearm(answered) ==
  pendingKey' \in {pendingKey, pendingKey \/ (tick.key /\ ~answered)}

\* The encoder takes the frame and returns the oldest it holds.  A protected
\* encoder that returns a delta frame is asked for a keyframe.
EncodeReturns ==
  /\ tick.pc = "encode" /\ primary.up
  /\ \E key \in BOOLEAN :
       LET held == Append(primary.inside, Submitted(key))
           out == Head(held)
           broken == tick.flow /\ config.codec = "VP9" /\ ~out.key IN
       /\ Encodes(key)
       /\ primary' = [primary EXCEPT !.owes = broken, !.inside = Tail(held)]
       /\ AfterEncode(out)
       /\ IF broken THEN pendingKey' = TRUE ELSE Rearm(out.key)
  /\ UNCHANGED <<pairerVars, phase, config, generation, alphaUp, queueVars,
                 worker, slot, control, viewerVars>>

\* The packet comes without a time to trust: it is dropped and a keyframe
\* requested.
EncodeUntimed ==
  /\ tick.pc = "encode" /\ primary.up /\ Intervene
  /\ primary' = [primary EXCEPT !.owes = FALSE,
                   !.inside = Tail(Append(@, Submitted(KeyDue)))]
  /\ AfterEncode(NoPacket)
  /\ pendingKey' = TRUE
  /\ UNCHANGED <<pairerVars, phase, config, generation, alphaUp, queueVars,
                 worker, slot, control, viewerVars>>

\* The encoder keeps the frame, loses it, or is down: nothing is returned.
EncodeYieldsNothing ==
  /\ tick.pc = "encode"
  /\ \/ /\ primary.up /\ Len(primary.inside) < MaxDelay
        /\ primary' = [primary EXCEPT !.owes = FALSE,
                         !.inside = Append(@, Submitted(KeyDue))]
        /\ UNCHANGED events
     \/ primary.up /\ Intervene /\ UNCHANGED primary
     \/ ~primary.up /\ UNCHANGED <<primary, events>>
  /\ AfterEncode(NoPacket)
  /\ Rearm(FALSE)
  /\ UNCHANGED <<pairerVars, phase, config, generation, alphaUp, queueVars,
                 worker, slot, control, viewerVars>>

\* A failure window fills, whether this frame failed or not: the encoder is
\* restarted, or another takes its place, in hardware as H.264 or in software;
\* alpha stays as it was.  None may start.
RecoverEncoder ==
  /\ tick.pc = "encode" /\ Intervene
  /\ \E packet \in {NoPacket} \cup
         (IF primary.up THEN {Head(Append(primary.inside, Submitted(KeyDue)))}
          ELSE {}) : AfterEncode(packet)
  /\ \/ /\ primary' = Fresh(primary)
        /\ config' \in {config, [config EXCEPT !.codec = "H264"]}
     \/ /\ primary' = Down(primary)
        /\ UNCHANGED config
  /\ pendingKey' \in {pendingKey, TRUE}
  /\ UNCHANGED <<pairerVars, phase, generation, alphaUp, queueVars, worker, slot,
                 control, viewerVars>>

\* A VP9 encoder without alpha gives way to H.264.  The slot ends: the mutex
\* is released and every viewer is offered a new transport.
FallBackToH264 ==
  /\ tick.pc = "encode" /\ Intervene
  /\ config = [codec |-> "VP9", alpha |-> FALSE]
  /\ config' = [config EXCEPT !.codec = "H264"]
  /\ primary' = Fresh(primary) /\ pendingKey' = TRUE
  /\ tick' = [IdleTick EXCEPT !.pc = "renegotiate", !.routed = Viewers]
  /\ UNCHANGED <<pairerVars, phase, generation, alphaUp, queueVars, worker,
                 slot, control, viewerVars>>

\* Mutant of OnNewTransport: the viewer is not made to wait.
OnNewTransportMutant(w) == [w EXCEPT !.bound = TRUE]

\* A new transport starts with a keyframe and takes no older pair.
OnNewTransport(w) ==
  [w EXCEPT !.bound = TRUE, !.waiting = TRUE, !.cutoff = Cutoff(@)]

\* sendPeerOffer with a rebuild, under clientOperationMutex: what it does to
\* the media state.  The offer may be stale by then, and leaves the transport
\* alone; a failed reset leaves no adopted transport.
Rebuild(v) ==
  \/ /\ viewer' = [viewer EXCEPT ![v] = OnNewTransport(@)]
     /\ shown' = [shown EXCEPT ![v] = NothingShown]
     /\ pendingKey' = TRUE
  \/ /\ viewer' = [viewer EXCEPT ![v].bound = FALSE, ![v].cutoff = Cutoff(@)]
     /\ shown' = [shown EXCEPT ![v] = NothingShown]
     /\ UNCHANGED pendingKey
  \/ /\ viewer' = [viewer EXCEPT ![v].cutoff = Cutoff(@)]
     /\ UNCHANGED <<shown, pendingKey>>

Renegotiate ==
  /\ tick.pc = "renegotiate"
  /\ \/ \E v \in tick.routed :
          /\ Rebuild(v)
          /\ tick' = [tick EXCEPT !.routed = @ \ {v}]
     \/ /\ tick.routed = {}
        /\ tick' = IdleTick
        /\ UNCHANGED <<viewerVars, pendingKey>>
  /\ UNCHANGED <<pairerVars, phase, config, generation, encoderVars, queueVars,
                 worker, slot, control, events>>

\* takeNextAlphaPacket and submitAlpha, until no alpha half is left.
Collect ==
  /\ tick.pc = "collect" /\ tick.flow /\ ready # <<>>
  /\ SubmitAlpha(Head(ready))
  /\ ready' = Tail(ready)
  /\ tick' = [tick EXCEPT !.todo = Extended(@)]
  /\ UNCHANGED <<phase, config, generation, pendingKey, encoderVars, job,
                 reconfigure, worker, slot, control, viewerVars, events>>

\* After the plain sends the colour packet goes to the pairer, if there is one.
PlainSent ==
  IF tick.flow THEN [tick EXCEPT !.pc = "resolve", !.plain = {}]
  ELSE ToPairs(tick.todo)

\* Without a packet and without a pair the slot ends.  Viewers that are not
\* served in pairs get the colour packet, unless they wait for a keyframe.
Collected ==
  /\ tick.pc = "collect" /\ (tick.flow => ready = <<>>)
  /\ IF tick.have = NoPacket
     THEN UNCHANGED primary /\ tick' = ToPairs(tick.todo)
     ELSE /\ primary' = [primary EXCEPT !.out = @ + 1]
          /\ LET plain == {v \in tick.routed :
                             /\ ~(tick.flow /\ viewer[v].alpha)
                             /\ viewer[v].waiting => tick.have.key} IN
             tick' = IF plain = {} THEN PlainSent
                     ELSE [tick EXCEPT !.pc = "plain", !.plain = plain]
  /\ UNCHANGED <<pairerVars, phase, config, generation, pendingKey, alphaUp,
                 queueVars, worker, slot, control, viewerVars, events>>

\* The plain sends; only a keyframe that was sent ends the wait.
SendPlain ==
  /\ tick.pc = "plain"
  /\ \E sent \in SUBSET tick.plain :
       /\ IF sent = tick.plain THEN UNCHANGED events ELSE Intervene
       /\ viewer' = [v \in Viewers |->
         IF v \in sent /\ tick.have.key
         THEN [viewer[v] EXCEPT !.waiting = FALSE] ELSE viewer[v]]
  /\ tick' = PlainSent
  /\ UNCHANGED <<pairerVars, phase, config, generation, pendingKey, encoderVars,
                 queueVars, worker, slot, control, shown>>

\* Mutant of HalfOf: a finished packet belongs to the latest admission.
HalfOfMutant(packet, side, enc) ==
  IF latestAdmission.gen # generation THEN NoHalf
  ELSE [ts |-> latestAdmission.ts, gen |-> generation,
        seq |-> latestAdmission.seq, codec |-> packet.codec, key |-> packet.key,
        enc |-> enc, frame |-> packet.frame]

\* The half an encoder's packet becomes, none if its admission is unknown or
\* of a retired generation.
HalfOf(packet, side, enc) ==
  LET adm == Resolved(packet.ts, side) IN
  IF adm = NoAdmission \/ adm.gen # generation THEN NoHalf
  ELSE [ts |-> packet.ts, gen |-> adm.gen, seq |-> adm.seq,
        codec |-> packet.codec, key |-> packet.key, enc |-> enc,
        frame |-> packet.frame]

ResolvePrimary ==
  /\ tick.pc = "resolve"
  /\ Resolve(tick.have.ts, "primary") /\ UNCHANGED matchVars
  /\ LET half == HalfOf(tick.have, "primary", primary.out) IN
     tick' = IF half = NoHalf THEN ToPairs(tick.todo)
             ELSE [tick EXCEPT !.pc = "submit", !.have = NoPacket, !.half = half]
  /\ UNCHANGED <<phase, config, generation, pendingKey, encoderVars, queueVars,
                 worker, slot, control, viewerVars, events>>

SubmitColour ==
  /\ tick.pc = "submit"
  /\ SubmitPrimary(tick.half)
  /\ tick' = ToPairs(Extended(tick.todo))
  /\ UNCHANGED <<phase, config, generation, pendingKey, encoderVars, queueVars,
                 worker, slot, control, viewerVars, events>>

\* Whom a pair concerns: nobody, if its generation was retired.
AlphaViewers(pair) ==
  {v \in tick.routed : viewer[v].alpha /\ pair.primary.gen = generation}

Wait(w) == [w EXCEPT !.waiting = TRUE, !.cutoff = Cutoff(@)]

\* A pair that breaks the keyframe contract stops every alpha viewer; from
\* time to time the encoder that broke it is asked for a keyframe directly.
RejectPair ==
  /\ tick.pc = "pairs"
  /\ LET pair == Head(tick.todo) IN
     /\ ~SatisfiesContract(pair)
     /\ viewer' = [v \in Viewers |-> IF v \in AlphaViewers(pair)
                                     THEN Wait(viewer[v]) ELSE viewer[v]]
     /\ pendingKey' = (pendingKey \/ pair.primary.gen = generation)
     /\ \/ UNCHANGED primary
        \/ /\ pair.alpha.key
           /\ primary' = [primary EXCEPT !.owes = primary.up]
  /\ tick' = ToPairs(Tail(tick.todo))
  /\ UNCHANGED <<pairerVars, phase, config, generation, alphaUp, queueVars,
                 worker, slot, control, shown, events>>

\* The pair is news to the viewer, and starts it if it waits.
Eligible(w, pair) ==
  /\ NewerThan(pair, w.cutoff)
  /\ w.waiting => CanStart(pair)

\* What becomes of a viewer offered a pair.  The alpha half goes first; if a
\* half is refused the viewer waits for a new start.
Offered(w, pair, sent) ==
  IF ~Eligible(w, pair) THEN w
  ELSE IF ~PreservesChain(pair, w.last) THEN Wait(w)
  ELSE IF ~w.bound THEN w
  ELSE IF ~sent THEN [w EXCEPT !.waiting = TRUE,
                        !.cutoff = Larger(@, pair.primary.seq)]
  ELSE [w EXCEPT !.last = pair.primary.enc,
          !.waiting = IF CanStart(pair) THEN FALSE ELSE @]

Delivered(w, pair) ==
  Eligible(w, pair) /\ PreservesChain(pair, w.last) /\ w.bound

DispatchPair ==
  /\ tick.pc = "pairs"
  /\ LET pair == Head(tick.todo)
         concerned == AlphaViewers(pair) IN
     /\ SatisfiesContract(pair)
     /\ \E sent \in SUBSET concerned :
          /\ IF sent = concerned THEN UNCHANGED events ELSE Intervene
          /\ viewer' = [v \in Viewers |->
               IF v \in concerned
               THEN Offered(viewer[v], pair, v \in sent) ELSE viewer[v]]
          /\ shown' = [v \in Viewers |->
               IF v \in sent /\ Delivered(viewer[v], pair)
               THEN [enc |-> pair.primary.enc, key |-> pair.primary.key]
               ELSE shown[v]]
     /\ pendingKey' = (pendingKey \/ \E v \in concerned :
                         viewer'[v].cutoff # viewer[v].cutoff)
  /\ tick' = ToPairs(Tail(tick.todo))
  /\ UNCHANGED <<pairerVars, phase, config, generation, encoderVars, queueVars,
                 worker, slot, control>>

Tick ==
  \/ BeginTick \/ AdmitFrame \/ FrameWithoutPlane
  \/ EncodeReturns \/ EncodeUntimed \/ EncodeYieldsNothing \/ RecoverEncoder
  \/ FallBackToH264 \/ Renegotiate
  \/ Collect \/ Collected \/ SendPlain \/ ResolvePrimary \/ SubmitColour
  \/ RejectPair \/ DispatchPair

---------------------------------------------------------------------------
(* The alpha thread.  It runs until capture has stopped the encode thread. *)

AlphaThreadRuns == phase \in {"capturing", "stopping"}

\* A pending reconfiguration goes before a frame.
TakeReconfigure ==
  /\ worker.pc = "idle" /\ AlphaThreadRuns /\ reconfigure
  /\ reconfigure' = FALSE
  /\ worker' = [worker EXCEPT !.pc = "reconfigure"]
  /\ UNCHANGED <<pairerVars, phase, config, generation, pendingKey, encoderVars,
                 job, ready, tick, slot, control, viewerVars, events>>

TakeJob ==
  /\ worker.pc = "idle" /\ AlphaThreadRuns /\ ~reconfigure /\ job # NoJob
  /\ job' = NoJob
  /\ worker' = [worker EXCEPT !.pc = "encode", !.job = job]
  /\ UNCHANGED <<pairerVars, phase, config, generation, pendingKey, encoderVars,
                 reconfigure, ready, tick, slot, control, viewerVars, events>>

\* The alpha encoder is restarted and the finished halves are dropped.
Reconfigure ==
  /\ worker.pc = "reconfigure"
  /\ ready' = <<>>
  /\ \E ok \in BOOLEAN :
       /\ alphaUp' = ok
       /\ worker' = IF ok THEN IdleWorker ELSE [worker EXCEPT !.pc = "disable"]
  /\ UNCHANGED <<pairerVars, phase, config, generation, pendingKey, primary, job,
                 reconfigure, tick, slot, control, viewerVars, events>>

\* If it could not restart, alpha is turned off, under videoSendMutex_.
DisableAlpha ==
  /\ worker.pc = "disable" /\ SendFree
  /\ config' = [config EXCEPT !.alpha = FALSE]
  /\ job' = NoJob /\ worker' = IdleWorker
  /\ UNCHANGED <<pairerVars, phase, generation, pendingKey, encoderVars,
                 reconfigure, ready, tick, slot, control, viewerVars, events>>

\* The frame becomes an alpha packet, normally a keyframe, and the packet gets
\* its admission; one of a retired generation is dropped.  Encoding touches
\* nothing the other threads see, so one action does both.  An encoder process
\* that was late for one frame may hand out that packet for the next: the packet
\* bears its own frame and time, by which alone it is resolved, so a packet
\* handed out late is taken as one encoded late.
EncodeAlpha ==
  /\ worker.pc = "encode" /\ alphaUp
  /\ \E key \in BOOLEAN :
       LET packet == [ts |-> worker.job.adm.ts, frame |-> worker.job.frame,
                      codec |-> "VP9", key |-> key]
           half == HalfOf(packet, "alpha", 0) IN
       /\ IF key THEN UNCHANGED events ELSE Intervene
       /\ Resolve(packet.ts, "alpha") /\ UNCHANGED matchVars
       /\ IF half = NoHalf
          THEN worker' = IdleWorker /\ UNCHANGED pendingKey
          ELSE /\ worker' = [IdleWorker EXCEPT !.pc = "push", !.half = half]
               /\ pendingKey' = (pendingKey \/ ~key)
  /\ UNCHANGED <<phase, config, generation, encoderVars, queueVars, tick, slot,
                 control, viewerVars>>

\* The encoder is down or fails, or its packet has no time to trust.
EncodeAlphaFails ==
  /\ worker.pc = "encode"
  /\ worker' = IdleWorker
  /\ \/ ~alphaUp /\ UNCHANGED <<pendingKey, events>>
     \/ alphaUp /\ Intervene /\ pendingKey' \in {pendingKey, TRUE}
  /\ UNCHANGED <<pairerVars, phase, config, generation, encoderVars, queueVars,
                 tick, slot, control, viewerVars>>

PushAlpha ==
  /\ worker.pc = "push"
  /\ ready' = Bounded(Append(ready, worker.half), MaxReady)
  /\ worker' = IdleWorker
  /\ UNCHANGED <<pairerVars, phase, config, generation, pendingKey, encoderVars,
                 job, reconfigure, tick, slot, control, viewerVars, events>>

AlphaThread ==
  \/ TakeReconfigure \/ TakeJob \/ Reconfigure \/ DisableAlpha
  \/ EncodeAlpha \/ EncodeAlphaFails \/ PushAlpha

---------------------------------------------------------------------------
(* The viewers.                                                            *)

NewTransport ==
  /\ Intervene
  /\ \E v \in Viewers : Rebuild(v)
  /\ UNCHANGED <<pairerVars, phase, config, generation, encoderVars, queueVars,
                 threadVars>>

\* A viewer's message or a change of its connection is handled field by field,
\* unlocked: viewer[v].telling says which comes next.
messageRest == <<pairerVars, phase, config, generation, encoderVars, queueVars,
                 threadVars>>

\* The viewer announces that it can receive alpha.
AnnounceAlpha ==
  /\ Intervene
  /\ \E v \in Viewers :
       /\ viewer[v].telling = "no"
       /\ ~viewer[v].alpha
       /\ viewer' = [viewer EXCEPT ![v].alpha = TRUE, ![v].telling = "cutoff"]
  /\ UNCHANGED <<messageRest, pendingKey, shown>>

AnnounceCutoff ==
  /\ \E v \in Viewers :
       /\ viewer[v].telling = "cutoff"
       /\ viewer' = [viewer EXCEPT ![v].cutoff = Cutoff(@),
                                   ![v].telling = "waiting"]
  /\ UNCHANGED <<messageRest, pendingKey, shown, events>>

AnnounceWaiting ==
  /\ \E v \in Viewers :
       /\ viewer[v].telling = "waiting"
       /\ viewer' = [viewer EXCEPT ![v].waiting = TRUE, ![v].telling = "no"]
  /\ pendingKey' = TRUE
  /\ UNCHANGED <<messageRest, shown, events>>

WithdrawAlpha ==
  /\ Intervene
  /\ \E v \in Viewers :
       /\ viewer[v].telling = "no"
       /\ viewer[v].alpha
       /\ viewer' = [viewer EXCEPT ![v].alpha = FALSE]
  /\ UNCHANGED <<messageRest, pendingKey, shown>>

\* The viewer connected, asks for an ICE restart, or was muted: its next frame
\* is a keyframe.
RefreshWaiting ==
  /\ Intervene
  /\ \E v \in Viewers :
       /\ viewer[v].telling = "no"
       /\ viewer' = [viewer EXCEPT ![v].waiting = TRUE, ![v].telling = "reserve"]
  /\ UNCHANGED <<messageRest, pendingKey, shown>>

RefreshCutoff ==
  /\ \E v \in Viewers :
       /\ viewer[v].telling = "reserve"
       /\ viewer' = [viewer EXCEPT ![v].cutoff = Cutoff(@),
                                   ![v].telling = "no"]
  /\ pendingKey' = TRUE
  /\ UNCHANGED <<messageRest, shown, events>>

ViewerStep ==
  \/ NewTransport \/ AnnounceAlpha \/ AnnounceCutoff \/ AnnounceWaiting
  \/ WithdrawAlpha \/ RefreshWaiting \/ RefreshCutoff

---------------------------------------------------------------------------
(* Runtime control of the encoders, while capturing_ is set.               *)

Controllable == phase # "stopped" /\ control.pc = "idle" /\ SendFree

ControlTo(l) == control' = [control EXCEPT !.pc = l]

\* A new resolution or rate: the colour encoder is restarted.  If that fails
\* the old configuration is restored, if it can be.  A new bitrate alone, with
\* alpha off, is told to the encoder.
ControlReinit ==
  /\ Controllable /\ Intervene
  /\ \/ /\ primary' = Fresh(primary)
        /\ control' = [IdleControl EXCEPT !.pc = "retire", !.kind = "reinit",
                          !.config = config]
     \/ /\ primary' \in {Fresh(primary), Down(primary)}
        /\ UNCHANGED control
     \/ /\ ~config.alpha /\ UNCHANGED primary
        /\ control' = [IdleControl EXCEPT !.pc = "retire", !.kind = "bitrate",
                          !.config = config]
  /\ UNCHANGED <<pairerVars, phase, config, generation, pendingKey, alphaUp,
                 queueVars, worker, tick, slot, viewerVars>>

\* Without alpha, a hardware encoder's replacement is prepared unlocked; it
\* takes over only if nothing changed meanwhile.
ControlPrepare ==
  /\ Controllable /\ Intervene
  /\ config = [codec |-> "H264", alpha |-> FALSE] /\ primary.up
  /\ control' = [IdleControl EXCEPT !.pc = "preparing", !.kind = "replace",
                    !.config = config]
  /\ primary' = [primary EXCEPT !.steady = TRUE]
  /\ UNCHANGED <<pairerVars, phase, config, generation, pendingKey, alphaUp,
                 queueVars, worker, tick, slot, viewerVars>>

ControlHandOver ==
  /\ control.pc = "preparing" /\ tick.pc \in {"idle", "renegotiate"}
  /\ \/ /\ phase # "stopped" /\ config = control.config /\ primary.steady
        /\ primary' = Fresh(primary) /\ pendingKey' = TRUE
        /\ ControlTo("retire")
     \/ /\ control' = IdleControl
        /\ primary' = [primary EXCEPT !.steady = FALSE]
        /\ UNCHANGED pendingKey
  /\ UNCHANGED <<pairerVars, phase, config, generation, alphaUp, queueVars,
                 worker, tick, slot, viewerVars, events>>

\* A viewer's answer rejected VP9, capturing or not: the colour encoder falls
\* back to H.264, and the alpha encoder goes down even if the fallback fails.
ControlRejected ==
  /\ control.pc = "idle" /\ SendFree /\ Intervene
  /\ config.codec = "VP9"
  /\ primary' = Down(primary)
  /\ control' = [IdleControl EXCEPT !.pc = "retire", !.kind = "fallback",
                    !.config = config]
  /\ UNCHANGED <<pairerVars, phase, config, generation, pendingKey, alphaUp,
                 queueVars, worker, tick, slot, viewerVars>>

\* A new bitrate only: the alpha thread is asked to reconfigure.
ControlBitrate ==
  /\ Controllable /\ Intervene
  /\ config.alpha
  /\ IF AlphaThreadRuns
     THEN /\ RetireGeneration(TRUE)
          /\ UNCHANGED matchVars
          /\ control' = [IdleControl EXCEPT !.pc = "cleared", !.kind = "bitrate",
                            !.config = config]
          /\ UNCHANGED pendingKey
     ELSE /\ pendingKey' = TRUE
          /\ UNCHANGED <<pairerVars, generation, job, reconfigure, control>>
  /\ UNCHANGED <<phase, config, encoderVars, ready, worker, tick, slot,
                 viewerVars>>

\* clearAlphaEncodeQueues, before and after the alpha encoder is restarted.
ControlRetire ==
  /\ control.pc \in {"retire", "retireAgain"}
  /\ RetireGeneration(FALSE)
  /\ UNCHANGED matchVars
  /\ ControlTo(IF control.pc = "retire" THEN "clear" ELSE "cleared")
  /\ UNCHANGED <<phase, config, pendingKey, encoderVars, ready, worker, tick,
                 slot, viewerVars, events>>

ControlClear ==
  /\ control.pc = "clear"
  /\ ClearPairs
  /\ ControlTo("alpha")
  /\ UNCHANGED <<trackerVars, phase, config, generation, pendingKey, encoderVars,
                 job, reconfigure, worker, tick, slot, viewerVars, events>>

\* Alpha is dropped if its encoder does not restart.
ControlAlpha ==
  /\ control.pc = "alpha"
  /\ \E ok \in BOOLEAN :
       /\ alphaUp' = (ok /\ config.alpha /\ control.kind = "reinit")
       /\ control' = [control EXCEPT !.pc = "retireAgain",
            !.config.alpha = @ /\ (ok \/ control.kind = "fallback")]
  /\ UNCHANGED <<pairerVars, phase, config, generation, pendingKey, primary,
                 queueVars, worker, tick, slot, viewerVars, events>>

\* The new configuration is published, with a keyframe unless only the frame
\* rate was new.
ControlCommit ==
  /\ control.pc = "cleared" /\ control.kind # "fallback"
  /\ ClearPairs
  /\ config' = control.config
  /\ IF control.kind = "reinit" THEN pendingKey' \in {pendingKey, TRUE}
                                ELSE pendingKey' = TRUE
  /\ control' = IdleControl
  /\ UNCHANGED <<trackerVars, phase, generation, encoderVars, job, reconfigure,
                 worker, tick, slot, viewerVars, events>>

\* After the H.264 fallback every viewer is offered a new transport; without
\* it the old encoder is restored, if it can be.
ControlFallback ==
  /\ control.pc = "cleared" /\ control.kind = "fallback"
  /\ ClearPairs
  /\ \/ /\ config' = [codec |-> "H264", alpha |-> FALSE]
        /\ primary' = Fresh(primary) /\ pendingKey' = TRUE
        /\ control' = [control EXCEPT !.pc = "offers", !.offer = Viewers]
     \/ /\ primary' \in {Fresh(primary), primary}
        /\ control' = IdleControl
        /\ UNCHANGED <<config, pendingKey>>
  /\ UNCHANGED <<trackerVars, phase, generation, alphaUp, job, reconfigure,
                 worker, tick, slot, viewerVars, events>>

ControlOffers ==
  /\ control.pc = "offers"
  /\ \/ \E v \in control.offer :
          /\ Rebuild(v)
          /\ control' = [control EXCEPT !.offer = @ \ {v}]
     \/ /\ control.offer = {}
        /\ control' = IdleControl
        /\ UNCHANGED <<viewerVars, pendingKey>>
  /\ UNCHANGED <<pairerVars, phase, config, generation, encoderVars, queueVars,
                 worker, tick, slot, events>>

ControlThread ==
  \/ ControlReinit \/ ControlPrepare \/ ControlHandOver \/ ControlRejected
  \/ ControlBitrate \/ ControlRetire \/ ControlClear \/ ControlAlpha
  \/ ControlCommit \/ ControlFallback \/ ControlOffers

---------------------------------------------------------------------------
(* Capture.                                                                *)

\* startCapture: the encoders start, a VP9 one without alpha falling back to
\* H.264; alpha is dropped if its encoder does not start.  A failure before
\* the threads run leaves capture stopped.
StartCapture ==
  /\ phase = "stopped" /\ SendFree
  /\ \E started \in {config} \cup
         (IF config = [codec |-> "VP9", alpha |-> FALSE]
          THEN {[codec |-> "H264", alpha |-> FALSE]} ELSE {}), ok \in BOOLEAN :
       /\ config' = [started EXCEPT !.alpha = @ /\ ok]
       /\ alphaUp' = (started.alpha /\ ok)
  /\ primary' = Fresh(primary) /\ pendingKey' = FALSE
  /\ RetireGeneration(FALSE) /\ UNCHANGED matchVars
  /\ phase' = "capturing"
  /\ UNCHANGED <<ready, threadVars, viewerVars, events>>

StopCapture ==
  /\ phase = "capturing" /\ Intervene
  /\ phase' = "stopping"
  /\ UNCHANGED <<pairerVars, config, generation, pendingKey, encoderVars,
                 queueVars, threadVars, viewerVars>>

\* The encode thread is joined, then the alpha thread, then the queues are
\* cleared.
JoinEncode ==
  /\ phase = "stopping" /\ tick.pc = "idle"
  /\ phase' = "draining"
  /\ UNCHANGED <<pairerVars, config, generation, pendingKey, encoderVars,
                 queueVars, threadVars, viewerVars, events>>

JoinAlpha ==
  /\ phase = "draining" /\ worker.pc = "idle"
  /\ RetireGeneration(FALSE) /\ UNCHANGED matchVars
  /\ phase' = "clearing"
  /\ UNCHANGED <<config, pendingKey, encoderVars, ready, threadVars, viewerVars,
                 events>>

ClearQueues ==
  /\ phase = "clearing"
  /\ ClearPairs
  /\ phase' = "shut"
  /\ UNCHANGED <<trackerVars, config, generation, pendingKey, encoderVars, job,
                 reconfigure, threadVars, viewerVars, events>>

\* The encoders are shut down under videoSendMutex_; capturing_ is cleared.
ShutEncoders ==
  /\ phase = "shut" /\ SendFree
  /\ primary' = Down(primary) /\ alphaUp' = FALSE
  /\ RetireGeneration(FALSE) /\ UNCHANGED matchVars
  /\ pendingKey' = FALSE /\ phase' = "stopped"
  /\ UNCHANGED <<config, ready, threadVars, viewerVars, events>>

\* The maintenance thread asks for a keyframe when one is due.
PeriodicKeyframe ==
  /\ phase = "capturing" /\ ~pendingKey /\ Intervene
  /\ pendingKey' = TRUE
  /\ UNCHANGED <<pairerVars, phase, config, generation, encoderVars, queueVars,
                 threadVars, viewerVars>>

Capture ==
  \/ StartCapture \/ StopCapture \/ JoinEncode \/ JoinAlpha \/ ClearQueues
  \/ ShutEncoders \/ PeriodicKeyframe

---------------------------------------------------------------------------

Next == Tick \/ AlphaThread \/ ViewerStep \/ ControlThread \/ Capture

Spec == Init /\ [][Next]_vars

\* Both halves of every pair show the same captured frame, whatever the
\* encoders delayed or lost and however often the pipeline was retired
\* (alpha_frame_pairer.h: "a packet is compositable only with the packet
\* produced from the same source").
PairsShowOneFrame ==
  \A i \in 1..Len(pairs) : pairs[i].primary.frame = pairs[i].alpha.frame

\* On one transport, an H.264 colour frame that depends on its predecessor is
\* sent in a pair only if that predecessor was the colour frame sent just
\* before it, however transports, capabilities and encoders changed in between
\* ("missing an alpha half must not let the next H.264 P frame reference a
\* primary packet this peer never got").  The one exception: while a viewer's
\* capability is stored and its cutoff is not, an older pair may still reach it.
ChainIsUnbroken ==
  [][\A v \in Viewers :
       shown'[v] \notin {shown[v], NothingShown} =>
         \/ shown'[v].key
         \/ shown[v].enc # 0 /\ shown'[v].enc = shown[v].enc + 1
         \/ viewer[v].telling = "cutoff"]_shown
=============================================================================
