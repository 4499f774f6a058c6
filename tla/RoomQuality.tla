---------------------------- MODULE RoomQuality ----------------------------
(***************************************************************************)
(* The publisher's side of room quality: the video configuration, the      *)
(* room it is live in, the decision whether low-quality viewers exist, the *)
(* low-quality encoder and the tier cached for every viewer.               *)
(*                                                                         *)
(* All of it is guarded by videoSendMutex_, and one critical section of    *)
(* that lock is one step here.  The exception is the code's own: a runtime *)
(* control lets the lock go while it prepares a replacement encoder and    *)
(* looks again afterwards (Prepare and Handover).                          *)
(*                                                                         *)
(* Left out: sizes and frame rates (a rate stands for everything a runtime *)
(* control may change), the warning a commit may raise, and the encoders'  *)
(* own failures (VideoEncoder).  The sessions are described here and       *)
(* driven by ViewerControl.                                                *)
(***************************************************************************)
EXTENDS Naturals, FiniteSets

CONSTANTS
    Viewers,      \* the sessions that may exist
    Rates,        \* what a runtime control chooses from
    Settings,     \* the configurations the user can choose
    NoViewer      \* no session

ASSUME RatesAssumption == Rates # {}
ASSUME NoViewerAssumption == NoViewer \notin Viewers

VARIABLES
    live,         \* live_
    capturing,    \* capturing_
    room,         \* room_ is not empty
    lqAsked,      \* startOptions_.roomModeLqEnabled
    config,       \* videoConfig_
    quality,      \* roomQualityState_
    lqOn,         \* lqEncoderInitialized_
    app,          \* the application thread: idle, or inside goLive or startCapture
    leaving,      \* who is in stopLive, between clearing sessions and leaving the room
    control,      \* runtimeVideoControlMutex_ and the replacement it prepares
    viewer        \* PeerSession, what the tier depends on

publisherVars == <<live, capturing, room, lqAsked, config, quality, lqOn, app,
                   leaving, control>>

Codecs == {"h264", "vp9", "other"}   \* other: H.265, VP8 and AV1
Roles == {"scene", "director", "guest", "viewer"}
Tiers == {"none", "hq", "lq"}
Actors == Viewers \cup {NoViewer}     \* NoViewer: the application thread
Configs == [codec : Codecs, alpha : BOOLEAN, rate : Rates]

ASSUME SettingsAssumption == Settings \subseteq Configs /\ Settings # {}

(* The codecs a VP9 alpha track can go beside.                             *)
UsesAlpha(c) == c.alpha /\ c.codec \in {"h264", "vp9"}

(* The reason in words is a function of the three inputs and left out.     *)
Decision(inRoom, asked, codec) ==
    [room      |-> inRoom,
     requested |-> asked,
     effective |-> inRoom /\ asked /\ codec = "h264"]

QualityOf(c, inRoom, asked) ==
    [decision |-> Decision(inRoom, asked, c.codec),
     codec    |-> c.codec,
     alpha    |-> UsesAlpha(c)]

(* A session as onOfferRequest creates it.                                 *)
NewSession(inRoom) ==
    [joined |-> TRUE, roomMode |-> inRoom, chan |-> "new", open |-> FALSE,
     init |-> FALSE, roleValid |-> FALSE, role |-> "unknown", video |-> TRUE,
     alpha |-> FALSE, saw |-> FALSE, route |-> TRUE, tier |-> "none",
     deadline |-> "off"]

(* The one admission rule for routing and for the low-quality encoder.     *)
LqRoutingAllowed(q, c) ==
    q.decision.effective /\ c.codec = "h264" /\ q.codec = "h264"

AssignStreamTier(roomMode, effective, roleValid, role) ==
    IF ~roomMode THEN "hq"
    ELSE IF ~roleValid THEN "none"
    ELSE IF role = "scene" \/ ~effective THEN "hq" ELSE "lq"

SelectEffectiveTier(policy, forceHq) ==
    IF policy # "none" /\ forceHq THEN "hq" ELSE policy

PeerTier(s, q, c) ==
    SelectEffectiveTier(
        AssignStreamTier(s.roomMode, LqRoutingAllowed(q, c), s.roleValid, s.role),
        q.alpha /\ s.alpha)

CanSendVideo(s, effective) ==
    /\ s.video
    /\ s.roomMode => s.init
    /\ AssignStreamTier(s.roomMode, effective, s.roleValid, s.role) # "none"

\* Mutant of RefreshedTiers: the tiers wait for the next frame.
RefreshedTiersMutant(q, c) == viewer

(* Every session in the map gets the tier the new decision gives it.       *)
RefreshedTiers(q, c) ==
    [v \in Viewers |->
        IF viewer[v].joined
        THEN [viewer[v] EXCEPT !.tier = PeerTier(viewer[v], q, c)]
        ELSE viewer[v]]

(* Configuration, room and request are committed with the decision, the    *)
(* cached tiers and the low-quality encoder in one critical section.       *)
Commit(c, inRoom, asked) ==
    /\ config' = c
    /\ room' = inRoom
    /\ lqAsked' = asked
    /\ quality' = QualityOf(c, inRoom, asked)
    /\ viewer' = RefreshedTiers(QualityOf(c, inRoom, asked), c)
    /\ lqOn' = (lqOn /\ QualityOf(c, inRoom, asked).decision.effective)

(* A decision updated for a codec keeps room and request.                  *)
CommitForCodec(c) == Commit(c, room, lqAsked)

(* Any (re)initialisation of the primary encoder moves its revision.       *)
Touched ==
    IF control.by # NoViewer THEN [control EXCEPT !.touched = TRUE] ELSE control

FreeControl == [by |-> NoViewer]

-----------------------------------------------------------------------------
(* The application thread.                                                 *)

App(at) == [at |-> at]

SetVideoConfig(c) ==
    /\ app.at = "idle"
    /\ CommitForCodec(c)
    /\ UNCHANGED <<live, capturing, app, leaving, control>>

(* goLive: the room and the request take effect before signaling starts,   *)
(* live_ only when the stream is published.                                *)
GoLive(inRoom, asked) ==
    /\ app.at = "idle" /\ ~live
    /\ Commit(config, inRoom, asked)
    /\ app' = App("goingLive")
    /\ UNCHANGED <<live, capturing, leaving, control>>

Published ==
    /\ app.at = "goingLive"
    /\ live' = TRUE
    /\ app' = App("idle")
    /\ UNCHANGED <<capturing, room, lqAsked, config, quality, lqOn, leaving,
                   control, viewer>>

(* stopLive up to clearPeerSessions, by the application, by a goLive that  *)
(* failed, or by a viewer's hangup.                                        *)
StopLive(a) ==
    /\ a \notin leaving
    /\ a = NoViewer =>
         \/ app.at = "idle" /\ live
         \/ app.at = "goingLive"
    /\ live' = FALSE
    /\ leaving' = leaving \cup {a}
    /\ app' = IF a = NoViewer THEN App("leaving") ELSE app
    /\ viewer' = [v \in Viewers |-> [viewer[v] EXCEPT !.joined = FALSE]]
    /\ UNCHANGED <<capturing, room, lqAsked, config, quality, lqOn, control>>

(* The end of stopLive: the room is given up, the request stays.           *)
LeaveRoom(a) ==
    /\ a \in leaving
    /\ Commit(config, FALSE, lqAsked)
    /\ leaving' = leaving \ {a}
    /\ app' = IF a = NoViewer THEN App("idle") ELSE app
    /\ UNCHANGED <<live, capturing, control>>

(* stopCapture, on its own or as the first thing startCapture does.        *)
CaptureStops ==
    /\ capturing' = FALSE
    /\ lqOn' = FALSE
    /\ control' = Touched

StopCapture ==
    /\ app.at = "idle" /\ capturing
    /\ CaptureStops
    /\ UNCHANGED <<live, room, lqAsked, config, quality, app, leaving, viewer>>

(* startCapture copies the configuration, lets the lock go, ...            *)
StartCapture ==
    /\ app.at = "idle"
    /\ CaptureStops
    /\ app' = [at |-> "starting", copy |-> config]
    /\ UNCHANGED <<live, room, lqAsked, config, quality, leaving, viewer>>

(* ... and initialises the encoders from the copy under the lock again.    *)
(* With alpha asked for and no alpha encoder, the configuration loses      *)
(* alpha.                                                                  *)
EncodersStart ==
    /\ app.at = "starting"
    /\ \/ UNCHANGED <<room, lqAsked, config, quality, lqOn, viewer>>
       \/ UsesAlpha(app.copy) /\ CommitForCodec([config EXCEPT !.alpha = FALSE])
    /\ app' = App("started")
    /\ control' = Touched
    /\ UNCHANGED <<live, capturing, leaving>>

(* Without a primary encoder H.264 is tried, except for an alpha workflow  *)
(* (or H.264 itself): the copy, not the current configuration, is kept.    *)
EncodersFallBack ==
    /\ app.at = "starting"
    /\ app.copy.codec # "h264" /\ ~UsesAlpha(app.copy)
    /\ CommitForCodec([app.copy EXCEPT !.codec = "h264", !.alpha = FALSE])
    /\ app' = App("started")
    /\ control' = Touched
    /\ UNCHANGED <<live, capturing, leaving>>

(* The rollback of a start that failed runs stopCapture again.             *)
RollBack ==
    /\ app' = App("idle")
    /\ CaptureStops
    /\ UNCHANGED <<live, room, lqAsked, config, quality, leaving, viewer>>

EncodersFail == app.at = "starting" /\ RollBack

(* The primary encoder is gone again, or the audio encoder does not start. *)
AudioFails == app.at = "started" /\ RollBack

(* syncRoomQualityDecision, then capturing_.                               *)
CaptureRuns ==
    /\ app.at = "started"
    /\ CommitForCodec(config)
    /\ capturing' = TRUE
    /\ app' = App("idle")
    /\ UNCHANGED <<live, leaving, control>>

-----------------------------------------------------------------------------
(* The encode threads.                                                     *)

(* The low-quality encoder runs exactly as long as a viewer of the frame   *)
(* needs it; when it fails to start, the next frame tries again.           *)
LowEncoder(low) == lqOn' \in IF low = {} THEN {FALSE} ELSE {TRUE, lqOn}

(* A frame routes every viewer with an active track by the decision of     *)
(* that moment and stores its tier.  Adapting the primary encoder to the   *)
(* size of the frame may fail, which ends the frame early.                 *)
EncodeFrame(active) ==
    LET allowed == LqRoutingAllowed(quality, config)
        routed == {v \in active : /\ viewer[v].joined /\ viewer[v].route
                                  /\ CanSendVideo(viewer[v], allowed)}
        tierOf(v) == PeerTier(viewer[v], quality, config)
        low == {v \in routed : tierOf(v) = "lq"}
    IN /\ live /\ capturing
       /\ viewer' = [v \in Viewers |->
                        IF v \in routed
                        THEN [viewer[v] EXCEPT !.tier = tierOf(v)]
                        ELSE viewer[v]]
       /\ LowEncoder(low) \/ (routed # {} /\ lqOn' = lqOn)
       /\ control' \in {control, Touched}
       /\ UNCHANGED <<live, capturing, room, lqAsked, config, quality, app,
                      leaving>>

\* Mutant of CodecFallsBack: the decision does not follow the codec.
CodecFallsBackMutant ==
    /\ live /\ capturing
    /\ ~UsesAlpha(config)
    /\ config' = [config EXCEPT !.codec = "h264", !.alpha = FALSE]
    /\ control' = Touched
    /\ UNCHANGED <<live, capturing, room, lqAsked, quality, lqOn, app, leaving, viewer>>

(* An encoder running another codec is unstable: H.264 instead, but never  *)
(* for an alpha workflow.                                                  *)
CodecFallsBack ==
    /\ live /\ capturing
    /\ ~UsesAlpha(config)
    /\ CommitForCodec([config EXCEPT !.codec = "h264", !.alpha = FALSE])
    /\ control' = Touched
    /\ UNCHANGED <<live, capturing, app, leaving>>

(* Hardware recovery ends in some H.264 encoder; alpha stays asked for if  *)
(* it was in use.                                                          *)
HardwareRecovers ==
    /\ live /\ capturing
    /\ CommitForCodec([config EXCEPT !.codec = "h264", !.alpha = UsesAlpha(config)])
    /\ control' = Touched
    /\ UNCHANGED <<live, capturing, app, leaving>>

(* The alpha thread could not apply a reconfiguration.                     *)
AlphaFails ==
    /\ capturing
    /\ UsesAlpha(config)
    /\ CommitForCodec([config EXCEPT !.alpha = FALSE])
    /\ UNCHANGED <<live, capturing, app, leaving, control>>

(* A viewer's answer refused the codec: H.264 or, without it, the previous *)
(* encoder; with neither only the low-quality encoder is gone.             *)
AnswerRejected ==
    /\ config.codec # "h264"
    /\ \/ CommitForCodec([config EXCEPT !.codec = "h264", !.alpha = FALSE])
       \/ CommitForCodec(config)
       \/ lqOn' = FALSE /\ UNCHANGED <<room, lqAsked, config, quality, viewer>>
    /\ control' = Touched
    /\ UNCHANGED <<live, capturing, app, leaving>>

(* The maintenance thread finds no active track.                           *)
NoTrackActive ==
    /\ live /\ capturing /\ lqOn
    /\ lqOn' = FALSE
    /\ UNCHANGED <<live, capturing, room, lqAsked, config, quality, app,
                   leaving, control, viewer>>

-----------------------------------------------------------------------------
(* applyRuntimeVideoControl for a viewer that asks for rate r.  The        *)
(* first critical section ends the call unless a replacement has to be     *)
(* prepared: the rate is in force, or nothing changed because it was or    *)
(* because the encoder could not take it, or the alpha encoder is lost.    *)

WithRate(r) == [config EXCEPT !.rate = r]

ControlIsApplied(r) ==
    /\ control.by = NoViewer
    /\ \/ config' = WithRate(r) /\ UNCHANGED <<quality, viewer, lqOn>>
       \/ capturing /\ UNCHANGED <<config, quality, viewer, lqOn>>
       \/ /\ capturing /\ r # config.rate /\ UsesAlpha(config)
          /\ CommitForCodec([WithRate(r) EXCEPT !.alpha = FALSE])
    /\ UNCHANGED <<live, capturing, room, lqAsked, app, leaving, control>>

Prepare(v, r) ==
    /\ control.by = NoViewer
    /\ capturing /\ r # config.rate
    /\ config.codec = "h264" /\ ~UsesAlpha(config)
    /\ control' = [by |-> v, base |-> config, rate |-> r, touched |-> FALSE]
    /\ UNCHANGED <<live, capturing, room, lqAsked, config, quality, lqOn, app,
                   leaving, viewer>>

\* Mutant of StillCurrent: the configuration is not compared again.
StillCurrentMutant == capturing /\ ~control.touched

(* What the replacement was prepared for is still what is running.         *)
StillCurrent ==
    capturing /\ config = control.base /\ ~control.touched

Handover(v) ==
    /\ control.by = v
    /\ control' = FreeControl
    /\ \/ StillCurrent /\ config' = [control.base EXCEPT !.rate = control.rate]
       \/ config' = config
    /\ UNCHANGED <<live, capturing, room, lqAsked, quality, lqOn, app, leaving, viewer>>

-----------------------------------------------------------------------------
PublisherInit ==
    /\ live = FALSE /\ capturing = FALSE
    /\ room = FALSE /\ lqAsked = FALSE
    /\ config \in Settings
    /\ quality = QualityOf(config, FALSE, FALSE)
    /\ lqOn = FALSE
    /\ app = App("idle")
    /\ leaving = {}
    /\ control = FreeControl

Publisher ==
    \/ \E c \in Settings : SetVideoConfig(c)
    \/ \E inRoom, asked \in BOOLEAN : GoLive(inRoom, asked)
    \/ Published
    \/ LeaveRoom(NoViewer)
    \/ StartCapture \/ EncodersStart \/ EncodersFallBack \/ EncodersFail \/ AudioFails
    \/ CaptureRuns
    \/ \E active \in SUBSET Viewers : EncodeFrame(active)
    \/ CodecFallsBack \/ HardwareRecovers \/ AlphaFails \/ AnswerRejected
    \/ NoTrackActive

-----------------------------------------------------------------------------
(* Properties of the publisher's side.                                     *)

(* Whenever videoSendMutex_ is free, the decision, the codec and the alpha *)
(* routing that frames and viewers are routed by are those of the          *)
(* configuration, room and request in force, and no low-quality encoder    *)
(* runs that the decision does not allow: every place that changes the     *)
(* codec commits a decision with it ("authoritative codec, decision, alpha *)
(* routing, and cached peer tiers coherent", commitRoomQualityDecision-    *)
(* Locked).                                                                *)
Coherent ==
    /\ quality = QualityOf(config, room, lqAsked)
    /\ lqOn => LqRoutingAllowed(quality, config)

(* A runtime control changes the rate and nothing else of the              *)
(* configuration, except that alpha may be lost: a replacement prepared    *)
(* while the lock was free never brings back a codec, an alpha workflow or *)
(* a rate that somebody changed meanwhile.                                 *)
ControlKeepsOthers ==
    [][control.by # NoViewer /\ control'.by = NoViewer /\ config' # config =>
         config' = [config EXCEPT !.rate = control.rate]]_<<control, config>>
=============================================================================
