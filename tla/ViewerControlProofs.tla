------------------------ MODULE ViewerControlProofs ------------------------
(***************************************************************************)
(* What holds for any number of viewers, any messages and any settings:    *)
(* the decision is that of the configuration in force, a role a viewer     *)
(* gave itself stands, the cached tiers are current, and a runtime control *)
(* changes the rate only.                                                  *)
(***************************************************************************)
EXTENDS ViewerControl, TLAPS

-----------------------------------------------------------------------------
(* The operators the actions are built from.                               *)

LEMMA TierIsATier ==
    ASSUME NEW s, NEW q, NEW c
    PROVE  PeerTier(s, q, c) \in Tiers
BY DEF PeerTier, SelectEffectiveTier, AssignStreamTier, Tiers

(* A new tier leaves the rest of a session alone.                          *)
LEMMA NewTier ==
    ASSUME NEW s \in Sessions, NEW t \in Tiers
    PROVE  /\ [s EXCEPT !.tier = t] \in Sessions
           /\ [s EXCEPT !.tier = t].init = s.init
           /\ [s EXCEPT !.tier = t].roleValid = s.roleValid
           /\ [s EXCEPT !.tier = t].role = s.role
BY DEF Sessions

(* The sessions differ in nothing but what a role does not depend on.      *)
SameRoles ==
    /\ viewer' \in [Viewers -> Sessions]
    /\ \A v \in Viewers : /\ viewer'[v].init = viewer[v].init
                          /\ viewer'[v].roleValid = viewer[v].roleValid
                          /\ viewer'[v].role = viewer[v].role

LEMMA RefreshKeepsRoles ==
    ASSUME TypeOK, NEW q, NEW c, viewer' = RefreshedTiers(q, c)
    PROVE  SameRoles
<1>1. ASSUME NEW v \in Viewers
      PROVE  /\ viewer'[v] \in Sessions
             /\ viewer'[v].init = viewer[v].init
             /\ viewer'[v].roleValid = viewer[v].roleValid
             /\ viewer'[v].role = viewer[v].role
    <2>1. viewer[v] \in Sessions
        BY DEF TypeOK
    <2>2. PeerTier(viewer[v], q, c) \in Tiers
        BY TierIsATier
    <2>3. viewer'[v] = viewer[v] \/ viewer'[v] = [viewer[v] EXCEPT !.tier = PeerTier(viewer[v], q, c)]
        BY DEF RefreshedTiers
    <2> DEFINE s == [viewer[v] EXCEPT !.tier = PeerTier(viewer[v], q, c)]
    <2>4. /\ s \in Sessions /\ s.init = viewer[v].init
          /\ s.roleValid = viewer[v].roleValid /\ s.role = viewer[v].role
        BY <2>1, <2>2, NewTier
    <2>5. viewer'[v] = viewer[v] \/ viewer'[v] = s
        BY <2>3
    <2> HIDE DEF s
    <2> QED
        BY <2>1, <2>4, <2>5
<1>2. viewer' = [v \in Viewers |-> viewer'[v]]
    BY DEF RefreshedTiers
<1> QED
    BY <1>1, <1>2 DEF SameRoles

(* A commit is coherent by construction, wherever it happens.              *)
LEMMA CommitIsCoherent ==
    ASSUME TypeOK, NEW c \in Configs, NEW r \in BOOLEAN, NEW a \in BOOLEAN, Commit(c, r, a)
    PROVE  /\ config' \in Configs /\ room' \in BOOLEAN /\ lqAsked' \in BOOLEAN
           /\ lqOn' \in BOOLEAN
           /\ SameRoles
           /\ Coherent'
<1>1. config' = c /\ room' = r /\ lqAsked' = a /\ quality' = QualityOf(c, r, a)
    BY DEF Commit
<1>2. SameRoles
    BY RefreshKeepsRoles DEF Commit
<1>3. lqOn' = (lqOn /\ QualityOf(c, r, a).decision.effective)
    BY DEF Commit
<1>4. lqOn' \in BOOLEAN
    BY <1>3 DEF TypeOK
<1>5. lqOn' => LqRoutingAllowed(quality', config')
    BY <1>1, <1>3 DEF QualityOf, Decision, LqRoutingAllowed, TypeOK, Configs, Codecs
<1> QED
    BY <1>1, <1>2, <1>4, <1>5 DEF Coherent

LEMMA CommitForCodecIsCoherent ==
    ASSUME TypeOK, NEW c \in Configs, CommitForCodec(c)
    PROVE  /\ config' \in Configs /\ room' \in BOOLEAN /\ lqAsked' \in BOOLEAN
           /\ lqOn' \in BOOLEAN
           /\ SameRoles
           /\ Coherent'
BY CommitIsCoherent DEF CommitForCodec, TypeOK

(* Neither a rate nor a codec or alpha flag that is taken away moves a     *)
(* configuration out of its type.                                          *)
LEMMA ConfigTypes ==
    ASSUME NEW c \in Configs, NEW b \in BOOLEAN
    PROVE  /\ [c EXCEPT !.alpha = b] \in Configs
           /\ [c EXCEPT !.codec = "h264", !.alpha = b] \in Configs
BY DEF Configs, Codecs

LEMMA RateTypes ==
    ASSUME NEW c \in Configs, NEW r \in Rates
    PROVE  /\ [c EXCEPT !.rate = r] \in Configs
           /\ [c EXCEPT !.rate = r].codec = c.codec
           /\ [c EXCEPT !.rate = r].alpha = c.alpha
           /\ [[c EXCEPT !.rate = r] EXCEPT !.alpha = FALSE] \in Configs
BY DEF Configs, Codecs

(* A rate changes neither the decision nor what it allows.                 *)
LEMMA RateIsCoherent ==
    ASSUME TypeOK, Coherent, NEW r \in Rates,
           config' = [config EXCEPT !.rate = r] \/ config' = config,
           UNCHANGED <<room, lqAsked, quality, lqOn>>
    PROVE  config' \in Configs /\ Coherent'
<1>1. config \in Configs
    BY DEF TypeOK
<1>2. config' \in Configs /\ config'.codec = config.codec /\ config'.alpha = config.alpha
    <2>1. /\ [config EXCEPT !.rate = r] \in Configs
          /\ [config EXCEPT !.rate = r].codec = config.codec
          /\ [config EXCEPT !.rate = r].alpha = config.alpha
        BY <1>1, RateTypes
    <2> QED
        BY <1>1, <2>1
<1>3. QualityOf(config', room, lqAsked) = QualityOf(config, room, lqAsked)
    BY <1>2 DEF QualityOf, UsesAlpha
<1>4. LqRoutingAllowed(quality, config') <=> LqRoutingAllowed(quality, config)
    BY <1>2 DEF LqRoutingAllowed
<1> QED
    BY <1>2, <1>3, <1>4 DEF Coherent

LEMMA TouchedType ==
    ASSUME TypeOK
    PROVE  Touched \in [by : {NoViewer}]
                        \cup [by : Viewers, base : Configs, rate : Rates, touched : BOOLEAN]
BY DEF TypeOK, Touched

-----------------------------------------------------------------------------
(* The parts of the types that each kind of action may change.             *)

StreamType ==
    /\ live \in BOOLEAN /\ capturing \in BOOLEAN
    /\ room \in BOOLEAN /\ lqAsked \in BOOLEAN /\ lqOn \in BOOLEAN
    /\ config \in Configs

ThreadType ==
    /\ app \in [at : {"idle", "goingLive", "started", "leaving"}]
                \cup [at : {"starting"}, copy : Configs]
    /\ leaving \subseteq Actors
    /\ control \in [by : {NoViewer}]
                    \cup [by : Viewers, base : Configs, rate : Rates, touched : BOOLEAN]

LaneType ==
    /\ task \in [Viewers -> Tasks]
    /\ sent \in [Viewers -> 0 .. MaxMessages]
    /\ due \subseteq Viewers
    /\ checked \in Actors
    /\ named \in [Viewers -> Roles \cup {"none"}]

LEMMA TypeParts == TypeOK <=> /\ StreamType /\ ThreadType /\ LaneType
                              /\ viewer \in [Viewers -> Sessions]
BY DEF TypeOK, StreamType, ThreadType, LaneType

IInv == TypeOK /\ Coherent /\ PlannedRoleOK /\ RoleIsTheViewersOwn

(* A step that touches no handler and no role keeps what is known of them. *)
LEMMA RolesKept ==
    ASSUME IInv, SameRoles, UNCHANGED <<task, named>>
    PROVE  PlannedRoleOK' /\ RoleIsTheViewersOwn'
BY DEF IInv, SameRoles, PlannedRoleOK, RoleIsTheViewersOwn

LEMMA SessionsUnchanged ==
    ASSUME TypeOK, UNCHANGED viewer
    PROVE  SameRoles
BY DEF TypeOK, SameRoles

LEMMA CoherentUnchanged ==
    ASSUME Coherent, UNCHANGED <<config, room, lqAsked, quality>>, lqOn' => lqOn
    PROVE  Coherent'
BY DEF Coherent

-----------------------------------------------------------------------------
(* The publisher's steps.                                                  *)

(* A frame starts the low-quality encoder for a viewer of that tier, and   *)
(* that tier exists only while the decision allows it.                     *)
LEMMA FrameStep ==
    ASSUME TypeOK, Coherent, NEW active \in SUBSET Viewers, EncodeFrame(active)
    PROVE  StreamType' /\ ThreadType' /\ SameRoles /\ Coherent'
<1> DEFINE allowed == LqRoutingAllowed(quality, config)
           routed == {v \in active : /\ viewer[v].joined /\ viewer[v].route
                                     /\ CanSendVideo(viewer[v], allowed)}
           tierOf(v) == PeerTier(viewer[v], quality, config)
           low == {v \in routed : tierOf(v) = "lq"}
<1>1. /\ viewer' = [v \in Viewers |->
                       IF v \in routed THEN [viewer[v] EXCEPT !.tier = tierOf(v)]
                       ELSE viewer[v]]
      /\ LowEncoder(low) \/ (routed # {} /\ lqOn' = lqOn)
      /\ control' \in {control, Touched}
      /\ UNCHANGED <<live, capturing, room, lqAsked, config, quality, app, leaving>>
    BY DEF EncodeFrame
<1>2. lqOn' => LqRoutingAllowed(quality, config)
    <2>1. ASSUME NEW v \in low PROVE LqRoutingAllowed(quality, config)
        BY <2>1 DEF PeerTier, SelectEffectiveTier, AssignStreamTier
    <2>2. lqOn => LqRoutingAllowed(quality, config)
        BY DEF Coherent
    <2> HIDE DEF low
    <2> QED
        BY <1>1, <2>1, <2>2 DEF LowEncoder
<1>3. SameRoles
    <2>1. ASSUME NEW v \in Viewers
          PROVE  /\ viewer'[v] \in Sessions
                 /\ viewer'[v].init = viewer[v].init
                 /\ viewer'[v].roleValid = viewer[v].roleValid
                 /\ viewer'[v].role = viewer[v].role
        <3> DEFINE s == [viewer[v] EXCEPT !.tier = tierOf(v)]
        <3>1. viewer[v] \in Sessions /\ tierOf(v) \in Tiers
            BY TierIsATier DEF TypeOK
        <3>2. /\ s \in Sessions /\ s.init = viewer[v].init
              /\ s.roleValid = viewer[v].roleValid /\ s.role = viewer[v].role
            BY <3>1, NewTier
        <3>3. viewer'[v] = viewer[v] \/ viewer'[v] = s
            BY <1>1
        <3> HIDE DEF s
        <3> QED
            BY <3>1, <3>2, <3>3
    <2> HIDE DEF routed, tierOf
    <2>2. viewer' = [v \in Viewers |-> viewer'[v]]
        BY <1>1
    <2> QED
        BY <2>1, <2>2 DEF SameRoles
<1> HIDE DEF low
<1>4. lqOn' \in BOOLEAN
    BY <1>1 DEF LowEncoder, TypeOK, StreamType
<1>5. StreamType' /\ ThreadType'
    <2>1. UNCHANGED <<live, capturing, room, lqAsked, config, quality, app, leaving>>
        BY <1>1
    <2>2. control' \in {control, Touched}
        BY <1>1
    <2> QED
        BY ZenonT(40), <1>4, <2>1, <2>2, TouchedType DEF TypeOK, StreamType, ThreadType
<1> QED
    BY <1>1, <1>2, <1>3, <1>5 DEF Coherent

LEMMA PublisherStep ==
    ASSUME IInv, Publisher, UNCHANGED laneVars
    PROVE  IInv'
<1> USE DEF laneVars
<1>0. TypeOK /\ Coherent /\ StreamType /\ ThreadType /\ LaneType
    BY TypeParts DEF IInv
<1>1. LaneType'
    BY <1>0 DEF LaneType
<1>2. SUFFICES StreamType' /\ ThreadType' /\ SameRoles /\ Coherent'
    BY <1>1, RolesKept DEF IInv, SameRoles, TypeOK, StreamType, ThreadType, LaneType
<1>18. /\ config \in Configs
       /\ [config EXCEPT !.alpha = FALSE] \in Configs
       /\ [config EXCEPT !.codec = "h264", !.alpha = FALSE] \in Configs
       /\ [config EXCEPT !.codec = "h264", !.alpha = UsesAlpha(config)] \in Configs
    <2>1. config \in Configs /\ UsesAlpha(config) \in BOOLEAN
        BY <1>0 DEF StreamType, UsesAlpha, Configs
    <2> QED
        BY <2>1, ConfigTypes
<1>3. CASE \E c \in Settings : SetVideoConfig(c)
    <2>1. PICK c \in Settings : SetVideoConfig(c)
        BY <1>3
    <2>2. c \in Configs /\ CommitForCodec(c)
        BY <2>1, SettingsAssumption DEF SetVideoConfig
    <2> QED
        BY <1>0, <2>1, <2>2, CommitForCodecIsCoherent DEF SetVideoConfig, StreamType, ThreadType
<1>4. CASE \E inRoom, asked \in BOOLEAN : GoLive(inRoom, asked)
    <2>1. PICK inRoom \in BOOLEAN, asked \in BOOLEAN : GoLive(inRoom, asked)
        BY <1>4
    <2>2. config \in Configs /\ Commit(config, inRoom, asked)
        BY <1>0, <2>1 DEF GoLive, StreamType
    <2> QED
        BY <1>0, <2>1, <2>2, CommitIsCoherent DEF GoLive, StreamType, ThreadType, App
<1>5. CASE Published
    BY <1>0, <1>5, SessionsUnchanged, CoherentUnchanged
       DEF Published, StreamType, ThreadType, App
<1>6. CASE LeaveRoom(NoViewer)
    <2>1. config \in Configs /\ lqAsked \in BOOLEAN /\ Commit(config, FALSE, lqAsked)
        BY <1>0, <1>6 DEF LeaveRoom, StreamType
    <2> QED
        BY <1>0, <1>6, <2>1, CommitIsCoherent DEF LeaveRoom, StreamType, ThreadType, App
<1>7. CASE StartCapture
    <2>1. lqOn' = FALSE /\ UNCHANGED <<config, room, lqAsked, quality, viewer>>
        BY <1>7 DEF StartCapture, CaptureStops
    <2>2. SameRoles /\ Coherent'
        BY <1>0, <2>1, SessionsUnchanged, CoherentUnchanged
    <2> QED
        BY <1>0, <1>7, <2>2, TouchedType DEF StartCapture, CaptureStops, StreamType, ThreadType
<1>8. CASE EncodersStart
    <2>1. CASE UNCHANGED <<room, lqAsked, config, quality, lqOn, viewer>>
        <3>1. SameRoles /\ Coherent'
            BY <1>0, <2>1, SessionsUnchanged, CoherentUnchanged
        <3> QED
            BY <1>0, <1>8, <2>1, <3>1, TouchedType
               DEF EncodersStart, StreamType, ThreadType, App
    <2>2. CASE \E c \in Configs : CommitForCodec(c)
        <3>1. PICK c \in Configs : CommitForCodec(c)
            BY <2>2
        <3> QED
            BY <1>0, <1>8, <3>1, CommitForCodecIsCoherent, TouchedType
               DEF EncodersStart, StreamType, ThreadType, App
    <2> QED
        BY <1>8, <1>18, <2>1, <2>2 DEF EncodersStart
<1>9. CASE EncodersFallBack
    <2>1. app.copy \in Configs
        BY <1>0, <1>9 DEF EncodersFallBack, ThreadType
    <2>2. PICK c \in Configs : CommitForCodec(c)
        <3>1. [app.copy EXCEPT !.codec = "h264", !.alpha = FALSE] \in Configs
            BY <2>1, ConfigTypes
        <3> QED
            BY <1>9, <3>1 DEF EncodersFallBack
    <2> QED
        BY <1>0, <1>9, <2>2, CommitForCodecIsCoherent, TouchedType
           DEF EncodersFallBack, StreamType, ThreadType, App
<1>10. CASE EncodersFail \/ AudioFails
    <2>0. RollBack
        BY <1>10 DEF EncodersFail, AudioFails
    <2>1. lqOn' = FALSE /\ UNCHANGED <<config, room, lqAsked, quality, viewer>>
        BY <2>0 DEF RollBack, CaptureStops
    <2>2. SameRoles /\ Coherent'
        BY <1>0, <2>1, SessionsUnchanged, CoherentUnchanged
    <2> QED
        BY <1>0, <2>0, <2>2, TouchedType
           DEF RollBack, CaptureStops, StreamType, ThreadType, App
<1>11. CASE CaptureRuns
    <2>1. config \in Configs /\ CommitForCodec(config)
        BY <1>0, <1>11 DEF CaptureRuns, StreamType
    <2> QED
        BY <1>0, <1>11, <2>1, CommitForCodecIsCoherent
           DEF CaptureRuns, StreamType, ThreadType, App
<1>12. CASE \E active \in SUBSET Viewers : EncodeFrame(active)
    BY <1>0, <1>12, FrameStep
<1>13. CASE CodecFallsBack
    <2>1. PICK c \in Configs : CommitForCodec(c)
        BY <1>13, <1>18 DEF CodecFallsBack
    <2> QED
        BY <1>0, <1>13, <2>1, CommitForCodecIsCoherent, TouchedType
           DEF CodecFallsBack, StreamType, ThreadType
<1>14. CASE HardwareRecovers
    <2>1. PICK c \in Configs : CommitForCodec(c)
        BY <1>14, <1>18 DEF HardwareRecovers
    <2> QED
        BY <1>0, <1>14, <2>1, CommitForCodecIsCoherent, TouchedType
           DEF HardwareRecovers, StreamType, ThreadType
<1>15. CASE AlphaFails
    <2>1. PICK c \in Configs : CommitForCodec(c)
        BY <1>15, <1>18 DEF AlphaFails
    <2> QED
        BY <1>0, <1>15, <2>1, CommitForCodecIsCoherent DEF AlphaFails, StreamType, ThreadType
<1>16. CASE AnswerRejected
    <2>1. CASE lqOn' = FALSE /\ UNCHANGED <<room, lqAsked, config, quality, viewer>>
        <3>1. SameRoles /\ Coherent'
            BY <1>0, <2>1, SessionsUnchanged, CoherentUnchanged
        <3> QED
            BY <1>0, <1>16, <2>1, <3>1, TouchedType DEF AnswerRejected, StreamType, ThreadType
    <2>2. CASE \E c \in Configs : CommitForCodec(c)
        <3>1. PICK c \in Configs : CommitForCodec(c)
            BY <2>2
        <3> QED
            BY <1>0, <1>16, <3>1, CommitForCodecIsCoherent, TouchedType
               DEF AnswerRejected, StreamType, ThreadType
    <2> QED
        BY <1>16, <1>18, <2>1, <2>2 DEF AnswerRejected
<1>17. CASE NoTrackActive
    <2>1. SameRoles /\ Coherent'
        BY <1>0, <1>17, SessionsUnchanged, CoherentUnchanged DEF NoTrackActive
    <2> QED
        BY <1>0, <1>17, <2>1 DEF NoTrackActive, StreamType, ThreadType
<1> QED
    BY <1>3, <1>4, <1>5, <1>6, <1>7, <1>8, <1>9, <1>10, <1>11, <1>12, <1>13, <1>14,
       <1>15, <1>16, <1>17 DEF Publisher



-----------------------------------------------------------------------------
(* What the steps of a lane do to a session and to its handler.            *)

LEMMA SessionOperators ==
    ASSUME NEW s \in Sessions
    PROVE  /\ Armed(s) \in Sessions /\ Heard(s) \in Sessions /\ Informed(s) \in Sessions
           /\ \A t \in {Armed(s), Heard(s), Informed(s)} :
                 t.init = s.init /\ t.roleValid = s.roleValid /\ t.role = s.role
<1>1. PeerTier(s, quality, config) \in Tiers
    BY TierIsATier
<1>2. /\ Informed(s) \in Sessions /\ Informed(s).init = s.init
      /\ Informed(s).roleValid = s.roleValid /\ Informed(s).role = s.role
    BY <1>1, NewTier DEF Informed
<1>3. /\ Armed(s) \in Sessions /\ Armed(s).init = s.init
      /\ Armed(s).roleValid = s.roleValid /\ Armed(s).role = s.role
    BY DEF Armed, Sessions
<1>4. /\ Heard(s) \in Sessions /\ Heard(s).init = s.init
      /\ Heard(s).roleValid = s.roleValid /\ Heard(s).role = s.role
    BY DEF Heard, Armed, Sessions
<1> QED
    BY <1>2, <1>3, <1>4

(* A change of what a role does not depend on.                             *)
LEMMA SessionFlags ==
    ASSUME NEW s \in Sessions
    PROVE  /\ [s EXCEPT !.joined = FALSE] \in Sessions
           /\ [s EXCEPT !.joined = FALSE].init = s.init
           /\ [s EXCEPT !.joined = FALSE].roleValid = s.roleValid
           /\ [s EXCEPT !.joined = FALSE].role = s.role
           /\ [s EXCEPT !.deadline = "due"] \in Sessions
           /\ [s EXCEPT !.deadline = "due"].init = s.init
           /\ [s EXCEPT !.deadline = "due"].roleValid = s.roleValid
           /\ [s EXCEPT !.deadline = "due"].role = s.role
           /\ [s EXCEPT !.chan = "closed", !.open = FALSE, !.deadline = "off"] \in Sessions
<1>1. /\ [s EXCEPT !.joined = FALSE] \in Sessions
      /\ [s EXCEPT !.joined = FALSE].init = s.init
      /\ [s EXCEPT !.joined = FALSE].roleValid = s.roleValid
      /\ [s EXCEPT !.joined = FALSE].role = s.role
    BY DEF Sessions
<1>2. /\ [s EXCEPT !.deadline = "due"] \in Sessions
      /\ [s EXCEPT !.deadline = "due"].init = s.init
      /\ [s EXCEPT !.deadline = "due"].roleValid = s.roleValid
      /\ [s EXCEPT !.deadline = "due"].role = s.role
    BY DEF Sessions
<1>3. [s EXCEPT !.chan = "closed", !.open = FALSE, !.deadline = "off"] \in Sessions
    BY DEF Sessions
<1> QED
    BY <1>1, <1>2, <1>3

(* An introduction with a valid role introduces, and with that role.       *)
LEMMA Introduction ==
    ASSUME NEW s \in Sessions, NEW valid \in BOOLEAN, NEW role \in Roles \cup {"unknown"},
           NEW video \in BOOLEAN
    PROVE  /\ Introduced(s, valid, role, video) \in Sessions
           /\ Introduced(s, valid, role, video).role = role
           /\ Introduced(s, valid, role, video).roleValid = valid
           /\ valid => Introduced(s, valid, role, video).init
<1> DEFINE told == [s EXCEPT !.roleValid = valid, !.role = role, !.video = video]
<1>1. told \in Sessions /\ told.roleValid = valid /\ told.role = role
    BY DEF Sessions
<1>2. PeerTier(told, quality, config) \in Tiers
    BY TierIsATier
<1>3. Introduced(s, valid, role, video) =
        IF s.roomMode
        THEN [told EXCEPT !.tier = PeerTier(told, quality, config), !.init = valid,
                          !.deadline = IF valid THEN "off" ELSE @]
        ELSE [told EXCEPT !.tier = "hq", !.init = TRUE, !.deadline = "off"]
    BY DEF Introduced
<1> HIDE DEF told
<1> DEFINE t == PeerTier(told, quality, config)
<1>4. /\ [told EXCEPT !.tier = "hq", !.init = TRUE, !.deadline = "off"] \in Sessions
      /\ [told EXCEPT !.tier = "hq", !.init = TRUE, !.deadline = "off"].role = told.role
      /\ [told EXCEPT !.tier = "hq", !.init = TRUE, !.deadline = "off"].roleValid = told.roleValid
      /\ [told EXCEPT !.tier = "hq", !.init = TRUE, !.deadline = "off"].init
    BY <1>1 DEF Sessions, Tiers
<1> HIDE DEF t
<1>5. ASSUME NEW d \in {"off", told.deadline}
      PROVE  /\ [told EXCEPT !.tier = t, !.init = valid, !.deadline = d] \in Sessions
             /\ [told EXCEPT !.tier = t, !.init = valid, !.deadline = d].role = told.role
             /\ [told EXCEPT !.tier = t, !.init = valid, !.deadline = d].roleValid = told.roleValid
             /\ [told EXCEPT !.tier = t, !.init = valid, !.deadline = d].init = valid
    <2>1. t \in Tiers
        BY <1>2 DEF t
    <2> QED
        BY <1>1, <2>1 DEF Sessions
<1>6. PICK d \in {"off", told.deadline} :
         Introduced(s, valid, role, video) =
            IF s.roomMode
            THEN [told EXCEPT !.tier = t, !.init = valid, !.deadline = d]
            ELSE [told EXCEPT !.tier = "hq", !.init = TRUE, !.deadline = "off"]
    BY <1>3 DEF t
<1> QED
    BY <1>1, <1>4, <1>5, <1>6

(* Setting one session, with its roles as they were.                       *)
LEMMA SetKeepsRoles ==
    ASSUME TypeOK, NEW v \in Viewers, NEW s \in Sessions, Set(v, s),
           s.init = viewer[v].init, s.roleValid = viewer[v].roleValid,
           s.role = viewer[v].role
    PROVE  SameRoles
BY DEF TypeOK, Set, SameRoles

(* A handler that goes on, or ends, without a role in its hands.           *)
LEMMA HandlerMoves ==
    ASSUME IInv, SameRoles, NEW v \in Viewers, NEW t, t.at # "apply",
           task' = [task EXCEPT ![v] = t], named' = named
    PROVE  PlannedRoleOK' /\ RoleIsTheViewersOwn'
BY DEF IInv, SameRoles, PlannedRoleOK, RoleIsTheViewersOwn, TypeOK

LEMMA TaskParts ==
    ASSUME NEW t \in Tasks
    PROVE  /\ t.at \in {"info", "announce", "authorize", "init", "media", "apply"} =>
                  t.m \in MessageFields
           /\ t.at \in {"init", "media", "apply"} =>
                  t.may \in BOOLEAN /\ t.directs \in BOOLEAN
           /\ t.at = "apply" =>
                  /\ t.role \in Roles \cup {"unknown"}
                  /\ t.valid \in BOOLEAN /\ t.video \in BOOLEAN
           /\ t.at = "control" => t.rate \in Rates
           /\ t.at \in {"info", "announce"} =>
                  [t EXCEPT !.at = "announce"] \in Tasks /\ [t EXCEPT !.at = "authorize"] \in Tasks
           /\ t.at = "init" => [t EXCEPT !.at = "media"] \in Tasks
           /\ t.at = "hangup" => [t EXCEPT !.at = "hangingUp"] \in Tasks
           /\ t.at = "hangingUp" => [t EXCEPT !.at = "hungUp"] \in Tasks
BY DEF Tasks

LEMMA TaskMoves ==
    ASSUME NEW t \in Tasks, NEW a \in {"announce", "authorize", "media", "hangingUp", "hungUp"}
    PROVE  [t EXCEPT !.at = a].at # "apply"
BY DEF Tasks

(* A step that leaves the publisher alone.                                 *)
LEMMA PublisherKept ==
    ASSUME IInv, UNCHANGED publisherVars
    PROVE  StreamType' /\ ThreadType' /\ Coherent'
BY DEF IInv, TypeOK, publisherVars, StreamType, ThreadType, Coherent

(* The parts put together again.                                           *)
LEMMA PartsMakeIInv ==
    ASSUME StreamType', ThreadType', LaneType', SameRoles, Coherent',
           PlannedRoleOK', RoleIsTheViewersOwn'
    PROVE  IInv'
BY DEF IInv, TypeOK, StreamType, ThreadType, LaneType, SameRoles

LEMMA StoppingIsSafe ==
    ASSUME IInv, NEW a \in Actors, StopLive(a)
    PROVE  StreamType' /\ ThreadType' /\ SameRoles /\ Coherent'
<1>1. TypeOK /\ Coherent
    BY DEF IInv
<1>2. ASSUME NEW v \in Viewers
      PROVE  /\ [viewer[v] EXCEPT !.joined = FALSE] \in Sessions
             /\ [viewer[v] EXCEPT !.joined = FALSE].init = viewer[v].init
             /\ [viewer[v] EXCEPT !.joined = FALSE].roleValid = viewer[v].roleValid
             /\ [viewer[v] EXCEPT !.joined = FALSE].role = viewer[v].role
    BY <1>1, SessionFlags DEF TypeOK
<1>3. SameRoles
    BY <1>2 DEF StopLive, SameRoles
<1>4. Coherent'
    BY <1>1 DEF StopLive, Coherent
<1> QED
    BY <1>1, <1>3, <1>4 DEF StopLive, StreamType, ThreadType, TypeOK, App

LEMMA StopStep ==
    ASSUME IInv, Stop
    PROVE  IInv'
<1>1. CASE StopLive(NoViewer)
    <2>1. StreamType' /\ ThreadType' /\ SameRoles /\ Coherent'
        BY <1>1, StoppingIsSafe DEF Actors
    <2>2. LaneType' /\ UNCHANGED <<task, named>>
        BY DEF IInv, TypeOK, Stop, laneVars, LaneType
    <2> QED
        BY <2>1, <2>2, RolesKept, PartsMakeIInv
<1>2. CASE StopCapture
    <2>0. TypeOK /\ Coherent
        BY DEF IInv
    <2>1. SameRoles /\ Coherent'
        BY <1>2, <2>0, SessionsUnchanged, CoherentUnchanged DEF StopCapture, CaptureStops
    <2>2. StreamType' /\ ThreadType'
        BY <1>2, <2>0, TouchedType DEF StopCapture, CaptureStops, TypeOK, StreamType, ThreadType
    <2>3. LaneType' /\ UNCHANGED <<task, named>>
        BY DEF IInv, TypeOK, Stop, laneVars, LaneType
    <2> QED
        BY <2>1, <2>2, <2>3, RolesKept, PartsMakeIInv
<1> QED
    BY <1>1, <1>2 DEF Stop

-----------------------------------------------------------------------------
(* Channels and the maintenance thread.                                    *)

LEMMA ChannelStep ==
    ASSUME IInv, NEW v \in Viewers, Channel(v)
    PROVE  IInv'
<1>0. TypeOK /\ viewer[v] \in Sessions
    BY DEF IInv, TypeOK
<1>1. CASE Join(v)
    <2>1. NewSession(room) \in Sessions
        BY <1>0 DEF NewSession, Sessions, Tiers, TypeOK
    <2>2. UNCHANGED publisherVars /\ UNCHANGED <<task, sent, due, checked>>
        BY <1>1 DEF Join
    <2>3. /\ viewer' = [viewer EXCEPT ![v] = NewSession(room)]
          /\ named' = [named EXCEPT ![v] = "none"]
          /\ task[v].at # "apply"
        BY <1>1 DEF Join, Set, IsIdle
    <2>4. TypeOK'
        BY <1>0, <2>1, <2>2, <2>3 DEF TypeOK, publisherVars
    <2>5. PlannedRoleOK' /\ RoleIsTheViewersOwn'
        BY <1>0, <2>2, <2>3 DEF IInv, TypeOK, PlannedRoleOK, RoleIsTheViewersOwn
    <2> QED
        BY <2>2, <2>4, <2>5, PublisherKept DEF IInv
<1>2. CASE Leave(v) \/ ChannelIsLost(v) \/ ChannelCloses(v)
    <2>1. PICK s \in Sessions : /\ Set(v, s) /\ s.init = viewer[v].init
                                /\ s.roleValid = viewer[v].roleValid
                                /\ s.role = viewer[v].role
        <3>1. CASE Leave(v)
            BY <1>0, <3>1, SessionFlags DEF Leave
        <3>2. CASE ChannelIsLost(v)
            BY <1>0, <3>2 DEF ChannelIsLost, Sessions
        <3>3. CASE ChannelCloses(v)
            <4> DEFINE c == [viewer[v] EXCEPT !.chan = "closed", !.open = FALSE, !.deadline = "off"]
            <4>1. c \in Sessions
                BY <1>0, SessionFlags
            <4>2. /\ c.init = viewer[v].init /\ c.roleValid = viewer[v].roleValid
                  /\ c.role = viewer[v].role
                BY <1>0 DEF Sessions
            <4>3. Set(v, c)
                BY <3>3 DEF ChannelCloses
            <4> HIDE DEF c
            <4> QED
                BY <4>1, <4>2, <4>3
        <3> QED
            BY <1>2, <3>1, <3>2, <3>3
    <2>2. UNCHANGED publisherVars /\ UNCHANGED laneVars
        BY <1>2 DEF Leave, ChannelIsLost, ChannelCloses
    <2>3. SameRoles
        BY <1>0, <2>1, SetKeepsRoles
    <2>4. LaneType' /\ UNCHANGED <<task, named>>
        BY <1>0, <2>2 DEF TypeOK, laneVars, LaneType
    <2> QED
        BY <2>2, <2>3, <2>4, RolesKept, PublisherKept, PartsMakeIInv
<1>3. CASE ChannelOpens(v) \/ ReceivePing(v)
    <2>1. PICK s \in Sessions : /\ Set(v, s) /\ s.init = viewer[v].init
                                /\ s.roleValid = viewer[v].roleValid
                                /\ s.role = viewer[v].role
        <3>1. CASE ChannelOpens(v)
            <4> DEFINE o == [viewer[v] EXCEPT !.chan = "open", !.open = TRUE]
            <4>1. /\ o \in Sessions /\ o.init = viewer[v].init
                  /\ o.roleValid = viewer[v].roleValid /\ o.role = viewer[v].role
                BY <1>0 DEF Sessions
            <4>2. Set(v, Informed(Armed(o)))
                BY <3>1 DEF ChannelOpens, MayOpen
            <4> HIDE DEF o
            <4>3. /\ Armed(o) \in Sessions /\ Armed(o).init = o.init
                  /\ Armed(o).roleValid = o.roleValid /\ Armed(o).role = o.role
                BY <4>1, SessionOperators
            <4>4. /\ Informed(Armed(o)) \in Sessions /\ Informed(Armed(o)).init = o.init
                  /\ Informed(Armed(o)).roleValid = o.roleValid
                  /\ Informed(Armed(o)).role = o.role
                BY <4>3, SessionOperators
            <4> QED
                BY <4>1, <4>2, <4>4
        <3>2. CASE ReceivePing(v)
            BY <1>0, <3>2, SessionOperators DEF ReceivePing, Hears
        <3> QED
            BY <1>3, <3>1, <3>2
    <2>2. UNCHANGED publisherVars /\ UNCHANGED laneVars
        BY <1>3 DEF ChannelOpens, MayOpen, ReceivePing, Hears
    <2>3. SameRoles
        BY <1>0, <2>1, SetKeepsRoles
    <2>4. LaneType' /\ UNCHANGED <<task, named>>
        BY <1>0, <2>2 DEF TypeOK, laneVars, LaneType
    <2> QED
        BY <2>2, <2>3, <2>4, RolesKept, PublisherKept, PartsMakeIInv
<1>4. CASE ReceiveMessage(v)
    <2>1. PICK m \in MessageFields : Receive(v, m)
        BY <1>4, MessagesAssumption DEF ReceiveMessage
    <2>2. SameRoles
        BY <1>0, <2>1, SessionOperators, SetKeepsRoles DEF Receive, Hears
    <2> DEFINE t == [at |-> "info", m |-> m]
    <2>3. t \in Tasks /\ t.at # "apply"
        BY DEF Tasks
    <2>4. UNCHANGED publisherVars /\ UNCHANGED <<due, checked, named>>
          /\ task' = [task EXCEPT ![v] = t]
        BY <2>1 DEF Receive, Hears
    <2> HIDE DEF t
    <2>5. sent' \in [Viewers -> 0 .. MaxMessages]
        BY <1>0, <1>4, BoundAssumption DEF ReceiveMessage, TypeOK
    <2>6. LaneType'
        BY <1>0, <2>3, <2>4, <2>5 DEF TypeOK, LaneType
    <2>7. PlannedRoleOK' /\ RoleIsTheViewersOwn'
        BY <2>2, <2>3, <2>4, HandlerMoves
    <2> QED
        BY <2>2, <2>4, <2>6, <2>7, PublisherKept, PartsMakeIInv
<1> QED
    BY <1>1, <1>2, <1>3, <1>4 DEF Channel

(* A fallback gives a role only to a session that has none.                *)
LEMMA MaintenanceStep ==
    ASSUME IInv, Maintenance \/ \E v \in Viewers : GraceEnds(v)
    PROVE  IInv'
<1>0. TypeOK
    BY DEF IInv
<1>1. CASE CollectExpired
    <2>1. UNCHANGED publisherVars /\ UNCHANGED viewer /\ UNCHANGED <<task, named>>
        BY <1>1 DEF CollectExpired
    <2>2. SameRoles
        BY <1>0, <2>1, SessionsUnchanged
    <2>3. LaneType'
        BY <1>0, <1>1 DEF CollectExpired, Expired, TypeOK, LaneType
    <2> QED
        BY <2>1, <2>2, <2>3, RolesKept, PublisherKept, PartsMakeIInv
<1>2. ASSUME NEW v \in Viewers, CheckExpired(v) PROVE IInv'
    <2>1. UNCHANGED publisherVars /\ UNCHANGED <<task, sent, named>>
          /\ due' = due \ {v} /\ checked' \in {checked, v, NoViewer}
        BY <1>2 DEF CheckExpired
    <2>2. SameRoles
        <3> DEFINE s == [viewer[v] EXCEPT !.deadline = "off"]
        <3>1. /\ s \in Sessions /\ s.init = viewer[v].init
              /\ s.roleValid = viewer[v].roleValid /\ s.role = viewer[v].role
            BY <1>0 DEF TypeOK, Sessions
        <3>2. Set(v, s) \/ UNCHANGED viewer
            BY <1>2 DEF CheckExpired
        <3> HIDE DEF s
        <3> QED
            BY <1>0, <3>1, <3>2, SetKeepsRoles, SessionsUnchanged
    <2>3. LaneType'
        BY <1>0, <2>1 DEF TypeOK, LaneType, Actors
    <2> QED
        BY <2>1, <2>2, <2>3, RolesKept, PublisherKept, PartsMakeIInv
<1>3. ASSUME NEW v \in Viewers, FallBack(v) PROVE IInv'
    <2> DEFINE o == [viewer[v] EXCEPT !.open = TRUE]
    <2>1. /\ o \in Sessions /\ o.init = viewer[v].init
          /\ o.roleValid = viewer[v].roleValid /\ o.role = viewer[v].role
        <3>1. viewer[v] \in Sessions
            BY <1>0 DEF TypeOK
        <3> QED
            BY <3>1 DEF Sessions
    <2>2. UNCHANGED publisherVars /\ UNCHANGED <<task, sent, due, named>>
          /\ checked' = NoViewer /\ viewer' = [viewer EXCEPT ![v] = FallenBack(o)]
        BY <1>3 DEF FallBack, Set
    <2> HIDE DEF o
    <2>3. FallenBack(o) \in Sessions
        BY <2>1, Introduction DEF FallenBack, Roles
    <2>4. o.init => FallenBack(o) = o
        BY DEF FallenBack
    <2>5. TypeOK'
        BY <1>0, <2>2, <2>3 DEF TypeOK, publisherVars, Actors
    <2>6. PlannedRoleOK'
        BY <2>2 DEF IInv, PlannedRoleOK
    <2>7. RoleIsTheViewersOwn'
        BY <1>0, <2>1, <2>2, <2>4 DEF IInv, TypeOK, RoleIsTheViewersOwn
    <2> QED
        BY <2>2, <2>5, <2>6, <2>7, PublisherKept DEF IInv
<1>4. ASSUME NEW v \in Viewers, GraceEnds(v) PROVE IInv'
    <2> DEFINE s == [viewer[v] EXCEPT !.deadline = "due"]
    <2>1. /\ s \in Sessions /\ s.init = viewer[v].init
          /\ s.roleValid = viewer[v].roleValid /\ s.role = viewer[v].role
        BY <1>0, SessionFlags DEF TypeOK
    <2>2. UNCHANGED publisherVars /\ UNCHANGED laneVars /\ Set(v, s)
        BY <1>4 DEF GraceEnds
    <2> HIDE DEF s
    <2>3. SameRoles
        BY <1>0, <2>1, <2>2, SetKeepsRoles
    <2>4. LaneType' /\ UNCHANGED <<task, named>>
        BY <1>0, <2>2 DEF TypeOK, laneVars, LaneType
    <2> QED
        BY <2>2, <2>3, <2>4, RolesKept, PublisherKept, PartsMakeIInv
<1> QED
    BY <1>1, <1>2, <1>3, <1>4 DEF Maintenance

-----------------------------------------------------------------------------
(* The handler.                                                            *)

(* The tasks a handler leaves behind, apart from what it is to apply.      *)
LEMMA LaneMoves ==
    ASSUME IInv, NEW v \in Viewers, NEW t \in Tasks, task' = [task EXCEPT ![v] = t],
           UNCHANGED <<sent, due, checked, named>>
    PROVE  LaneType'
BY DEF IInv, TypeOK, LaneType

LEMMA HandlerGoesOn ==
    ASSUME IInv, StreamType', ThreadType', SameRoles, Coherent', NEW v \in Viewers,
           NEW t \in Tasks, t.at # "apply", task' = [task EXCEPT ![v] = t],
           UNCHANGED <<sent, due, checked, named>>
    PROVE  IInv'
BY LaneMoves, HandlerMoves, PartsMakeIInv

(* The steps before a role is applied read a message and touch nothing a   *)
(* role depends on.                                                        *)
LEMMA ReadingStep ==
    ASSUME IInv, NEW v \in Viewers, HandleInfo(v) \/ Announce(v) \/ Authorize(v)
    PROVE  IInv'
<1>0. TypeOK /\ viewer[v] \in Sessions /\ task[v] \in Tasks
    BY DEF IInv, TypeOK
<1>1. UNCHANGED publisherVars /\ UNCHANGED <<sent, due, checked, named>>
    BY DEF HandleInfo, Announce, Authorize
<1>2. StreamType' /\ ThreadType' /\ Coherent'
    BY <1>1, PublisherKept
<1>3. CASE HandleInfo(v)
    <2> DEFINE m == task[v].m
               takes == IF m.info /\ m.alpha # "keep" THEN m.alpha = "on"
                        ELSE viewer[v].alpha
               s == [viewer[v] EXCEPT !.saw = @ \/ m.info, !.alpha = takes]
    <2>1. task[v].at = "info" /\ m \in MessageFields
        BY <1>0, <1>3, TaskParts DEF HandleInfo
    <2>2. takes \in BOOLEAN /\ m.info \in BOOLEAN
        BY <1>0, <2>1 DEF MessageFields, Sessions
    <2>3. Set(v, s)
        BY <1>3 DEF HandleInfo
    <2>4. PICK t \in Tasks : t.at # "apply" /\ task' = [task EXCEPT ![v] = t]
        <3> DEFINE a == [task[v] EXCEPT !.at = "announce"]
                   b == [task[v] EXCEPT !.at = "authorize"]
        <3>1. a \in Tasks /\ b \in Tasks /\ a.at # "apply" /\ b.at # "apply"
            BY <1>0, <2>1, TaskParts, TaskMoves
        <3>2. task' = [task EXCEPT ![v] = a] \/ task' = [task EXCEPT ![v] = b]
            BY <1>3 DEF HandleInfo, GoOn
        <3> HIDE DEF a, b
        <3> QED
            BY <3>1, <3>2
    <2> HIDE DEF takes, m
    <2>5. /\ s \in Sessions /\ s.init = viewer[v].init
          /\ s.roleValid = viewer[v].roleValid /\ s.role = viewer[v].role
        BY <1>0, <2>2 DEF Sessions
    <2> HIDE DEF s
    <2>6. SameRoles
        BY <1>0, <2>3, <2>5, SetKeepsRoles
    <2> QED
        BY <1>1, <1>2, <2>4, <2>6, HandlerGoesOn
<1>4. CASE Announce(v)
    <2>1. SameRoles
        BY <1>0, <1>4, SessionOperators, SetKeepsRoles DEF Announce
    <2> DEFINE t == [task[v] EXCEPT !.at = "authorize"]
    <2>2. t \in Tasks /\ t.at # "apply"
        BY <1>0, <1>4, TaskParts, TaskMoves DEF Announce
    <2>3. task' = [task EXCEPT ![v] = t]
        BY <1>4 DEF Announce, GoOn
    <2> HIDE DEF t
    <2> QED
        BY <1>1, <1>2, <2>1, <2>2, <2>3, HandlerGoesOn
<1>5. CASE Authorize(v)
    <2>1. SameRoles
        BY <1>0, <1>5, SessionsUnchanged DEF Authorize
    <2> DEFINE may == Authorized(viewer[v], task[v].m)
               directs == may /\ IsDirector(viewer[v])
               t == IF task[v].m.hangup
                    THEN IF may THEN [at |-> "hangup"] ELSE Rest
                    ELSE [at |-> "init", m |-> task[v].m, may |-> may, directs |-> directs]
    <2>2. task[v].m \in MessageFields
        BY <1>0, <1>5, TaskParts DEF Authorize
    <2>3. may \in BOOLEAN /\ directs \in BOOLEAN
        BY <1>0, <2>2, BoundAssumption DEF Authorized, IsDirector, MessageFields
    <2>4. task' = [task EXCEPT ![v] = t]
        BY <1>5 DEF Authorize
    <2> HIDE DEF may, directs
    <2>5. t \in Tasks /\ t.at # "apply"
        BY <2>2, <2>3 DEF Tasks, Rest
    <2> HIDE DEF t
    <2> QED
        BY <1>1, <1>2, <2>1, <2>4, <2>5, HandlerGoesOn
<1> QED
    BY <1>3, <1>4, <1>5

(* What is planned is the role the message names, or the viewer's own: a   *)
(* message without a role keeps a role only of a viewer that is introduced,*)
(* and one that gave itself a role is.                                     *)
LEMMA ReadInitStep ==
    ASSUME IInv, NEW v \in Viewers, ReadInit(v)
    PROVE  IInv'
<1> DEFINE s == viewer[v]
           m == task[v].m
           explicit == m.role # "none"
           kept == s.init /\ ~explicit
           role == IF explicit THEN m.role
                   ELSE IF kept THEN s.role
                   ELSE IF s.roomMode THEN "unknown" ELSE "viewer"
           valid == explicit \/ (IF kept THEN s.roleValid ELSE ~s.roomMode)
           video == IF m.video # "keep" THEN m.video = "on"
                    ELSE IF s.init THEN s.video ELSE TRUE
           plan == [at |-> "apply", m |-> m, may |-> task[v].may,
                    directs |-> task[v].directs, role |-> role, valid |-> valid,
                    video |-> video]
<1>0. TypeOK /\ s \in Sessions /\ task[v] \in Tasks
    BY DEF IInv, TypeOK
<1>1. UNCHANGED publisherVars /\ UNCHANGED <<sent, due, checked, named>>
    BY DEF ReadInit
<1>2. StreamType' /\ ThreadType' /\ Coherent'
    BY <1>1, PublisherKept
<1>3. /\ task[v].at = "init" /\ m \in MessageFields
      /\ task[v].may \in BOOLEAN /\ task[v].directs \in BOOLEAN
    BY <1>0, TaskParts DEF ReadInit
<1>4. SameRoles
    <2>1. UNCHANGED viewer \/ Set(v, Informed(s)) \/ Set(v, s)
        BY DEF ReadInit
    <2>2. CASE Set(v, Informed(s))
        BY <1>0, <2>2, SessionOperators, SetKeepsRoles
    <2>3. CASE Set(v, s)
        BY <1>0, <2>3, SetKeepsRoles
    <2> QED
        BY <1>0, <2>1, <2>2, <2>3, SessionsUnchanged
<1>5. \/ \E t \in Tasks : t.at # "apply" /\ task' = [task EXCEPT ![v] = t]
      \/ task' = [task EXCEPT ![v] = plan] /\ m.role # "bad"
    <2>1. \/ GoOn(v, "media")
          \/ Ends(v)
          \/ task' = [task EXCEPT ![v] = plan] /\ m.role # "bad"
        BY DEF ReadInit
    <2>2. [task[v] EXCEPT !.at = "media"] \in Tasks /\ [task[v] EXCEPT !.at = "media"].at # "apply"
        BY <1>0, <1>3, TaskParts, TaskMoves
    <2>3. Rest \in Tasks /\ Rest.at # "apply"
        BY DEF Rest, Tasks
    <2> HIDE DEF plan
    <2> QED
        BY <2>1, <2>2, <2>3 DEF GoOn, Ends
<1>6. CASE task' = [task EXCEPT ![v] = plan] /\ m.role # "bad"
    <2>1. /\ role \in Roles \cup {"unknown"} /\ valid \in BOOLEAN /\ video \in BOOLEAN
        <3>1. m.role \in Roles \cup {"none", "bad"}
            BY <1>3 DEF MessageFields
        <3>2. s.role \in Roles \cup {"unknown"} /\ s.init \in BOOLEAN
              /\ s.roleValid \in BOOLEAN /\ s.roomMode \in BOOLEAN /\ s.video \in BOOLEAN
            BY <1>0 DEF Sessions
        <3> QED
            BY <1>6, <3>1, <3>2 DEF Roles
    <2>2. m.role # "none" => valid /\ role = m.role
        OBVIOUS
    <2>3. m.role = "none" /\ named[v] # "none" => valid /\ role = named[v]
        BY DEF IInv, RoleIsTheViewersOwn
    <2> HIDE DEF role, valid, video
    <2>4. plan \in Tasks /\ plan.m = m /\ plan.role = role /\ plan.valid = valid
        BY <1>3, <2>1 DEF Tasks
    <2> HIDE DEF plan
    <2>5. LaneType'
        BY <1>1, <1>6, <2>4, LaneMoves
    <2>6. PlannedRoleOK'
        BY <1>0, <1>1, <1>6, <2>2, <2>3, <2>4 DEF IInv, TypeOK, PlannedRoleOK
    <2>7. RoleIsTheViewersOwn'
        BY <1>1, <1>4 DEF IInv, SameRoles, RoleIsTheViewersOwn
    <2> QED
        BY <1>2, <1>4, <2>5, <2>6, <2>7, PartsMakeIInv
<1>7. CASE \E t \in Tasks : t.at # "apply" /\ task' = [task EXCEPT ![v] = t]
    BY <1>1, <1>2, <1>4, <1>7, HandlerGoesOn
<1> HIDE DEF plan, m
<1> QED
    BY <1>5, <1>6, <1>7

(* The application of a plan is where a viewer gets a role.                *)
LEMMA ApplyInitStep ==
    ASSUME IInv, NEW v \in Viewers, ApplyInit(v)
    PROVE  IInv'
<1> DEFINE t == task[v]
           s == Introduced(viewer[v], t.valid, t.role, t.video)
           n == IF t.m.role # "none" THEN t.m.role ELSE named[v]
           u == [at |-> "media", m |-> t.m, may |-> t.may, directs |-> t.directs]
<1>0. TypeOK /\ viewer[v] \in Sessions /\ t \in Tasks /\ t.at = "apply"
    BY DEF IInv, TypeOK, ApplyInit
<1>1. UNCHANGED publisherVars /\ UNCHANGED <<sent, due, checked>>
      /\ viewer' = [viewer EXCEPT ![v] = s] /\ named' = [named EXCEPT ![v] = n]
      /\ task' = [task EXCEPT ![v] = u]
    BY DEF ApplyInit, Set
<1>2. /\ t.m \in MessageFields /\ t.may \in BOOLEAN /\ t.directs \in BOOLEAN
      /\ t.role \in Roles \cup {"unknown"} /\ t.valid \in BOOLEAN /\ t.video \in BOOLEAN
    BY <1>0, TaskParts
<1>3. /\ s \in Sessions /\ s.role = t.role /\ s.roleValid = t.valid
      /\ t.valid => s.init
    BY SMTT(20), <1>0, <1>2, Introduction
<1>4. n # "none" => t.valid /\ t.role = n
    BY <1>0 DEF IInv, PlannedRoleOK
<1>5. n \in Roles \cup {"none"}
    <2>1. t.m.role # "bad"
        BY <1>0 DEF IInv, PlannedRoleOK
    <2>2. named[v] \in Roles \cup {"none"}
        BY <1>0 DEF TypeOK
    <2> QED
        BY <1>2, <2>1, <2>2 DEF MessageFields
<1>6. u \in Tasks /\ u.at # "apply"
    BY <1>2 DEF Tasks
<1> HIDE DEF s, n, u, t
<1>7. TypeOK'
    BY <1>0, <1>1, <1>3, <1>5, <1>6 DEF TypeOK, publisherVars
<1>8. PlannedRoleOK'
    BY <1>0, <1>1, <1>6 DEF IInv, TypeOK, PlannedRoleOK
<1>9. RoleIsTheViewersOwn'
    BY <1>0, <1>1, <1>3, <1>4 DEF IInv, TypeOK, RoleIsTheViewersOwn
<1> QED
    BY <1>1, <1>7, <1>8, <1>9, PublisherKept DEF IInv

(* The rest of the handler: media, the shared stream and the hangup.       *)
LEMMA MediaStep ==
    ASSUME IInv, NEW v \in Viewers, HandleMedia(v) \/ InformAboutControl(v)
    PROVE  IInv'
<1>0. TypeOK /\ viewer[v] \in Sessions /\ task[v] \in Tasks
    BY DEF IInv, TypeOK
<1>1. UNCHANGED publisherVars /\ UNCHANGED <<sent, due, checked, named>>
    BY DEF HandleMedia, InformAboutControl
<1>2. StreamType' /\ ThreadType' /\ Coherent'
    BY <1>1, PublisherKept
<1>3. Rest \in Tasks /\ Rest.at # "apply"
    BY DEF Rest, Tasks
<1>4. CASE HandleMedia(v)
    <2> DEFINE m == task[v].m
               video == IF m.mute # "keep" /\ task[v].directs THEN m.mute = "off"
                        ELSE viewer[v].video
               route == IF m.route # "keep" THEN m.route = "on" ELSE viewer[v].route
               s == [viewer[v] EXCEPT !.video = video, !.route = route]
    <2>1. m \in MessageFields
        BY <1>0, <1>4, TaskParts DEF HandleMedia
    <2>2. video \in BOOLEAN /\ route \in BOOLEAN
        BY <1>0 DEF Sessions
    <2>3. Set(v, s)
        BY <1>4 DEF HandleMedia
    <2>4. PICK t \in Tasks : t.at # "apply" /\ task' = [task EXCEPT ![v] = t]
        <3> DEFINE c == [at |-> "control", rate |-> m.rate]
        <3>1. \/ m.rate \in Rates /\ task' = [task EXCEPT ![v] = c]
              \/ task' = [task EXCEPT ![v] = Rest]
            <4>1. m.rate \in Rates \cup {0}
                BY <2>1 DEF MessageFields
            <4>2. \/ m.rate > 0 /\ task' = [task EXCEPT ![v] = c]
                  \/ task' = [task EXCEPT ![v] = Rest]
                BY <1>4 DEF HandleMedia
            <4> QED
                BY <4>1, <4>2
        <3>2. m.rate \in Rates => c \in Tasks /\ c.at # "apply"
            BY DEF Tasks
        <3> HIDE DEF c, m
        <3> QED
            BY <1>3, <3>1, <3>2
    <2> HIDE DEF video, route
    <2>5. /\ s \in Sessions /\ s.init = viewer[v].init
          /\ s.roleValid = viewer[v].roleValid /\ s.role = viewer[v].role
        BY <1>0, <2>2 DEF Sessions
    <2> HIDE DEF s
    <2>6. SameRoles
        BY <1>0, <2>3, <2>5, SetKeepsRoles
    <2> QED
        BY <1>1, <1>2, <2>4, <2>6, HandlerGoesOn
<1>5. CASE InformAboutControl(v)
    <2>1. SameRoles
        BY <1>0, <1>5, SessionOperators, SetKeepsRoles DEF InformAboutControl
    <2> QED
        BY <1>1, <1>2, <1>3, <1>5, <2>1, HandlerGoesOn DEF InformAboutControl, Ends
<1> QED
    BY <1>4, <1>5

(* A control of the shared stream changes the rate, or takes alpha away    *)
(* with a decision of its own.                                             *)
LEMMA ControlStep ==
    ASSUME IInv, NEW v \in Viewers, ControlStream(v) \/ HandOverStream(v)
    PROVE  IInv'
<1>0. TypeOK /\ Coherent /\ config \in Configs /\ task[v] \in Tasks
    BY DEF IInv, TypeOK
<1>1. UNCHANGED <<sent, due, checked, named>>
    BY DEF ControlStream, HandOverStream
<1>2. PICK t \in Tasks : t.at # "apply" /\ task' = [task EXCEPT ![v] = t]
    <2>1. [at |-> "inform"] \in Tasks /\ [at |-> "prepare"] \in Tasks
        BY DEF Tasks
    <2>2. \/ task' = [task EXCEPT ![v] = [at |-> "inform"]]
          \/ task' = [task EXCEPT ![v] = [at |-> "prepare"]]
        BY DEF ControlStream, HandOverStream
    <2> QED
        BY <2>1, <2>2
<1>3. StreamType' /\ ThreadType' /\ SameRoles /\ Coherent'
    <2>1. CASE ControlStream(v) /\ ControlIsApplied(task[v].rate)
        <3> DEFINE r == task[v].rate
        <3>1. r \in Rates
            BY <1>0, <2>1, TaskParts DEF ControlStream
        <3>2. UNCHANGED <<live, capturing, room, lqAsked, app, leaving, control>>
            BY <2>1 DEF ControlIsApplied
        <3>3. \/ config' = [config EXCEPT !.rate = r] /\ UNCHANGED <<quality, viewer, lqOn>>
              \/ UNCHANGED <<config, quality, viewer, lqOn>>
              \/ CommitForCodec([[config EXCEPT !.rate = r] EXCEPT !.alpha = FALSE])
            BY <2>1 DEF ControlIsApplied, WithRate
        <3> HIDE DEF r
        <3>4. CASE CommitForCodec([[config EXCEPT !.rate = r] EXCEPT !.alpha = FALSE])
            <4>1. [[config EXCEPT !.rate = r] EXCEPT !.alpha = FALSE] \in Configs
                BY <1>0, <3>1, RateTypes
            <4>2. PICK c \in Configs : CommitForCodec(c)
                BY <3>4, <4>1
            <4> QED
                BY <1>0, <3>2, <4>2, CommitForCodecIsCoherent
                   DEF TypeOK, StreamType, ThreadType
        <3>5. CASE \/ config' = [config EXCEPT !.rate = r] /\ UNCHANGED <<quality, viewer, lqOn>>
                   \/ UNCHANGED <<config, quality, viewer, lqOn>>
            <4>1. config' \in Configs /\ Coherent'
                BY <1>0, <3>1, <3>2, <3>5, RateIsCoherent
            <4>2. SameRoles
                BY <1>0, <3>5, SessionsUnchanged
            <4> QED
                BY <1>0, <3>2, <3>5, <4>1, <4>2 DEF TypeOK, StreamType, ThreadType
        <3> QED
            BY <3>3, <3>4, <3>5
    <2>2. CASE ControlStream(v) /\ Prepare(v, task[v].rate)
        <3>1. task[v].rate \in Rates
            BY <1>0, <2>2, TaskParts DEF ControlStream
        <3>2. SameRoles /\ Coherent'
            BY <1>0, <2>2, SessionsUnchanged, CoherentUnchanged DEF Prepare
        <3> QED
            BY <1>0, <2>2, <3>1, <3>2 DEF Prepare, TypeOK, StreamType, ThreadType
    <2>3. CASE HandOverStream(v)
        <3>1. /\ control.by \in Viewers /\ control.rate \in Rates
              /\ UNCHANGED <<live, capturing, room, lqAsked, quality, lqOn, app, leaving, viewer>>
              /\ control' = FreeControl
            BY <1>0, <2>3, NoViewerAssumption
               DEF HandOverStream, Handover, TypeOK, FreeControl
        <3>2. config' = [config EXCEPT !.rate = control.rate] \/ config' = config
            BY <2>3 DEF HandOverStream, Handover, StillCurrent
        <3>3. config' \in Configs /\ Coherent'
            BY <1>0, <3>1, <3>2, RateIsCoherent
        <3>4. SameRoles
            BY <1>0, <3>1, SessionsUnchanged
        <3> QED
            BY <1>0, <3>1, <3>3, <3>4 DEF FreeControl, TypeOK, StreamType, ThreadType
    <2> QED
        BY <2>1, <2>2, <2>3 DEF ControlStream
<1> QED
    BY <1>1, <1>2, <1>3, HandlerGoesOn

LEMMA HangUpStep ==
    ASSUME IInv, NEW v \in Viewers, HangUp(v) \/ HangUpLeavesRoom(v) \/ HangUpStopsCapture(v)
    PROVE  IInv'
<1>0. TypeOK /\ Coherent /\ task[v] \in Tasks
    BY DEF IInv, TypeOK
<1>1. UNCHANGED <<sent, due, checked, named>>
    BY DEF HangUp, HangUpLeavesRoom, HangUpStopsCapture
<1>2. CASE HangUp(v)
    <2>1. StreamType' /\ ThreadType' /\ SameRoles /\ Coherent'
        BY <1>2, StoppingIsSafe DEF HangUp, Actors
    <2> DEFINE t == [task[v] EXCEPT !.at = "hangingUp"]
    <2>2. t \in Tasks /\ t.at # "apply"
        BY <1>0, <1>2, TaskParts, TaskMoves DEF HangUp
    <2>3. task' = [task EXCEPT ![v] = t]
        BY <1>2 DEF HangUp, GoOn
    <2> HIDE DEF t
    <2> QED
        BY <1>1, <2>1, <2>2, <2>3, HandlerGoesOn
<1>3. CASE HangUpLeavesRoom(v)
    <2>1. config \in Configs /\ lqAsked \in BOOLEAN /\ Commit(config, FALSE, lqAsked)
        BY <1>0, <1>3 DEF HangUpLeavesRoom, LeaveRoom, TypeOK
    <2>2. StreamType' /\ ThreadType' /\ SameRoles /\ Coherent'
        BY <1>0, <1>3, <2>1, CommitIsCoherent
           DEF HangUpLeavesRoom, LeaveRoom, TypeOK, StreamType, ThreadType, App
    <2> DEFINE t == [task[v] EXCEPT !.at = "hungUp"]
    <2>3. t \in Tasks /\ t.at # "apply"
        BY <1>0, <1>3, TaskParts, TaskMoves DEF HangUpLeavesRoom
    <2>4. task' = [task EXCEPT ![v] = t]
        BY <1>3 DEF HangUpLeavesRoom, GoOn
    <2> HIDE DEF t
    <2> QED
        BY <1>1, <2>2, <2>3, <2>4, HandlerGoesOn
<1>4. CASE HangUpStopsCapture(v)
    <2>1. SameRoles /\ Coherent'
        BY <1>0, <1>4, SessionsUnchanged, CoherentUnchanged
           DEF HangUpStopsCapture, CaptureStops
    <2>2. StreamType' /\ ThreadType'
        BY <1>0, <1>4, TouchedType
           DEF HangUpStopsCapture, CaptureStops, TypeOK, StreamType, ThreadType
    <2>3. Rest \in Tasks /\ Rest.at # "apply" /\ task' = [task EXCEPT ![v] = Rest]
        BY <1>4 DEF HangUpStopsCapture, Ends, Rest, Tasks
    <2> QED
        BY <1>1, <2>1, <2>2, <2>3, HandlerGoesOn
<1> QED
    BY <1>2, <1>3, <1>4

-----------------------------------------------------------------------------
(* The theorems.                                                           *)

LEMMA InitIsSafe == Init => IInv
<1> SUFFICES ASSUME Init PROVE IInv
    OBVIOUS
<1>1. config \in Settings /\ Settings \subseteq Configs
    BY SettingsAssumption DEF Init, PublisherInit
<1> DEFINE s == [NewSession(FALSE) EXCEPT !.joined = FALSE]
<1>2. s \in Sessions
    BY DEF NewSession, Sessions, Tiers
<1>3. viewer = [v \in Viewers |-> s]
    BY DEF Init
<1> HIDE DEF s
<1>4. TypeOK
    <2>1. live \in BOOLEAN /\ capturing \in BOOLEAN /\ room \in BOOLEAN
          /\ lqAsked \in BOOLEAN /\ lqOn \in BOOLEAN /\ config \in Configs
        BY <1>1 DEF Init, PublisherInit
    <2>2. /\ app \in [at : {"idle", "goingLive", "started", "leaving"}]
          /\ leaving \subseteq Actors /\ control \in [by : {NoViewer}]
        BY DEF Init, PublisherInit, App, FreeControl
    <2>3. Rest \in Tasks
        BY DEF Rest, Tasks
    <2>4. /\ task \in [Viewers -> Tasks] /\ sent \in [Viewers -> 0 .. MaxMessages]
          /\ due \subseteq Viewers /\ checked \in Actors
          /\ named \in [Viewers -> Roles \cup {"none"}]
        BY <2>3, BoundAssumption DEF Init, Actors
    <2>5. viewer \in [Viewers -> Sessions]
        BY <1>2, <1>3
    <2> QED
        BY <2>1, <2>2, <2>4, <2>5 DEF TypeOK
<1>5. Coherent
    BY DEF Init, PublisherInit, Coherent
<1>6. PlannedRoleOK /\ RoleIsTheViewersOwn
    BY DEF Init, PlannedRoleOK, RoleIsTheViewersOwn, Rest
<1> QED
    BY <1>4, <1>5, <1>6 DEF IInv

LEMMA NextIsSafe == IInv /\ [Next]_vars => IInv'
<1> SUFFICES ASSUME IInv, [Next]_vars PROVE IInv'
    OBVIOUS
<1>1. CASE UNCHANGED vars
    BY <1>1 DEF vars, publisherVars, laneVars, IInv, TypeOK, Coherent,
                PlannedRoleOK, RoleIsTheViewersOwn
<1>2. CASE Publisher /\ UNCHANGED laneVars
    BY <1>2, PublisherStep
<1>3. CASE Stop
    BY <1>3, StopStep
<1>4. ASSUME NEW v \in Viewers, Channel(v) \/ Handler(v) \/ GraceEnds(v) PROVE IInv'
    BY <1>4, ChannelStep, ReadingStep, ReadInitStep, ApplyInitStep, MediaStep,
       ControlStep, HangUpStep, MaintenanceStep DEF Handler
<1>5. CASE Maintenance
    BY <1>5, MaintenanceStep
<1> QED
    BY <1>1, <1>2, <1>3, <1>4, <1>5 DEF Next

LEMMA Inductive == Spec => []IInv
BY InitIsSafe, NextIsSafe, PTL DEF Spec

(* For any number of viewers and whatever they send: every variable has    *)
(* its type, so no handler, no fallback and no commit of the room quality  *)
(* leaves a session with a role, a tier or a configuration that is none.   *)
THEOREM Typed == Spec => []TypeOK
<1>1. IInv => TypeOK
    BY DEF IInv
<1> QED
    BY <1>1, Inductive, PTL

(* The decision whether low-quality viewers exist, the codec and the alpha *)
(* routing are those of the configuration in force, and the low-quality    *)
(* encoder runs only when that decision allows it, after any sequence of   *)
(* fallbacks, recoveries, runtime controls, hangups and restarts of the    *)
(* capture (commitRoomQualityDecisionLocked and all who call it).          *)
THEOREM DecisionIsCoherent == Spec => []Coherent
<1>1. IInv => Coherent
    BY DEF IInv
<1> QED
    BY <1>1, Inductive, PTL

(* A role that a viewer gave itself is never taken away, neither by the    *)
(* maintenance thread that had seen the viewer silent                      *)
(* (applyPeerInitFallbackIfPending) nor by a message without a role.       *)
THEOREM RoleStands == Spec => []RoleIsTheViewersOwn
<1>1. IInv => RoleIsTheViewersOwn
    BY DEF IInv
<1> QED
    BY <1>1, Inductive, PTL

-----------------------------------------------------------------------------
(* The cached tier of a viewer is current at every step of its handler but *)
(* one: between the change of its alpha capability and the answer that     *)
(* announces it.                                                           *)

IsCurrent(s) ==
    s.joined /\ s.chan = "open" /\ s.init => s.tier = PeerTier(s, quality, config)

TierInv == \A v \in Viewers : task[v].at # "announce" => IsCurrent(viewer[v])

(* The tier depends on four fields of a session.                           *)
LEMMA TierDepends ==
    ASSUME NEW s, NEW t, NEW q, NEW c,
           t.roomMode = s.roomMode, t.roleValid = s.roleValid, t.role = s.role,
           t.alpha = s.alpha
    PROVE  PeerTier(t, q, c) = PeerTier(s, q, c)
BY DEF PeerTier

(* A tier that was just computed is current.                               *)
LEMMA Recomputed ==
    ASSUME NEW s \in Sessions, NEW q, NEW c
    PROVE  [s EXCEPT !.tier = PeerTier(s, q, c)].tier
              = PeerTier([s EXCEPT !.tier = PeerTier(s, q, c)], q, c)
<1> DEFINE p == PeerTier(s, q, c)
           t == [s EXCEPT !.tier = p]
<1>1. /\ t.tier = p /\ t.roomMode = s.roomMode /\ t.roleValid = s.roleValid
      /\ t.role = s.role /\ t.alpha = s.alpha
    BY DEF Sessions
<1> HIDE DEF t
<1>2. PeerTier(t, q, c) = p
    BY <1>1, TierDepends
<1> QED
    BY <1>1, <1>2 DEF t

LEMMA InformedIsCurrent ==
    ASSUME NEW s \in Sessions
    PROVE  IsCurrent(Informed(s))
<1>1. CASE s.chan = "open"
    BY <1>1, Recomputed DEF Informed, IsCurrent
<1>2. CASE s.chan # "open"
    BY <1>2 DEF Informed, IsCurrent
<1> QED
    BY <1>1, <1>2

LEMMA IntroducedIsCurrent ==
    ASSUME NEW s \in Sessions, NEW valid \in BOOLEAN, NEW role \in Roles \cup {"unknown"},
           NEW video \in BOOLEAN
    PROVE  IsCurrent(Introduced(s, valid, role, video))
<1> DEFINE told == [s EXCEPT !.roleValid = valid, !.role = role, !.video = video]
           p == PeerTier(told, quality, config)
           i == Introduced(s, valid, role, video)
<1>1. told \in Sessions /\ told.roomMode = s.roomMode
    BY DEF Sessions
<1>2. i = IF s.roomMode
          THEN [told EXCEPT !.tier = p, !.init = valid, !.deadline = IF valid THEN "off" ELSE @]
          ELSE [told EXCEPT !.tier = "hq", !.init = TRUE, !.deadline = "off"]
    BY DEF Introduced
<1> HIDE DEF told
<1>3. /\ i.roomMode = told.roomMode /\ i.roleValid = told.roleValid
      /\ i.role = told.role /\ i.alpha = told.alpha
      /\ i.tier = IF s.roomMode THEN p ELSE "hq"
    <2> HIDE DEF p, i
    <2>1. CASE s.roomMode
        BY <1>1, <1>2, <2>1 DEF Sessions
    <2>2. CASE ~s.roomMode
        BY <1>1, <1>2, <2>2 DEF Sessions
    <2> QED
        BY <2>1, <2>2
<1> HIDE DEF i
<1>4. PeerTier(i, quality, config) = p
    BY <1>3, TierDepends
<1>5. ~s.roomMode => p = "hq"
    BY <1>1 DEF PeerTier, SelectEffectiveTier, AssignStreamTier
<1> HIDE DEF p
<1> QED
    BY <1>3, <1>4, <1>5 DEF IsCurrent, i

(* A session that changes in nothing a tier depends on.                    *)
LEMMA StaysCurrent ==
    ASSUME NEW s, NEW t, IsCurrent(s),
           t.roomMode = s.roomMode, t.roleValid = s.roleValid, t.role = s.role,
           t.alpha = s.alpha, t.tier = s.tier,
           t.joined /\ t.chan = "open" /\ t.init => s.joined /\ s.chan = "open" /\ s.init
    PROVE  IsCurrent(t)
BY TierDepends DEF IsCurrent

(* One session is set, and is current unless its handler is to announce.   *)
LEMMA SetKeepsTiers ==
    ASSUME TypeOK, TierInv, UNCHANGED publisherVars, NEW v \in Viewers, NEW s, Set(v, s),
           \A w \in Viewers : w # v => task'[w] = task[w],
           task'[v].at # "announce" => IsCurrent(s)
    PROVE  TierInv'
<1> SUFFICES ASSUME NEW w \in Viewers, task'[w].at # "announce"
             PROVE  IsCurrent(viewer[w])'
    BY DEF TierInv
<1>1. UNCHANGED <<quality, config>>
    BY DEF publisherVars
<1>2. viewer'[w] = IF w = v THEN s ELSE viewer[w]
    BY DEF Set, TypeOK
<1>3. IsCurrent(viewer'[w])
    BY <1>2 DEF TierInv
<1> QED
    BY <1>1, <1>3 DEF IsCurrent

(* The cached tiers wherever the publisher changes: they are committed with*)
(* the decision, or neither they nor what they depend on changes.          *)
LEMMA CommitSetsTiers ==
    ASSUME TypeOK, NEW c, NEW r, NEW a, Commit(c, r, a)
    PROVE  TierInv'
<1> SUFFICES ASSUME NEW v \in Viewers, viewer'[v].joined
             PROVE  viewer'[v].tier = PeerTier(viewer'[v], quality', config')
    BY DEF TierInv, IsCurrent
<1>1. /\ quality' = QualityOf(c, r, a) /\ config' = c
      /\ viewer' = RefreshedTiers(QualityOf(c, r, a), c)
    BY DEF Commit
<1>2. viewer[v] \in Sessions
    BY DEF TypeOK
<1>3. viewer'[v] = IF viewer[v].joined
                   THEN [viewer[v] EXCEPT !.tier = PeerTier(viewer[v], quality', config')]
                   ELSE viewer[v]
    BY <1>1 DEF RefreshedTiers
<1>4. viewer[v].joined
    BY <1>3
<1> QED
    BY <1>2, <1>3, <1>4, Recomputed

LEMMA UntouchedTiers ==
    ASSUME TierInv, UNCHANGED <<quality, viewer>>,
           config' = config \/ config'.codec = config.codec,
           \A v \in Viewers : task'[v].at # "announce" => task[v].at # "announce"
    PROVE  TierInv'
<1>1. ASSUME NEW s PROVE PeerTier(s, quality, config') = PeerTier(s, quality, config)
    BY DEF PeerTier, LqRoutingAllowed
<1> SUFFICES ASSUME NEW v \in Viewers, task'[v].at # "announce"
             PROVE  IsCurrent(viewer[v])'
    BY DEF TierInv
<1>2. IsCurrent(viewer[v])
    BY DEF TierInv
<1> QED
    BY <1>1, <1>2 DEF IsCurrent

LEMMA FrameKeepsTiers ==
    ASSUME TypeOK, TierInv, NEW active \in SUBSET Viewers, EncodeFrame(active), UNCHANGED task
    PROVE  TierInv'
<1> DEFINE routed == {v \in active : /\ viewer[v].joined /\ viewer[v].route
                                     /\ CanSendVideo(viewer[v], LqRoutingAllowed(quality, config))}
<1>1. /\ UNCHANGED <<quality, config>>
      /\ viewer' = [v \in Viewers |->
                       IF v \in routed
                       THEN [viewer[v] EXCEPT !.tier = PeerTier(viewer[v], quality, config)]
                       ELSE viewer[v]]
    BY DEF EncodeFrame
<1> HIDE DEF routed
<1> SUFFICES ASSUME NEW v \in Viewers, task'[v].at # "announce"
             PROVE  IsCurrent(viewer[v])'
    BY DEF TierInv
<1>2. viewer[v] \in Sessions /\ IsCurrent(viewer[v])
    BY DEF TypeOK, TierInv
<1>3. IsCurrent(viewer'[v])
    <2>1. CASE v \in routed
        BY ZenonT(40), <1>1, <1>2, <2>1, Recomputed DEF IsCurrent
    <2>2. CASE v \notin routed
        BY <1>1, <1>2, <2>2
    <2> QED
        BY <2>1, <2>2
<1> QED
    BY <1>1, <1>3 DEF IsCurrent

LEMMA PublisherKeepsTiers ==
    ASSUME TypeOK, TierInv, Publisher, UNCHANGED laneVars
    PROVE  TierInv'
<1>1. UNCHANGED task
    BY DEF laneVars
<1>2. CASE \E c : \E r, a : Commit(c, r, a)
    BY <1>2, CommitSetsTiers
<1>3. CASE UNCHANGED <<quality, viewer, config>>
    BY <1>1, <1>3, UntouchedTiers
<1>4. CASE \E active \in SUBSET Viewers : EncodeFrame(active)
    BY <1>1, <1>4, FrameKeepsTiers
<1>5. CASE \E c \in Settings : SetVideoConfig(c)
    BY <1>2, <1>5 DEF SetVideoConfig, CommitForCodec
<1>6. CASE \E inRoom, asked \in BOOLEAN : GoLive(inRoom, asked)
    BY <1>2, <1>6 DEF GoLive
<1>7. CASE Published \/ StartCapture \/ EncodersFail \/ AudioFails \/ NoTrackActive
    BY <1>3, <1>7 DEF Published, StartCapture, EncodersFail, AudioFails, RollBack,
                      NoTrackActive, CaptureStops
<1>8. CASE LeaveRoom(NoViewer)
    BY <1>2, <1>8 DEF LeaveRoom
<1>9. CASE EncodersStart \/ EncodersFallBack \/ CaptureRuns
    BY <1>2, <1>3, <1>9 DEF EncodersStart, EncodersFallBack, CaptureRuns, CommitForCodec
<1>10. CASE CodecFallsBack \/ HardwareRecovers \/ AlphaFails \/ AnswerRejected
    BY <1>2, <1>3, <1>10 DEF CodecFallsBack, HardwareRecovers, AlphaFails,
                             AnswerRejected, CommitForCodec
<1> QED
    BY <1>4, <1>5, <1>6, <1>7, <1>8, <1>9, <1>10 DEF Publisher

(* Whoever has left is not joined.                                         *)
LEMMA StoppingKeepsTiers ==
    ASSUME TypeOK, NEW a \in Actors, StopLive(a)
    PROVE  TierInv'
<1> SUFFICES ASSUME NEW v \in Viewers PROVE ~viewer'[v].joined
    BY DEF TierInv, IsCurrent
<1>1. viewer[v] \in Sessions /\ viewer'[v] = [viewer[v] EXCEPT !.joined = FALSE]
    BY DEF TypeOK, StopLive
<1> QED
    BY <1>1 DEF Sessions

LEMMA ChannelKeepsTiers ==
    ASSUME TypeOK, TierInv, NEW v \in Viewers, Channel(v) \/ GraceEnds(v)
    PROVE  TierInv'
<1>0. viewer[v] \in Sessions /\ UNCHANGED publisherVars
    BY DEF TypeOK, Channel, Join, Leave, ChannelOpens, MayOpen, ChannelIsLost,
       ChannelCloses, ReceiveMessage, Receive, Hears, ReceivePing, GraceEnds
<1>1. CASE Join(v)
    <2>1. Set(v, NewSession(room)) /\ UNCHANGED task
        BY <1>1 DEF Join
    <2>2. IsCurrent(NewSession(room))
        BY DEF NewSession, IsCurrent
    <2> QED
        BY <1>0, <2>1, <2>2, SetKeepsTiers
<1>2. CASE ChannelOpens(v)
    <2> DEFINE o == Armed([viewer[v] EXCEPT !.chan = "open", !.open = TRUE])
    <2>1. o \in Sessions
        <3>1. [viewer[v] EXCEPT !.chan = "open", !.open = TRUE] \in Sessions
            BY <1>0 DEF Sessions
        <3> QED
            BY <3>1, SessionOperators
    <2>2. Set(v, Informed(o)) /\ UNCHANGED task
        BY <1>2 DEF ChannelOpens, MayOpen, laneVars
    <2> HIDE DEF o
    <2> QED
        BY <1>0, <2>1, <2>2, InformedIsCurrent, SetKeepsTiers
<1>3. CASE Leave(v) \/ ChannelIsLost(v) \/ ChannelCloses(v)
    <2>1. PICK s : Set(v, s) /\ ~(s.joined /\ s.chan = "open")
        <3>1. CASE Leave(v)
            BY <1>0, <3>1 DEF Leave, Sessions
        <3>2. CASE ChannelIsLost(v)
            BY <1>0, <3>2 DEF ChannelIsLost, Sessions
        <3>3. CASE ChannelCloses(v)
            <4> DEFINE c == [viewer[v] EXCEPT !.chan = "closed", !.open = FALSE,
                                              !.deadline = "off"]
            <4>1. c.chan = "closed"
                BY <1>0 DEF Sessions
            <4>2. Set(v, c)
                BY <3>3 DEF ChannelCloses
            <4> HIDE DEF c
            <4> QED
                BY <4>1, <4>2
        <3> QED
            BY <1>3, <3>1, <3>2, <3>3
    <2>2. IsCurrent(s) /\ UNCHANGED task
        BY <1>3, <2>1 DEF IsCurrent, Leave, ChannelIsLost, ChannelCloses, laneVars
    <2> QED
        BY <1>0, <2>1, <2>2, SetKeepsTiers
<1>4. ASSUME NEW s \in {Heard(viewer[v]), [viewer[v] EXCEPT !.deadline = "due"]},
             Set(v, s), task[v].at # "announce",
             \A w \in Viewers : w # v => task'[w] = task[w]
      PROVE  TierInv'
    <2>1. IsCurrent(viewer[v])
        BY <1>4 DEF TierInv
    <2>2. CASE s = Heard(viewer[v])
        <3>1. /\ s.roomMode = viewer[v].roomMode /\ s.roleValid = viewer[v].roleValid
              /\ s.role = viewer[v].role /\ s.alpha = viewer[v].alpha
              /\ s.tier = viewer[v].tier /\ s.joined = viewer[v].joined
              /\ s.chan = viewer[v].chan /\ s.init = viewer[v].init
            BY <1>0, <2>2 DEF Heard, Armed, Sessions
        <3> QED
            BY <1>0, <1>4, <2>1, <3>1, StaysCurrent, SetKeepsTiers
    <2>3. CASE s = [viewer[v] EXCEPT !.deadline = "due"]
        <3>1. /\ s.roomMode = viewer[v].roomMode /\ s.roleValid = viewer[v].roleValid
              /\ s.role = viewer[v].role /\ s.alpha = viewer[v].alpha
              /\ s.tier = viewer[v].tier /\ s.joined = viewer[v].joined
              /\ s.chan = viewer[v].chan /\ s.init = viewer[v].init
            BY <1>0, <2>3 DEF Sessions
        <3> QED
            BY <1>0, <1>4, <2>1, <3>1, StaysCurrent, SetKeepsTiers
    <2> QED
        BY <1>4, <2>2, <2>3
<1>5. CASE ReceivePing(v)
    BY <1>4, <1>5 DEF ReceivePing, Hears, IsIdle, laneVars
<1>6. CASE ReceiveMessage(v)
    BY <1>4, <1>6 DEF ReceiveMessage, Receive, Hears, IsIdle, TypeOK
<1>7. CASE GraceEnds(v)
    <2>1. Set(v, [viewer[v] EXCEPT !.deadline = "due"]) /\ UNCHANGED task
        BY <1>7 DEF GraceEnds, laneVars
    <2>2. CASE task[v].at # "announce"
        BY <1>4, <2>1, <2>2
    <2>3. CASE task[v].at = "announce"
        BY <1>0, <2>1, <2>3, SetKeepsTiers
    <2> QED
        BY <2>2, <2>3
<1> QED
    BY <1>1, <1>2, <1>3, <1>5, <1>6, <1>7 DEF Channel

LEMMA MaintenanceKeepsTiers ==
    ASSUME TypeOK, TierInv, Maintenance
    PROVE  TierInv'
<1>1. CASE CollectExpired
    BY <1>1, UntouchedTiers DEF CollectExpired, publisherVars
<1>2. ASSUME NEW v \in Viewers, NEW s, NEW b, UNCHANGED publisherVars, UNCHANGED task,
             s = [viewer[v] EXCEPT !.deadline = b], Set(v, s)
      PROVE  TierInv'
    <2>1. viewer[v] \in Sessions
        BY DEF TypeOK
    <2>2. /\ s.roomMode = viewer[v].roomMode /\ s.roleValid = viewer[v].roleValid
          /\ s.role = viewer[v].role /\ s.alpha = viewer[v].alpha
          /\ s.tier = viewer[v].tier /\ s.joined = viewer[v].joined
          /\ s.chan = viewer[v].chan /\ s.init = viewer[v].init
        BY <1>2, <2>1 DEF Sessions
    <2>3. task[v].at # "announce" => IsCurrent(s)
        BY <2>2, StaysCurrent DEF TierInv
    <2> QED
        BY <1>2, <2>3, SetKeepsTiers
<1>3. ASSUME NEW v \in Viewers, CheckExpired(v) PROVE TierInv'
    <2>1. UNCHANGED publisherVars /\ UNCHANGED task
        BY <1>3 DEF CheckExpired
    <2>2. CASE UNCHANGED viewer
        BY <2>1, <2>2, UntouchedTiers DEF publisherVars
    <2>3. CASE Set(v, [viewer[v] EXCEPT !.deadline = "off"])
        BY <1>2, <2>1, <2>3
    <2> QED
        BY <1>3, <2>2, <2>3 DEF CheckExpired
<1>4. ASSUME NEW v \in Viewers, FallBack(v) PROVE TierInv'
    <2> DEFINE o == [viewer[v] EXCEPT !.open = TRUE]
    <2>1. viewer[v] \in Sessions
        BY DEF TypeOK
    <2>2. /\ o \in Sessions /\ o.roomMode = viewer[v].roomMode
          /\ o.roleValid = viewer[v].roleValid
          /\ o.role = viewer[v].role /\ o.alpha = viewer[v].alpha
          /\ o.tier = viewer[v].tier /\ o.joined = viewer[v].joined
          /\ o.chan = viewer[v].chan /\ o.init = viewer[v].init
        BY <2>1 DEF Sessions
    <2>3. UNCHANGED publisherVars /\ UNCHANGED task /\ Set(v, FallenBack(o))
        BY <1>4 DEF FallBack
    <2> HIDE DEF o
    <2>4. task[v].at # "announce" => IsCurrent(FallenBack(o))
        <3>1. CASE o.init
            BY <2>2, <3>1, StaysCurrent DEF FallenBack, TierInv
        <3>2. CASE ~o.init
            BY <2>2, <3>2, IntroducedIsCurrent DEF FallenBack, Roles
        <3> QED
            BY <3>1, <3>2
    <2> QED
        BY <2>3, <2>4, SetKeepsTiers
<1> QED
    BY <1>1, <1>3, <1>4 DEF Maintenance

(* A new capability makes a viewer that is introduced wait for its answer. *)
LEMMA ReadingKeepsTiers ==
    ASSUME TypeOK, TierInv, NEW v \in Viewers, HandleInfo(v) \/ Announce(v) \/ Authorize(v)
    PROVE  TierInv'
<1>0. viewer[v] \in Sessions /\ task[v] \in Tasks
    BY DEF TypeOK
<1>1. UNCHANGED publisherVars
    BY DEF HandleInfo, Announce, Authorize
<1>2. CASE HandleInfo(v)
    <2> DEFINE m == task[v].m
               takes == IF m.info /\ m.alpha # "keep" THEN m.alpha = "on"
                        ELSE viewer[v].alpha
               saw == viewer[v].saw \/ m.info
               s == [viewer[v] EXCEPT !.saw = saw, !.alpha = takes]
               a == IF takes # viewer[v].alpha /\ viewer[v].init THEN "announce"
                    ELSE "authorize"
    <2>1. /\ task[v].at = "info" /\ Set(v, s)
          /\ task' = [task EXCEPT ![v].at = a]
        BY <1>2 DEF HandleInfo, GoOn
    <2>2. /\ s.roomMode = viewer[v].roomMode /\ s.roleValid = viewer[v].roleValid
          /\ s.role = viewer[v].role /\ s.alpha = takes
          /\ s.tier = viewer[v].tier /\ s.joined = viewer[v].joined
          /\ s.chan = viewer[v].chan /\ s.init = viewer[v].init
        <3> HIDE DEF takes, saw
        <3> QED
            BY <1>0 DEF Sessions
    <2>3. task'[v].at = a /\ \A w \in Viewers : w # v => task'[w] = task[w]
        <3> HIDE DEF a
        <3>1. [task[v] EXCEPT !.at = a].at = a
            BY <1>0 DEF Tasks
        <3> QED
            BY <2>1, <3>1 DEF TypeOK
    <2>4. a # "announce" => ~viewer[v].init \/ takes = viewer[v].alpha
        OBVIOUS
    <2> HIDE DEF a, s, takes
    <2>5. IsCurrent(viewer[v])
        BY <2>1 DEF TierInv
    <2>6. a # "announce" => IsCurrent(s)
        <3>1. CASE ~viewer[v].init
            BY <2>2, <3>1 DEF IsCurrent
        <3>2. CASE takes = viewer[v].alpha
            BY <2>2, <2>5, <3>2, StaysCurrent
        <3> QED
            BY <2>4, <3>1, <3>2
    <2> QED
        BY <1>1, <2>1, <2>3, <2>6, SetKeepsTiers
<1>3. CASE Announce(v)
    BY <1>0, <1>1, <1>3, InformedIsCurrent, SetKeepsTiers DEF Announce, GoOn, TypeOK
<1>4. CASE Authorize(v)
    <2>1. UNCHANGED viewer /\ task[v].at = "authorize"
        BY <1>4 DEF Authorize
    <2>2. \A w \in Viewers : task'[w].at # "announce" => task[w].at # "announce"
        BY <1>4, <2>1 DEF Authorize, TypeOK
    <2> QED
        BY <1>1, <2>1, <2>2, UntouchedTiers DEF publisherVars
<1> QED
    BY <1>2, <1>3, <1>4

LEMMA HandlingKeepsTiers ==
    ASSUME TypeOK, TierInv, NEW v \in Viewers,
           ReadInit(v) \/ ApplyInit(v) \/ HandleMedia(v) \/ InformAboutControl(v)
    PROVE  TierInv'
<1>0. /\ viewer[v] \in Sessions /\ task[v] \in Tasks /\ task[v].at # "announce"
      /\ IsCurrent(viewer[v])
    BY DEF TypeOK, TierInv, ReadInit, ApplyInit, HandleMedia, InformAboutControl
<1>1. UNCHANGED publisherVars
    BY DEF ReadInit, ApplyInit, HandleMedia, InformAboutControl
<1>2. \A w \in Viewers : w # v => task'[w] = task[w]
    BY DEF ReadInit, ApplyInit, HandleMedia, InformAboutControl, GoOn, Ends, TypeOK
<1>3. ASSUME NEW s, Set(v, s), IsCurrent(s) PROVE TierInv'
    BY <1>1, <1>2, <1>3, SetKeepsTiers
<1>4. CASE ReadInit(v)
    <2>1. Set(v, viewer[v]) \/ Set(v, Informed(viewer[v]))
        BY <1>4 DEF ReadInit, Set, TypeOK
    <2> QED
        BY <1>0, <1>3, <2>1, InformedIsCurrent
<1>5. CASE ApplyInit(v)
    <2>1. /\ task[v].valid \in BOOLEAN /\ task[v].role \in Roles \cup {"unknown"}
          /\ task[v].video \in BOOLEAN
        BY <1>0, <1>5, TaskParts DEF ApplyInit
    <2> QED
        BY <1>0, <1>3, <1>5, <2>1, IntroducedIsCurrent DEF ApplyInit
<1>6. CASE HandleMedia(v)
    <2>1. PICK a, b : Set(v, [viewer[v] EXCEPT !.video = a, !.route = b])
        BY <1>6 DEF HandleMedia
    <2> DEFINE s == [viewer[v] EXCEPT !.video = a, !.route = b]
    <2>2. /\ s.roomMode = viewer[v].roomMode /\ s.roleValid = viewer[v].roleValid
          /\ s.role = viewer[v].role /\ s.alpha = viewer[v].alpha
          /\ s.tier = viewer[v].tier /\ s.joined = viewer[v].joined
          /\ s.chan = viewer[v].chan /\ s.init = viewer[v].init
        BY <1>0 DEF Sessions
    <2> HIDE DEF s
    <2>3. IsCurrent(s)
        BY <1>0, <2>2, StaysCurrent
    <2> QED
        BY <1>3, <2>1, <2>3 DEF s
<1>7. CASE InformAboutControl(v)
    BY <1>0, <1>3, <1>7, InformedIsCurrent DEF InformAboutControl
<1> QED
    BY <1>4, <1>5, <1>6, <1>7

(* What a viewer's handler does to the publisher.                          *)
LEMMA ActingKeepsTiers ==
    ASSUME TypeOK, TierInv, NEW v \in Viewers,
           \/ ControlStream(v) \/ HandOverStream(v)
           \/ HangUp(v) \/ HangUpLeavesRoom(v) \/ HangUpStopsCapture(v)
    PROVE  TierInv'
<1>0. task[v] \in Tasks /\ config \in Configs /\ task[v].at # "announce"
    BY DEF TypeOK, ControlStream, HandOverStream, HangUp, HangUpLeavesRoom, HangUpStopsCapture
<1>1. \A w \in Viewers : task'[w].at # "announce" => task[w].at # "announce"
    BY <1>0 DEF ControlStream, HandOverStream, HangUp, HangUpLeavesRoom,
           HangUpStopsCapture, GoOn, Ends, TypeOK
<1>2. CASE \E c : \E r, a : Commit(c, r, a)
    BY <1>2, CommitSetsTiers
<1>3. CASE UNCHANGED <<quality, viewer>> /\ (config' = config \/ config'.codec = config.codec)
    BY <1>1, <1>3, UntouchedTiers
<1>4. CASE ControlStream(v)
    <2>1. CASE ControlIsApplied(task[v].rate)
        <3>1. task[v].rate \in Rates
            BY <1>0, <1>4, TaskParts DEF ControlStream
        <3>2. WithRate(task[v].rate).codec = config.codec
            BY <1>0, <3>1, RateTypes DEF WithRate
        <3>3. \/ config' = WithRate(task[v].rate) /\ UNCHANGED <<quality, viewer>>
              \/ UNCHANGED <<config, quality, viewer>>
              \/ \E c : \E r, a : Commit(c, r, a)
            BY <2>1 DEF ControlIsApplied, CommitForCodec
        <3> QED
            BY <1>2, <1>3, <3>2, <3>3
    <2>2. CASE Prepare(v, task[v].rate)
        BY <1>3, <2>2 DEF Prepare
    <2> QED
        BY <1>4, <2>1, <2>2 DEF ControlStream
<1>5. CASE HandOverStream(v)
    <2>1. /\ control.by = v /\ UNCHANGED <<quality, viewer>>
          /\ config' = [config EXCEPT !.rate = control.rate] \/ config' = config
        BY <1>5 DEF HandOverStream, Handover, StillCurrent
    <2>2. control.rate \in Rates
        BY <2>1, NoViewerAssumption DEF TypeOK
    <2>3. [config EXCEPT !.rate = control.rate].codec = config.codec
        BY <1>0, <2>2, RateTypes
    <2> QED
        BY <1>3, <2>1, <2>3
<1>6. CASE HangUp(v)
    BY <1>6, StoppingKeepsTiers DEF HangUp, Actors
<1>7. CASE HangUpLeavesRoom(v)
    BY <1>2, <1>7 DEF HangUpLeavesRoom, LeaveRoom
<1>8. CASE HangUpStopsCapture(v)
    BY <1>3, <1>8 DEF HangUpStopsCapture
<1> QED
    BY <1>4, <1>5, <1>6, <1>7, <1>8

LEMMA NextKeepsTiers == TypeOK /\ TierInv /\ [Next]_vars => TierInv'
<1> SUFFICES ASSUME TypeOK, TierInv, [Next]_vars PROVE TierInv'
    OBVIOUS
<1>1. CASE UNCHANGED vars
    BY <1>1, UntouchedTiers DEF vars, publisherVars, laneVars
<1>2. CASE Publisher /\ UNCHANGED laneVars
    BY <1>2, PublisherKeepsTiers
<1>3. CASE Stop
    <2>1. CASE StopLive(NoViewer)
        BY <2>1, StoppingKeepsTiers DEF Actors
    <2>2. CASE StopCapture
        BY <1>3, <2>2, UntouchedTiers DEF StopCapture, Stop, laneVars
    <2> QED
        BY <1>3, <2>1, <2>2 DEF Stop
<1>4. ASSUME NEW v \in Viewers, Channel(v) \/ Handler(v) \/ GraceEnds(v) PROVE TierInv'
    BY <1>4, ChannelKeepsTiers, ReadingKeepsTiers, HandlingKeepsTiers, ActingKeepsTiers
       DEF Handler
<1>5. CASE Maintenance
    BY <1>5, MaintenanceKeepsTiers
<1> QED
    BY <1>1, <1>2, <1>3, <1>4, <1>5 DEF Next

(* The tier cached for a viewer is the one it would be routed by now, once *)
(* its handler rests: no fallback, commit, frame, runtime control, role,   *)
(* capability or reopened channel leaves a viewer with an old tier         *)
(* (refreshPeerStreamTiers, sendPeerDataInfo, applyPeerInitState).         *)
THEOREM TiersAreCurrent == Spec => []TierCoherent
<1>1. Init => TierInv
    BY DEF Init, TierInv, IsCurrent, NewSession
<1>2. TypeOK /\ TierInv => TierCoherent
    BY DEF TierInv, TierCoherent, IsCurrent, IsIdle
<1> QED
    BY <1>1, <1>2, NextKeepsTiers, Typed, PTL DEF Spec

-----------------------------------------------------------------------------
(* Only the handover of a replacement ends a runtime control.              *)

LEMMA ControlKeeps ==
    ASSUME TypeOK, [Next]_vars, control.by # NoViewer, control'.by = NoViewer
    PROVE  \E v \in Viewers : HandOverStream(v)
<1>1. Touched.by = control.by
    BY DEF TypeOK, Touched
<1>2. control' \notin {control, Touched}
    BY <1>1
<1>3. CASE UNCHANGED vars
    BY <1>2, <1>3 DEF vars, publisherVars
<1>4. CASE Publisher /\ UNCHANGED laneVars
    BY <1>2, <1>4 DEF Publisher, SetVideoConfig, GoLive, Published, LeaveRoom, StartCapture,
       CaptureStops, EncodersStart, EncodersFallBack, EncodersFail, AudioFails,
       RollBack, CaptureRuns, EncodeFrame, LowEncoder,
       CodecFallsBack, HardwareRecovers, AlphaFails, AnswerRejected, NoTrackActive
<1>5. CASE Stop
    BY <1>2, <1>5 DEF Stop, StopLive, StopCapture, CaptureStops
<1>6. ASSUME NEW v \in Viewers, Channel(v) \/ GraceEnds(v) PROVE FALSE
    BY <1>2, <1>6 DEF Channel, Join, Leave, ChannelOpens, MayOpen,
       ChannelIsLost, ChannelCloses, ReceiveMessage, Receive, Hears,
       ReceivePing, GraceEnds, publisherVars
<1>7. ASSUME NEW v \in Viewers, Handler(v) PROVE HandOverStream(v)
    <2>1. ~(HandleInfo(v) \/ Announce(v) \/ Authorize(v) \/ ReadInit(v) \/ ApplyInit(v)
            \/ HandleMedia(v) \/ InformAboutControl(v))
        BY <1>2 DEF HandleInfo, Announce, Authorize, ReadInit, ApplyInit, HandleMedia,
           InformAboutControl, publisherVars
    <2>2. ~ControlStream(v)
        BY <1>2 DEF ControlStream, ControlIsApplied, Prepare
    <2>3. ~(HangUp(v) \/ HangUpLeavesRoom(v) \/ HangUpStopsCapture(v))
        BY <1>2 DEF HangUp, HangUpLeavesRoom, HangUpStopsCapture, StopLive, LeaveRoom,
           CaptureStops
    <2> QED
        BY <1>7, <2>1, <2>2, <2>3 DEF Handler
<1>8. CASE Maintenance
    BY <1>2, <1>8 DEF Maintenance, CollectExpired, CheckExpired, FallBack, publisherVars
<1> QED
    BY <1>3, <1>4, <1>5, <1>6, <1>7, <1>8 DEF Next

(* A runtime control changes the rate and nothing else: a replacement that *)
(* was prepared while videoSendMutex_ was free is handed over only if      *)
(* configuration and encoder are what it was prepared for                  *)
(* (applyRuntimeVideoControl).                                             *)
THEOREM ControlChangesTheRate == Spec => ControlKeepsOthers
<1>1. TypeOK /\ [Next]_vars =>
        [control.by # NoViewer /\ control'.by = NoViewer /\ config' # config =>
           config' = [config EXCEPT !.rate = control.rate]]_<<control, config>>
    <2> SUFFICES ASSUME TypeOK, [Next]_vars, control.by # NoViewer,
                        control'.by = NoViewer, config' # config
                 PROVE  config' = [config EXCEPT !.rate = control.rate]
        OBVIOUS
    <2>1. PICK v \in Viewers : HandOverStream(v)
        BY ControlKeeps
    <2> QED
        BY <2>1 DEF HandOverStream, Handover, StillCurrent
<1> QED
    BY <1>1, Typed, PTL DEF Spec, ControlKeepsOthers
=============================================================================
