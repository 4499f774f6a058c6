--------------------------- MODULE ViewerControl ---------------------------
(***************************************************************************)
(* What one viewer's session goes through between the opening of its data  *)
(* channel and a stream it can show: control messages that introduce it,   *)
(* turn media on and off, and ask for changes of the shared stream, and    *)
(* the maintenance thread, which gives a silent viewer a role of its own   *)
(* when a grace period is over.                                            *)
(*                                                                         *)
(* The messages of a viewer are handled one after the other (a lane of the *)
(* peer executor), but not atomically: the handler reads what it decides   *)
(* on without a lock, and the maintenance thread, the frames and the other *)
(* viewers come between.  A message here names what the code looks for in  *)
(* it, absent fields included; wording, metadata and answers are left out, *)
(* and so are negotiation and keyframes (PeerNegotiation, AlphaPipeline).  *)
(***************************************************************************)
EXTENDS RoomQuality

CONSTANTS
    Messages,       \* what viewers send, besides pings
    MaxMessages,    \* bound: messages of one viewer, pings not counted
    RemoteControl   \* remoteControlEnabled_

(* role: "none" no role signal, "bad" one that names no known role.        *)
MessageFields ==
    [info : BOOLEAN, alpha : {"keep", "on", "off"},
     role : Roles \cup {"none", "bad"}, video : {"keep", "on", "off"},
     mute : {"keep", "on", "off"}, route : {"keep", "on", "off"},
     rate : Rates \cup {0}, token : BOOLEAN, hangup : BOOLEAN]

Ping == [info |-> FALSE, alpha |-> "keep", role |-> "none", video |-> "keep",
         mute |-> "keep", route |-> "keep", rate |-> 0, token |-> FALSE,
         hangup |-> FALSE]

ASSUME MessagesAssumption == Messages \subseteq MessageFields
ASSUME BoundAssumption == MaxMessages \in Nat /\ RemoteControl \in BOOLEAN

VARIABLES
    task,         \* the handler of a viewer's lane
    sent,         \* messages a viewer has sent (bound)
    due,          \* expired sessions the maintenance thread goes through
    checked,      \* the one it is about to give a role
    named         \* history: the role the viewer gave itself

laneVars == <<task, sent, due, checked, named>>
vars == <<publisherVars, viewer, laneVars>>

Sessions ==
    [joined : BOOLEAN, roomMode : BOOLEAN, chan : {"new", "open", "lost", "closed"},
     open : BOOLEAN, init : BOOLEAN, roleValid : BOOLEAN,
     role : Roles \cup {"unknown"}, video : BOOLEAN, alpha : BOOLEAN,
     saw : BOOLEAN, route : BOOLEAN, tier : Tiers,
     deadline : {"off", "armed", "due"}]

Tasks ==
    [at : {"idle", "hangup", "hangingUp", "hungUp", "prepare", "inform"}]
    \cup [at : {"info", "announce", "authorize"}, m : MessageFields]
    \cup [at : {"init", "media"}, m : MessageFields, may : BOOLEAN, directs : BOOLEAN]
    \cup [at : {"apply"}, m : MessageFields, may : BOOLEAN, directs : BOOLEAN,
          role : Roles \cup {"unknown"}, valid : BOOLEAN, video : BOOLEAN]
    \cup [at : {"control"}, rate : Rates]

Rest == [at |-> "idle"]
IsIdle(v) == task[v].at = "idle"

(* The handler of v goes on at "at".                                       *)
GoOn(v, at) == task' = [task EXCEPT ![v].at = at]
Ends(v) == task' = [task EXCEPT ![v] = Rest]

Set(v, s) == viewer' = [viewer EXCEPT ![v] = s]

(* A grace period starts for a viewer that has not introduced itself.      *)
Armed(s) == IF s.init THEN s ELSE [s EXCEPT !.deadline = "armed"]

\* Mutant of Heard: only the opening of the channel starts a grace period.
HeardMutant(s) == [s EXCEPT !.open = TRUE]

(* The wrapper of a data message: the channel is open, and a grace period  *)
(* runs if none does, as after a message that named no role.               *)
Heard(s) ==
    IF s.deadline = "off" THEN Armed([s EXCEPT !.open = TRUE])
    ELSE [s EXCEPT !.open = TRUE]

(* sendPeerDataInfo recomputes the tier, unless the channel is closed.     *)
Informed(s) ==
    IF s.chan = "open" THEN [s EXCEPT !.tier = PeerTier(s, quality, config)] ELSE s

(* applyPeerInitState, all of it under the session's initStateMutex: a     *)
(* room viewer is introduced only with a role, a direct one always.        *)
Introduced(s, valid, role, video) ==
    LET told == [s EXCEPT !.roleValid = valid, !.role = role, !.video = video]
    IN IF s.roomMode
       THEN [told EXCEPT !.tier = PeerTier(told, quality, config),
                         !.init = valid,
                         !.deadline = IF valid THEN "off" ELSE @]
       ELSE [told EXCEPT !.tier = "hq", !.init = TRUE, !.deadline = "off"]

\* Mutant of FallenBack: the thread trusts what it saw earlier.
FallenBackMutant(s) == Introduced(s, TRUE, "viewer", TRUE)

(* applyPeerInitFallbackIfPending looks at initReceived under that mutex.  *)
FallenBack(s) == IF s.init THEN s ELSE Introduced(s, TRUE, "viewer", TRUE)

IsDirector(s) == s.roomMode /\ s.roleValid /\ s.role = "director"

(* isControlMessageAuthorized, for a publisher with a token.               *)
Authorized(s, m) == RemoteControl /\ (IsDirector(s) \/ m.token)

-----------------------------------------------------------------------------
(* Sessions and their channels.                                            *)

Join(v) ==
    /\ ~viewer[v].joined /\ IsIdle(v)
    /\ v \notin due /\ checked # v /\ v \notin leaving
    /\ live \/ app.at = "goingLive"
    /\ Set(v, NewSession(room))
    /\ named' = [named EXCEPT ![v] = "none"]
    /\ UNCHANGED <<publisherVars, task, sent, due, checked>>

(* peer-bye, cleanup, a prune or a failed connection.                      *)
Leave(v) ==
    /\ viewer[v].joined
    /\ Set(v, [viewer[v] EXCEPT !.joined = FALSE])
    /\ UNCHANGED <<publisherVars, laneVars>>

(* A channel is bound, the first one or one that takes the place of a      *)
(* closed one.                                                             *)
MayOpen(v) == viewer[v].joined /\ viewer[v].chan \in {"new", "closed"}

(* handlePeerDataChannelState(open), on the lane.                          *)
ChannelOpens(v) ==
    /\ MayOpen(v) /\ IsIdle(v)
    /\ Set(v, Informed(Armed([viewer[v] EXCEPT !.chan = "open", !.open = TRUE])))
    /\ UNCHANGED <<publisherVars, laneVars>>

(* The channel is lost at any time, the event is handled on the lane.      *)
ChannelIsLost(v) ==
    /\ viewer[v].joined /\ viewer[v].chan = "open"
    /\ Set(v, [viewer[v] EXCEPT !.chan = "lost"])
    /\ UNCHANGED <<publisherVars, laneVars>>

ChannelCloses(v) ==
    /\ viewer[v].chan = "lost" /\ IsIdle(v)
    /\ Set(v, [viewer[v] EXCEPT !.chan = "closed", !.open = FALSE, !.deadline = "off"])
    /\ UNCHANGED <<publisherVars, laneVars>>

(* Only the current channel's messages are passed on.                      *)
Hears(v) == viewer[v].joined /\ viewer[v].chan = "open"

(* A message is taken from the lane.                                       *)
Receive(v, m) ==
    /\ Hears(v) /\ IsIdle(v)
    /\ Set(v, Heard(viewer[v]))
    /\ task' = [task EXCEPT ![v] = [at |-> "info", m |-> m]]
    /\ UNCHANGED <<publisherVars, due, checked, named>>

ReceiveMessage(v) ==
    /\ sent[v] < MaxMessages
    /\ sent' = [sent EXCEPT ![v] = @ + 1]
    /\ \E m \in Messages : Receive(v, m)

(* A ping has nothing in it for the rest of the handler.                   *)
ReceivePing(v) ==
    /\ Hears(v) /\ IsIdle(v)
    /\ Set(v, Heard(viewer[v]))
    /\ UNCHANGED <<publisherVars, laneVars>>

-----------------------------------------------------------------------------
(* The handler.                                                            *)

(* The info object: an alpha capability that changed is announced at once  *)
(* to a viewer that is introduced.                                         *)
HandleInfo(v) ==
    LET s == viewer[v]
        m == task[v].m
        takes == IF m.info /\ m.alpha # "keep" THEN m.alpha = "on" ELSE s.alpha
    IN /\ task[v].at = "info"
       /\ Set(v, [s EXCEPT !.saw = @ \/ m.info, !.alpha = takes])
       /\ GoOn(v, IF takes # s.alpha /\ s.init THEN "announce" ELSE "authorize")
       /\ UNCHANGED <<publisherVars, sent, due, checked, named>>

Announce(v) ==
    /\ task[v].at = "announce"
    /\ Set(v, Informed(viewer[v]))
    /\ GoOn(v, "authorize")
    /\ UNCHANGED <<publisherVars, sent, due, checked, named>>

(* What the message may do to the shared stream is decided before its own  *)
(* role is applied.  A hangup that is not authorised ends the message.     *)
Authorize(v) ==
    LET m == task[v].m
        may == Authorized(viewer[v], m)
        directs == may /\ IsDirector(viewer[v])
    IN /\ task[v].at = "authorize"
       /\ task' = [task EXCEPT ![v] =
            IF m.hangup THEN IF may THEN [at |-> "hangup"] ELSE Rest
            ELSE [at |-> "init", m |-> m, may |-> may, directs |-> directs]]
       /\ UNCHANGED <<publisherVars, viewer, sent, due, checked, named>>

(* A direct viewer's info introduces it without a role of its own.         *)
HasInit(s, m) ==
    m.role # "none" \/ m.video # "keep" \/ (~s.roomMode /\ m.info)

(* The handler decides what to apply from fields it reads without a lock.  *)
(* A role it cannot read ends the message; nothing new is not applied.     *)
ReadInit(v) ==
    LET s == viewer[v]
        m == task[v].m
        explicit == m.role # "none"
        kept == s.init /\ ~explicit
        role == IF explicit THEN m.role
                ELSE IF kept THEN s.role
                ELSE IF s.roomMode THEN "unknown" ELSE "viewer"
        valid == explicit \/ (IF kept THEN s.roleValid ELSE ~s.roomMode)
        video == IF m.video # "keep" THEN m.video = "on"
                 ELSE IF s.init THEN s.video ELSE TRUE
    IN /\ task[v].at = "init"
       /\ \/ ~HasInit(s, m) /\ GoOn(v, "media") /\ UNCHANGED viewer
          \/ m.role = "bad" /\ Ends(v) /\ Set(v, Informed(s))
          \/ /\ HasInit(s, m) /\ kept /\ m.video = "keep"
             /\ GoOn(v, "media")
             /\ Set(v, IF s.roomMode THEN Informed(s) ELSE s)
          \/ /\ HasInit(s, m) /\ m.role # "bad"
             /\ ~(kept /\ m.video = "keep")
             /\ task' = [task EXCEPT ![v] =
                  [at |-> "apply", m |-> m, may |-> task[v].may,
                   directs |-> task[v].directs, role |-> role, valid |-> valid,
                   video |-> video]]
             /\ UNCHANGED viewer
       /\ UNCHANGED <<publisherVars, sent, due, checked, named>>

ApplyInit(v) ==
    LET t == task[v]
    IN /\ t.at = "apply"
       /\ Set(v, Introduced(viewer[v], t.valid, t.role, t.video))
       /\ named' = [named EXCEPT ![v] = IF t.m.role # "none" THEN t.m.role ELSE @]
       /\ task' = [task EXCEPT ![v] =
            [at |-> "media", m |-> t.m, may |-> t.may, directs |-> t.directs]]
       /\ UNCHANGED <<publisherVars, sent, due, checked>>

(* A director's mute and the viewer's own route: a value that is not zero  *)
(* cannot change the quality, but it brings a stopped route back.          *)
HandleMedia(v) ==
    LET m == task[v].m
        s == viewer[v]
    IN /\ task[v].at = "media"
       /\ Set(v, [s EXCEPT
            !.video = IF m.mute # "keep" /\ task[v].directs THEN m.mute = "off" ELSE @,
            !.route = IF m.route # "keep" THEN m.route = "on" ELSE @])
       /\ task' = [task EXCEPT ![v] =
            IF m.rate > 0 /\ task[v].may /\ (s.roomMode => s.init)
            THEN [at |-> "control", rate |-> m.rate] ELSE Rest]
       /\ UNCHANGED <<publisherVars, sent, due, checked, named>>

(* A control of the shared stream, with or without a replacement.          *)
ControlStream(v) ==
    /\ task[v].at = "control"
    /\ \/ ControlIsApplied(task[v].rate) /\ task' = [task EXCEPT ![v] = [at |-> "inform"]]
       \/ Prepare(v, task[v].rate) /\ task' = [task EXCEPT ![v] = [at |-> "prepare"]]
    /\ UNCHANGED <<sent, due, checked, named>>

HandOverStream(v) ==
    /\ task[v].at = "prepare"
    /\ Handover(v)
    /\ task' = [task EXCEPT ![v] = [at |-> "inform"]]
    /\ UNCHANGED <<sent, due, checked, named>>

InformAboutControl(v) ==
    /\ task[v].at = "inform"
    /\ Set(v, Informed(viewer[v]))
    /\ Ends(v)
    /\ UNCHANGED <<publisherVars, sent, due, checked, named>>

(* A hangup is stopLive and stopCapture, on the viewer's lane; both wait   *)
(* for the maintenance thread.                                             *)
MaintenanceRests == due = {} /\ checked = NoViewer

HangUp(v) ==
    /\ task[v].at = "hangup"
    /\ MaintenanceRests
    /\ StopLive(v)
    /\ GoOn(v, "hangingUp")
    /\ UNCHANGED <<sent, due, checked, named>>

HangUpLeavesRoom(v) ==
    /\ task[v].at = "hangingUp"
    /\ LeaveRoom(v)
    /\ GoOn(v, "hungUp")
    /\ UNCHANGED <<sent, due, checked, named>>

HangUpStopsCapture(v) ==
    /\ task[v].at = "hungUp"
    /\ MaintenanceRests
    /\ CaptureStops
    /\ Ends(v)
    /\ UNCHANGED <<live, room, lqAsked, config, quality, app, leaving,
                   viewer, sent, due, checked, named>>

-----------------------------------------------------------------------------
(* The maintenance thread.                                                 *)

GraceEnds(v) ==
    /\ viewer[v].deadline = "armed"
    /\ Set(v, [viewer[v] EXCEPT !.deadline = "due"])
    /\ UNCHANGED <<publisherVars, laneVars>>

Expired == {v \in Viewers : /\ viewer[v].joined /\ ~viewer[v].init
                            /\ viewer[v].deadline = "due"}

CollectExpired ==
    /\ live /\ capturing /\ MaintenanceRests
    /\ Expired # {}
    /\ due' = Expired
    /\ UNCHANGED <<publisherVars, viewer, task, sent, checked, named>>

(* Introduced meanwhile, not reachable, or a direct viewer whose info is   *)
(* left to its own handler: no fallback.                                   *)
CheckExpired(v) ==
    LET s == viewer[v]
        reachable == s.open \/ s.chan = "open"
    IN /\ v \in due /\ checked = NoViewer
       /\ due' = due \ {v}
       /\ \/ s.init /\ UNCHANGED <<viewer, checked>>
          \/ /\ ~s.init
             /\ Set(v, [s EXCEPT !.deadline = "off"])
             /\ checked' = IF reachable /\ (s.roomMode \/ ~s.saw) THEN v ELSE NoViewer
       /\ UNCHANGED <<publisherVars, task, sent, named>>

(* dataChannelOpen is stored although the channel may be closed by now.    *)
FallBack(v) ==
    /\ checked = v
    /\ Set(v, FallenBack([viewer[v] EXCEPT !.open = TRUE]))
    /\ checked' = NoViewer
    /\ UNCHANGED <<publisherVars, task, sent, due, named>>

-----------------------------------------------------------------------------
Init ==
    /\ PublisherInit
    /\ viewer = [v \in Viewers |-> [NewSession(FALSE) EXCEPT !.joined = FALSE]]
    /\ task = [v \in Viewers |-> Rest]
    /\ sent = [v \in Viewers |-> 0]
    /\ due = {}
    /\ checked = NoViewer
    /\ named = [v \in Viewers |-> "none"]

Handler(v) ==
    \/ HandleInfo(v) \/ Announce(v) \/ Authorize(v) \/ ReadInit(v) \/ ApplyInit(v)
    \/ HandleMedia(v) \/ ControlStream(v) \/ HandOverStream(v) \/ InformAboutControl(v)
    \/ HangUp(v) \/ HangUpLeavesRoom(v) \/ HangUpStopsCapture(v)

Channel(v) ==
    \/ Join(v) \/ Leave(v)
    \/ ChannelOpens(v) \/ ChannelIsLost(v) \/ ChannelCloses(v)
    \/ ReceiveMessage(v) \/ ReceivePing(v)

Maintenance ==
    \/ CollectExpired
    \/ \E v \in Viewers : CheckExpired(v) \/ FallBack(v)

(* The application stops the stream or the capture only when the           *)
(* maintenance thread has been joined.                                     *)
Stop ==
    /\ MaintenanceRests
    /\ StopLive(NoViewer) \/ StopCapture
    /\ UNCHANGED laneVars

Next ==
    \/ Publisher /\ UNCHANGED laneVars
    \/ Stop
    \/ \E v \in Viewers : Channel(v) \/ Handler(v) \/ GraceEnds(v)
    \/ Maintenance

(* Threads that can go on do, a grace period ends, and a viewer that is    *)
(* there goes on sending pings (the channel is not silent).                *)
Fairness ==
    /\ WF_vars(Maintenance)
    /\ \A v \in Viewers : /\ WF_vars(Handler(v))
                          /\ WF_vars(GraceEnds(v))
                          /\ WF_vars(ReceivePing(v))

Spec == Init /\ [][Next]_vars
FairSpec == Spec /\ Fairness

-----------------------------------------------------------------------------
(* Properties.                                                             *)

TypeOK ==
    /\ live \in BOOLEAN /\ capturing \in BOOLEAN
    /\ room \in BOOLEAN /\ lqAsked \in BOOLEAN /\ lqOn \in BOOLEAN
    /\ config \in Configs
    /\ app \in [at : {"idle", "goingLive", "started", "leaving"}]
                \cup [at : {"starting"}, copy : Configs]
    /\ leaving \subseteq Actors
    /\ control \in [by : {NoViewer}]
                    \cup [by : Viewers, base : Configs, rate : Rates, touched : BOOLEAN]
    /\ viewer \in [Viewers -> Sessions]
    /\ task \in [Viewers -> Tasks]
    /\ sent \in [Viewers -> 0 .. MaxMessages]
    /\ due \subseteq Viewers
    /\ checked \in Actors
    /\ named \in [Viewers -> Roles \cup {"none"}]

(* What a handler is about to apply is the role its message names, or the  *)
(* one the viewer already gave itself.                                     *)
PlannedRoleOK ==
    \A v \in Viewers :
        task[v].at = "apply" =>
            /\ task[v].m.role # "bad"
            /\ task[v].m.role # "none" => task[v].valid /\ task[v].role = task[v].m.role
            /\ task[v].m.role = "none" /\ named[v] # "none" =>
                  task[v].valid /\ task[v].role = named[v]

(* The tier cached for a viewer, which the statistics and the answers to   *)
(* the viewer report, is the one it would be routed by now: no change of   *)
(* the codec, the room, the alpha capability or the role leaves a viewer   *)
(* with an old tier once its handler rests.                                *)
TierCoherent ==
    \A v \in Viewers :
        LET s == viewer[v]
        IN s.joined /\ s.chan = "open" /\ IsIdle(v) /\ s.init =>
               s.tier = PeerTier(s, quality, config)

(* A role the viewer gave itself stands: neither the fallback of the       *)
(* maintenance thread, which had seen the viewer silent, nor a message     *)
(* without a role takes it away.                                           *)
RoleIsTheViewersOwn ==
    \A v \in Viewers :
        named[v] # "none" =>
            viewer[v].init /\ viewer[v].roleValid /\ viewer[v].role = named[v]

(* A viewer whose channel stays open on a live stream is introduced, by    *)
(* itself or by the fallback, however its messages, the maintenance thread *)
(* and lost channels interleaved before.                                   *)
Stays(v) == viewer[v].joined /\ viewer[v].chan = "open" /\ live /\ capturing

Served == \A v \in Viewers : <>[]Stays(v) => <>[](viewer[v].init)
=============================================================================
