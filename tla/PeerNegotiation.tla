--------------------------- MODULE PeerNegotiation ---------------------------
(***************************************************************************)
(* The negotiation of one viewer (VersusApp::PeerSession): offers, answers,*)
(* media plans, transport replacement and ICE candidates, as the threads   *)
(* of the application run them against each other.                         *)
(*                                                                         *)
(* A step is one critical section of negotiationMutex, together with what  *)
(* its thread does to the transport or the wire before it next looks at    *)
(* shared state.  Two longer locks are read off the program counters:      *)
(* clientOperationMutex is held by the thread inside sendPeerOffer or the  *)
(* initialization; callbackOperationMutex (the lease) by that same thread  *)
(* in sendPeerOffer, and by the executor's worker for a whole operation.   *)
(***************************************************************************)
EXTENDS Integers, Sequences, FiniteSets, SequencesExt

CONSTANTS
    Threads,       \* the threads that handle events of the peer
    Worker,        \* the one that is the peer operation executor's worker
    Local, Remote, \* ICE candidates gathered by, and received for, the transport
    NoCandidate,
    FallsBack,     \* the video codec is not H.264: a viewer may reject it
    MaxPending,    \* kPendingRemoteCandidatesMaxPerPeer
    MaxOffer,      \* bound: offers reserved
    MaxSession     \* bound: wire sessions (the first, and one per rebuild)

ASSUME NegotiationAssumption ==
    /\ Worker \in Threads
    /\ NoCandidate \notin Local \cup Remote
    /\ FallsBack \in BOOLEAN
    /\ MaxPending \in Nat \ {0} /\ MaxOffer \in Nat \ {0} /\ MaxSession \in Nat \ {0}

VARIABLES
    \* guarded by negotiationMutex, named as in PeerSession
    removed, initializing,
    creating,       \* offerCreationInProgress
    answering,      \* answerApplicationInProgress
    planning,       \* mediaPlanApplicationInProgress
    retired,        \* transportRetired
    queued,         \* queuedOfferTransition, queuedOfferRebuild, queuedMediaPlan
    dispatched,     \* offerDispatched
    answered,       \* answerReceived
    offerGen, transportGen, clientGen,
    session,        \* activeWireSession
    pendingLocal,   \* pendingCandidates
    fellBack,       \* codecFallbackAttempted
    \* guarded by peerSessionsMutex_
    mapped,         \* the peer is in peerSessions_
    pendingRemote,  \* pendingRemoteCandidates_ of this viewer, a queue per session;
                    \* 0 stands for candidates that name none
    \* the WebRtcClient
    transport,      \* its transport generation
    created, described,  \* has a local, a remote description
    closed,         \* its connection has failed or closed, for good
    applied, answers,  \* history: the candidates it was given, the sessions of its answers,
    verdicts,          \* and what became of each offer it answered
    \* the threads
    pc, ctx,        \* ctx: the generations a thread captured before it unlocked
    outcome,        \* what its last call returned
    mail,           \* the remote candidates it carries
    ice,            \* the candidate the ICE callback is about to send, if any
    \* the wire (history): the offers and candidates sent, the transport that
    \* gathered each, and the candidates heard from the viewer
    offers, sent, gathered, heard

negVars == <<removed, initializing, creating, answering, planning, retired, queued,
             dispatched, answered, offerGen, transportGen, clientGen, session>>
candVars    == <<pendingLocal, mapped, pendingRemote>>
givenVars   == <<applied, answers, verdicts>>
clientVars  == <<transport, created, described, closed, givenVars>>
threadVars  == <<pc, ctx, outcome, mail>>
wireVars    == <<offers, sent, gathered, heard>>
vars == <<negVars, fellBack, candVars, clientVars, threadVars, ice, wireVars>>

Sessions == 1 .. MaxSession
NothingPending == [s \in 0 .. MaxSession |-> <<>>]

\* The generations a thread saw, and the wire session its message came with.
Here(wire) == [offer |-> offerGen, transport |-> transportGen, session |-> session,
               wire |-> wire]
Nowhere    == [offer |-> 0, transport |-> 0, session |-> 1, wire |-> 0]
StillHere(t) == ctx[t] = Here(ctx[t].wire)

\* Inside sendPeerOffer, past the reservation.
Offering  == {"build", "create", "failed", "dispatch", "unsend", "flush"}
Answering == {"answer", "fallback", "commit"}

\* onOfferRequest has admitted the peer to the map and initializes it; viewers
\* may have sent candidates before, which are queued without a session.
Init ==
    /\ removed = FALSE /\ initializing = TRUE /\ creating = FALSE /\ answering = FALSE
    /\ planning = FALSE /\ retired = FALSE /\ queued = {} /\ dispatched = FALSE
    /\ answered = FALSE /\ fellBack = FALSE
    /\ offerGen = 0 /\ transportGen = 0 /\ clientGen = 0 /\ session = 1
    /\ pendingLocal = {} /\ mapped = TRUE
    /\ \/ pendingRemote = NothingPending
       \/ \E c \in Remote :
             pendingRemote = [NothingPending EXCEPT ![0] = <<[cand |-> c, transport |-> 0]>>]
    /\ transport = 0 /\ created = FALSE /\ described = FALSE /\ closed = FALSE
    /\ \E t \in Threads \ {Worker} : pc = [u \in Threads |-> IF u = t THEN "init" ELSE "idle"]
    /\ ctx = [t \in Threads |-> Nowhere]
    /\ outcome = [t \in Threads |-> "none"]
    /\ mail = [t \in Threads |-> {}]
    /\ ice = [cand |-> NoCandidate, session |-> 1]
    /\ offers = {} /\ sent = {} /\ applied = {} /\ answers = {} /\ verdicts = {}
    /\ gathered = [c \in Local |-> 0]
    /\ heard = [cand : {p.cand : p \in ToSet(pendingRemote[0])}, session : {0}]

-----------------------------------------------------------------------------
\* A thread forgets what it captured when its operation returns.
Goto(t, label) ==
    /\ pc' = [pc EXCEPT ![t] = label]
    /\ ctx' = IF label = "idle" THEN [ctx EXCEPT ![t] = Nowhere] ELSE ctx

ClientFree == \A t \in Threads : pc[t] \notin Offering \cup {"init"}

\* callbackOperationMutex as thread t sees it.
LeaseFree(t) ==
    \A u \in Threads \ {t} : pc[u] \notin Offering /\ ~(u = Worker /\ pc[u] # "idle")

\* An event of the peer reaches an idle thread.  The worker dispatches only
\* events of the current client transport, under the lease.
Event(t) ==
    /\ pc[t] = "idle" /\ ~removed
    /\ t = Worker => clientGen # 0 /\ LeaseFree(t)

Unresolved == creating \/ (dispatched /\ ~answered)

\* onOfferRequest: the client is initialized and its callbacks installed, or
\* the session is removed; then the first offer.
Initialize(t) ==
    /\ pc[t] = "init"
    /\ \/ /\ transport' = 1 /\ clientGen' = 1
          /\ initializing' = FALSE
          /\ Goto(t, "offer")
          /\ UNCHANGED <<removed, queued>>
       \/ /\ Goto(t, IF removed THEN "idle" ELSE "erase")
          /\ removed' = TRUE /\ queued' = {}
          /\ UNCHANGED <<transport, clientGen, initializing>>
    /\ UNCHANGED <<creating, answering, planning, retired, dispatched, answered, offerGen,
                   transportGen, session, fellBack, candVars, created, described, closed,
                   givenVars, outcome, mail, ice, wireVars>>

-----------------------------------------------------------------------------
(***************************************************************************)
(* sendPeerOffer().                                                        *)
(***************************************************************************)
\* An ICE restart, a refresh, an alpha change or a codec fallback.
RequestsRebuild(t) == Event(t) \/ pc[t] = "rebuild"

\* Mutant: a rebuild does not wait for the answer being applied.
ReserveOverAnswer(rebuild) == ~planning /\ (Unresolved => retired \/ rebuild)

\* Mutant: an offer that is still open does not defer the next one.
ReserveOverOpenOffer(rebuild) == ~answering /\ ~planning

MayReserve(rebuild) ==
    /\ ~answering /\ ~planning
    /\ Unresolved => retired \/ rebuild

Coalesce(rebuild) == queued' = queued \cup {"offer"} \cup (IF rebuild THEN {"rebuild"} ELSE {})

\* The part of the reservation that invalidates the callbacks of the retiring
\* transport and rotates the wire session; its pending candidates are erased.
RotateTransport ==
    /\ transportGen' = IF transportGen = 0 THEN 1 ELSE transportGen + 1
    /\ clientGen' = 0
    /\ session' = session + 1
    /\ pendingRemote' = [pendingRemote EXCEPT ![session] = <<>>]

Reserve(t, rebuild) ==
    /\ MayReserve(rebuild)
    /\ offerGen < MaxOffer
    /\ LET replace == rebuild \/ retired \/ "rebuild" \in queued IN
         /\ IF replace
            THEN session < MaxSession /\ RotateTransport /\ Goto(t, "build")
            ELSE /\ transportGen' = IF transportGen = 0 THEN 1 ELSE transportGen
                 /\ Goto(t, "create")
                 /\ UNCHANGED <<clientGen, session, pendingRemote>>
    /\ offerGen' = offerGen + 1
    /\ creating' = TRUE /\ answered' = FALSE /\ dispatched' = FALSE /\ retired' = FALSE
    /\ queued' = {}

SendPeerOffer(t) ==
    /\ pc[t] = "offer" \/ RequestsRebuild(t)
    /\ LeaseFree(t) /\ ClientFree
    /\ LET rebuild == RequestsRebuild(t) IN
         \/ /\ removed \/ initializing
            /\ Goto(t, "idle")
            /\ UNCHANGED <<negVars, pendingRemote>>
         \/ /\ ~removed /\ ~initializing /\ ~MayReserve(rebuild)
            /\ Coalesce(rebuild) /\ Goto(t, "idle")
            /\ UNCHANGED <<removed, initializing, creating, answering, planning, retired,
                           dispatched, answered, offerGen, transportGen, clientGen, session,
                           pendingRemote>>
         \/ /\ ~removed /\ ~initializing /\ Reserve(t, rebuild)
            /\ UNCHANGED <<removed, initializing, answering, planning>>
    /\ UNCHANGED <<fellBack, pendingLocal, mapped, clientVars, outcome, mail, ice,
                   wireVars>>

\* resetPeerConnection waits for the callback the old transport is in.  The new
\* client generation is published unless the reset failed or the peer was removed
\* meanwhile; the tracks of the new transport may still not be restored.
BuildTransport(t) ==
    /\ pc[t] = "build"
    /\ \/ /\ removed
          /\ Goto(t, "failed")
          /\ UNCHANGED <<clientGen, clientVars>>
       \/ /\ ~removed /\ ice.cand = NoCandidate
          /\ transport' = transport + 1
          /\ created' = FALSE /\ described' = FALSE /\ closed' = FALSE
          /\ applied' = {} /\ answers' = {} /\ verdicts' = {}
          /\ \/ clientGen' = transport + 1 /\ (Goto(t, "create") \/ Goto(t, "failed"))
             \/ UNCHANGED clientGen /\ Goto(t, "failed")
    /\ UNCHANGED <<removed, initializing, creating, answering, planning, retired, queued,
                   dispatched, answered, offerGen, transportGen, session, fellBack, candVars,
                   outcome, mail, ice, wireVars>>

CreateOffer(t) ==
    /\ pc[t] = "create"
    /\ \/ created' = TRUE /\ Goto(t, "dispatch")
       \/ UNCHANGED created /\ Goto(t, "failed")
    /\ UNCHANGED <<negVars, fellBack, candVars, transport, described, closed, givenVars, outcome,
                   mail, ice, wireVars>>

OfferFailed(t) ==
    /\ pc[t] = "failed"
    /\ creating' = FALSE /\ dispatched' = FALSE /\ retired' = TRUE
    /\ Goto(t, "idle")
    /\ UNCHANGED <<removed, initializing, answering, planning, queued, answered, offerGen,
                   transportGen, clientGen, session, fellBack, candVars, clientVars, outcome, mail, ice, wireVars>>

\* dispatchPeerOfferToSignaling: the client takes the offer.
SendOffer ==
    offers' = offers \cup {[offer |-> offerGen, session |-> session, transport |-> transport]}

\* Under signalingOpsMutex_: still current, marked dispatched, and sent or not.
DispatchOffer(t) ==
    /\ pc[t] = "dispatch"
    /\ IF removed
       THEN Goto(t, "idle") /\ UNCHANGED <<creating, dispatched, offers>>
       ELSE /\ creating' = FALSE /\ dispatched' = TRUE
            /\ \/ SendOffer /\ Goto(t, "flush")
               \/ UNCHANGED offers /\ Goto(t, "unsend")
    /\ UNCHANGED <<removed, initializing, answering, planning, retired, queued, answered,
                   offerGen, transportGen, clientGen, session, fellBack, candVars, clientVars,
                   outcome, mail, ice, sent, gathered, heard>>

\* The offer never reached the wire.
RevertDispatch(t) ==
    /\ pc[t] = "unsend"
    /\ dispatched' = FALSE
    /\ Goto(t, "idle")
    /\ UNCHANGED <<removed, initializing, creating, answering, planning, retired, queued,
                   answered, offerGen, transportGen, clientGen, session, fellBack, candVars,
                   clientVars, outcome, mail, ice, wireVars>>

\* Mutant: candidates gathered before the rebuild are sent with the new offer.
FlushAnyTransport(c) == TRUE

FlushesCandidate(c) == gathered[c] = clientGen

\* Buffered candidates of this transport follow the offer; the others are dropped.
FlushCandidates(t) ==
    /\ pc[t] = "flush"
    /\ IF removed
       THEN UNCHANGED <<pendingLocal, sent>>
       ELSE /\ sent' = sent \cup [cand : {c \in pendingLocal : FlushesCandidate(c)},
                                 session : {session}]
            /\ pendingLocal' = {}
    /\ Goto(t, "idle")
    /\ UNCHANGED <<negVars, fellBack, mapped, pendingRemote, clientVars, outcome, mail,
                   ice, offers, gathered, heard>>

SendOfferStep(t) ==
    \/ SendPeerOffer(t) \/ BuildTransport(t) \/ CreateOffer(t) \/ OfferFailed(t)
    \/ DispatchOffer(t) \/ RevertDispatch(t) \/ FlushCandidates(t)

-----------------------------------------------------------------------------
(***************************************************************************)
(* applyPeerAnswer() and runQueuedPeerTransition().                        *)
(***************************************************************************)
\* Mutant: the answer's wire session is not compared.
AnyAnswer(m) == dispatched /\ ~creating /\ ~answered /\ ~answering

\* onAnswer, onCandidate and the data channel find the peer by the session that
\* the message names; one that names another session is refused.
Routed(m) == m.session = session

Acceptable(m) ==
    /\ Routed(m)
    /\ dispatched /\ ~creating /\ ~answered /\ ~answering

\* An answer to an offer on the wire arrives: at any time, and any number of
\* times.  One that is not acceptable is ignored.
AcceptAnswer(t) ==
    /\ Event(t)
    /\ \E m \in offers : Acceptable(m) /\ ctx' = [ctx EXCEPT ![t] = Here(m.session)]
    /\ answering' = TRUE
    /\ \E label \in {"answer"} \cup (IF FallsBack THEN {"fallback"} ELSE {}) :
          pc' = [pc EXCEPT ![t] = label]
    /\ UNCHANGED <<removed, initializing, creating, planning, retired, queued, dispatched,
                   answered, offerGen, transportGen, clientGen, session, fellBack, candVars,
                   clientVars, outcome, mail, ice, wireVars>>

\* fallbackToH264AfterRejectedVideoAnswer: the rebuild it asks for is coalesced
\* behind the answer being applied.  It fails when the encoder does.
FallBack(t) ==
    /\ pc[t] = "fallback"
    /\ fellBack' = TRUE
    /\ \/ /\ ~fellBack /\ LeaseFree(t) /\ ClientFree /\ ~removed
          /\ Coalesce(TRUE)
          /\ outcome' = [outcome EXCEPT ![t] = "fallback"]
          /\ Goto(t, "commit")
       \/ Goto(t, "answer") /\ UNCHANGED <<queued, outcome>>
    /\ UNCHANGED <<removed, initializing, creating, answering, planning, retired, dispatched,
                   answered, offerGen, transportGen, clientGen, session, candVars, clientVars,
                   mail, ice, wireVars>>

\* setRemoteDescription succeeds.
Describe(t) ==
    /\ described' = TRUE
    /\ answers' = answers \cup {ctx[t].wire}

\* It is called under clientOperationMutex, if the offer is still current.
ApplyAnswer(t) ==
    /\ pc[t] = "answer" /\ ClientFree
    /\ \/ /\ ~removed /\ answering /\ StillHere(t)
          /\ Describe(t)
          /\ outcome' = [outcome EXCEPT ![t] = "ok"]
       \/ /\ outcome' = [outcome EXCEPT ![t] = "failed"]
          /\ UNCHANGED <<described, answers>>
    /\ Goto(t, "commit")
    /\ UNCHANGED <<negVars, fellBack, candVars, transport, created, closed, applied, verdicts,
                   mail, ice, wireVars>>

AfterAnswer(t) ==
    IF outcome[t] = "ok" THEN "drain" ELSE IF queued # {} THEN "queue" ELSE "idle"

CommitAnswer(t) ==
    /\ pc[t] = "commit"
    /\ answering' = FALSE
    /\ IF removed \/ ~StillHere(t)
       THEN /\ Goto(t, "idle")
            /\ outcome' = [outcome EXCEPT ![t] = "none"]
            /\ UNCHANGED <<answered, retired, verdicts>>
       ELSE /\ IF outcome[t] = "failed"
               THEN retired' = TRUE /\ UNCHANGED answered
               ELSE answered' = TRUE /\ UNCHANGED retired
            /\ verdicts' = verdicts \cup {[offer |-> offerGen, verdict |-> outcome[t]]}
            /\ Goto(t, AfterAnswer(t))
            /\ outcome' = [outcome EXCEPT ![t] =
                              IF outcome[t] = "ok" /\ queued # {} THEN "ok" ELSE "none"]
    /\ UNCHANGED <<removed, initializing, creating, planning, queued, dispatched, offerGen,
                   transportGen, clientGen, session, fellBack, candVars, transport, created,
                   described, closed, applied, answers, mail, ice, wireVars>>

\* drainPendingRemoteCandidates: this session's queue and the queue of the
\* candidates that came before the peer; the expired and the stale are lost.
Drains(p) == p.transport = transportGen \/ (p.transport = 0 /\ transportGen = 1)

Drained == {p \in ToSet(pendingRemote[0]) \cup ToSet(pendingRemote[session]) : Drains(p)}

\* Mutant: what was queued behind the answer waits for the next event.
NeverRunsQueued(t) == "idle"

AfterDrain(t) == IF outcome[t] = "ok" THEN "queue" ELSE "idle"

DrainRemote(t) ==
    /\ pc[t] = "drain"
    /\ IF mapped /\ ~removed /\ offerGen = ctx[t].offer /\ transportGen = ctx[t].transport
       THEN /\ \E expired \in SUBSET Remote :
                  mail' = [mail EXCEPT ![t] = {p.cand : p \in Drained} \ expired]
            /\ pendingRemote' = [pendingRemote EXCEPT ![0] = <<>>, ![session] = <<>>]
            /\ ctx' = [ctx EXCEPT ![t] = Here(0)]
            /\ pc' = [pc EXCEPT ![t] = "drained"]
            /\ UNCHANGED outcome
       ELSE /\ Goto(t, AfterDrain(t))
            /\ outcome' = [outcome EXCEPT ![t] = "none"]
            /\ UNCHANGED <<mail, pendingRemote>>
    /\ UNCHANGED <<negVars, fellBack, pendingLocal, mapped, clientVars, ice, wireVars>>

\* Mutant: the generations are not looked at again under the client lock.
RoutesBlindly(t) == ~removed

\* A remote candidate is given to the transport only while it is the one the
\* candidate was routed for.
Routes(t) ==
    /\ ~removed /\ transportGen = ctx[t].transport /\ session = ctx[t].session /\ ~retired

\* The transport adds a candidate at once, or from its own queue as soon as it has
\* a remote description; the queue goes with the transport.
Given(t) == applied \cup mail[t]

AddMail(t) ==
    /\ ClientFree
    /\ applied' = IF Routes(t) THEN Given(t) ELSE applied
    /\ mail' = [mail EXCEPT ![t] = {}]
    /\ outcome' = [outcome EXCEPT ![t] = "none"]
    /\ UNCHANGED <<negVars, fellBack, candVars, transport, created, described, closed,
                   answers, verdicts, ice, wireVars>>

ApplyDrained(t) == pc[t] = "drained" /\ AddMail(t) /\ Goto(t, AfterDrain(t))

RunQueued(t) ==
    /\ pc[t] = "queue"
    /\ IF \/ removed \/ queued = {} \/ answering \/ planning
          \/ Unresolved /\ ~retired /\ "rebuild" \notin queued
       THEN Goto(t, "idle") /\ UNCHANGED queued
       ELSE /\ Goto(t, IF retired \/ "rebuild" \in queued THEN "rebuild"
                       ELSE IF "plan" \in queued THEN "plan" ELSE "offer")
            /\ queued' = {}
    /\ UNCHANGED <<removed, initializing, creating, answering, planning, retired, dispatched,
                   answered, offerGen, transportGen, clientGen, session, fellBack, candVars,
                   clientVars, outcome, mail, ice, wireVars>>

AnswerStep(t) ==
    \/ FallBack(t) \/ ApplyAnswer(t) \/ CommitAnswer(t) \/ DrainRemote(t) \/ ApplyDrained(t)
    \/ RunQueued(t)

-----------------------------------------------------------------------------
(***************************************************************************)
(* applyPeerMediaPlan().                                                   *)
(***************************************************************************)

MustQueuePlan == answering \/ planning \/ Unresolved \/ retired

BeginMediaPlan(t) ==
    /\ Event(t) \/ pc[t] = "plan"
    /\ IF removed
       THEN Goto(t, "idle") /\ UNCHANGED <<queued, planning>>
       ELSE IF MustQueuePlan
       THEN /\ queued' = queued \cup {"offer", "plan"} \cup (IF retired THEN {"rebuild"} ELSE {})
            /\ Goto(t, "idle")
            /\ UNCHANGED planning
       ELSE planning' = TRUE /\ Goto(t, "tracks") /\ UNCHANGED queued
    /\ UNCHANGED <<removed, initializing, creating, answering, retired, dispatched, answered,
                   offerGen, transportGen, clientGen, session, fellBack, candVars, clientVars,
                   outcome, mail, ice, wireVars>>

\* ensureMediaTracks, when the data channel is open.
EnsureTracks(t) ==
    /\ pc[t] = "tracks" /\ ClientFree
    /\ \E change \in {"none"} \cup (IF described THEN {"tracks", "alpha"} ELSE {}) :
          outcome' = [outcome EXCEPT ![t] = change]
    /\ Goto(t, "planned")
    /\ UNCHANGED <<negVars, fellBack, candVars, clientVars, mail, ice, wireVars>>

EndMediaPlan(t) ==
    /\ pc[t] = "planned"
    /\ planning' = FALSE
    /\ IF queued # {}
       THEN /\ queued' = queued \cup (IF outcome[t] = "alpha" THEN {"rebuild"} ELSE {})
            /\ Goto(t, "queue")
       ELSE /\ Goto(t, CASE outcome[t] = "tracks" -> "offer"
                         [] outcome[t] = "alpha"  -> "rebuild"
                         [] OTHER                 -> "idle")
            /\ UNCHANGED queued
    /\ outcome' = [outcome EXCEPT ![t] = "none"]
    /\ UNCHANGED <<removed, initializing, creating, answering, retired, dispatched, answered,
                   offerGen, transportGen, clientGen, session, fellBack, candVars, clientVars,
                   mail, ice, wireVars>>

PlanStep(t) == BeginMediaPlan(t) \/ EnsureTracks(t) \/ EndMediaPlan(t)

-----------------------------------------------------------------------------
(***************************************************************************)
(* ICE candidates.  handlePeerRemoteCandidate() and the client's callback. *)
(***************************************************************************)
QueuesRemote == initializing \/ creating \/ answering \/ ~dispatched \/ ~answered

\* Mutant: the decision to queue is not made again under the map lock.
AlwaysQueues == TRUE

StillQueuesRemote == QueuesRemote

\* The viewer sends a candidate for the session of an offer it has seen; a
\* candidate of another session than the active one is refused.
HearCandidate(t) ==
    /\ Event(t)
    /\ \E c \in Remote, m \in offers :
         /\ \A h \in heard : h.cand # c
         /\ heard' = heard \cup {[cand |-> c, session |-> m.session]}
         /\ IF ~Routed(m)
            THEN UNCHANGED <<pc, ctx, mail>>
            ELSE /\ mail' = [mail EXCEPT ![t] = {c}]
                 /\ ctx' = [ctx EXCEPT ![t] = Here(m.session)]
                 /\ pc' = [pc EXCEPT ![t] = IF QueuesRemote THEN "store" ELSE "add"]
    /\ UNCHANGED <<negVars, fellBack, candVars, clientVars, outcome, ice, offers, sent,
                   gathered>>

Entry(t) == [cand |-> CHOOSE c \in mail[t] : TRUE, transport |-> transportGen]

\* queuePendingRemoteCandidateLocked: the oldest of a full queue is dropped.
Queued(queue, p) == Append(IF Len(queue) < MaxPending THEN queue ELSE Tail(queue), p)

StoreRemote(t) ==
    /\ pc[t] = "store"
    /\ IF ~mapped \/ removed \/ session # ctx[t].session
       THEN Goto(t, "idle") /\ mail' = [mail EXCEPT ![t] = {}] /\ UNCHANGED pendingRemote
       ELSE IF StillQueuesRemote
       THEN /\ pendingRemote' = [pendingRemote EXCEPT ![session] = Queued(@, Entry(t))]
            /\ Goto(t, "idle") /\ mail' = [mail EXCEPT ![t] = {}]
       ELSE /\ ctx' = [ctx EXCEPT ![t] = Here(ctx[t].wire)]
            /\ pc' = [pc EXCEPT ![t] = "add"]
            /\ UNCHANGED <<mail, pendingRemote>>
    /\ UNCHANGED <<negVars, fellBack, pendingLocal, mapped, clientVars, outcome, ice, wireVars>>

AddRemote(t) == pc[t] = "add" /\ AddMail(t) /\ Goto(t, "idle")

\* The transport gathers a candidate once it has a local description, and calls
\* back; callbackDispatchMutex keeps one candidate in flight.  The candidate is
\* dropped, buffered until the offer is on the wire, or sent for this session.
Gather(c) ==
    /\ ice.cand = NoCandidate /\ created /\ gathered[c] = 0
    /\ gathered' = [gathered EXCEPT ![c] = transport]
    /\ IF removed \/ clientGen # transport
       THEN UNCHANGED <<pendingLocal, ice>>
       ELSE IF dispatched
       THEN ice' = [cand |-> c, session |-> session] /\ UNCHANGED pendingLocal
       ELSE pendingLocal' = pendingLocal \cup {c} /\ UNCHANGED ice
    /\ UNCHANGED <<negVars, fellBack, mapped, pendingRemote, clientVars, threadVars, offers,
                   sent, heard>>

SendsCandidate ==
    /\ ~removed /\ dispatched
    /\ clientGen = gathered[ice.cand] /\ session = ice.session

\* Mutant: the callback takes the lease before it sends.
IceTakesLease == \A t \in Threads : pc[t] \notin Offering

\* ICE is excluded from callbackOperationMutex.
IceMaySend == TRUE

\* dispatchPeerCandidateToSignaling hands it to the signaling client, which only
\* counts one that it cannot send.
CandidateSent == sent' = sent \cup {[cand |-> ice.cand, session |-> ice.session]}

SendCandidate ==
    /\ ice.cand # NoCandidate /\ IceMaySend
    /\ IF SendsCandidate THEN CandidateSent ELSE UNCHANGED sent
    /\ ice' = [cand |-> NoCandidate, session |-> 1]
    /\ UNCHANGED <<negVars, fellBack, candVars, clientVars, threadVars, offers, gathered,
                   heard>>

CandidateStep(t) == StoreRemote(t) \/ AddRemote(t)

-----------------------------------------------------------------------------
(***************************************************************************)
(* Events of the transport, dispatched by the worker, and the removal.     *)
(***************************************************************************)
\* handlePeerConnectionState: connected, failed or closed.
Connected ==
    /\ Event(Worker) /\ clientGen = transport /\ described /\ ~closed
    /\ retired' = FALSE
    /\ UNCHANGED <<removed, initializing, creating, answering, planning, queued, dispatched,
                   answered, offerGen, transportGen, clientGen, session, fellBack, candVars,
                   clientVars, threadVars, ice, wireVars>>

TransportFailed ==
    /\ Event(Worker) /\ clientGen = transport /\ created
    /\ retired' = TRUE /\ closed' = TRUE
    /\ Goto(Worker, "queue")
    /\ UNCHANGED <<removed, initializing, creating, answering, planning, queued, dispatched,
                   answered, offerGen, transportGen, clientGen, session, fellBack, candVars,
                   transport, created, described, givenVars, outcome, mail, ice, wireVars>>

RemovePeer(t) ==
    /\ Event(t)
    /\ removed' = TRUE /\ queued' = {}
    /\ Goto(t, "erase")
    /\ UNCHANGED <<initializing, creating, answering, planning, retired, dispatched, answered,
                   offerGen, transportGen, clientGen, session, fellBack, candVars, clientVars,
                   outcome, mail, ice, wireVars>>

ErasePeer(t) ==
    /\ pc[t] = "erase"
    /\ mapped' = FALSE /\ pendingRemote' = NothingPending
    /\ Goto(t, "idle")
    /\ UNCHANGED <<negVars, fellBack, pendingLocal, clientVars, outcome, mail, ice, wireVars>>

Next ==
    \/ \E t \in Threads :
          \/ Initialize(t) \/ AcceptAnswer(t)
          \/ HearCandidate(t) \/ RemovePeer(t) \/ ErasePeer(t)
          \/ SendOfferStep(t) \/ AnswerStep(t) \/ PlanStep(t) \/ CandidateStep(t)
    \/ Connected \/ TransportFailed
    \/ SendCandidate \/ \E c \in Local : Gather(c)

Spec == Init /\ [][Next]_vars

\* A thread inside sendPeerOffer and a callback inside the client keep running.
FairSpec ==
    /\ Spec
    /\ \A t \in Threads : WF_vars(SendOfferStep(t) /\ pc[t] \in Offering)
    /\ WF_vars(SendCandidate)

-----------------------------------------------------------------------------
(***************************************************************************)
(* Properties.                                                             *)
(***************************************************************************)
\* While a thread applies an answer the offer it answers stays the current one:
\* nobody reserves, rebuilds or accepts another answer in between.
AnswerBindsItsOffer ==
    \A t \in Threads : pc[t] \in Answering /\ ~removed => StillHere(t) /\ answering

\* An answer reaches the transport its wire session's offer was made by, however
\* late it arrives.
AnswersMatch ==
    \A s \in answers : \E o \in offers : o.session = s /\ o.transport = transport

\* A late answer finds its offer, and nothing else, at every step of the way.
AnswersKeepToTheirOffer == AnswerBindsItsOffer /\ AnswersMatch

\* A candidate is sent under the wire session of the transport that gathered it.
LocalCandidatesMatch ==
    \A s \in sent, o \in offers : o.session = s.session => o.transport = gathered[s.cand]

\* A remote candidate is added only to the transport whose offer the viewer was
\* answering, and, unless the codec fallback consumed the answer, after it.
RemoteCandidatesMatch ==
    /\ \A h \in heard, o \in offers :
          h.cand \in applied /\ h.session = o.session => o.transport = transport
    /\ applied # {} => fellBack \/ answers # {}

\* No candidate crosses from one transport to another, in either direction.
CandidatesMatch == LocalCandidatesMatch /\ RemoteCandidatesMatch

\* A candidate buffered for the current transport waits for a drain or a rebuild
\* that will come: the answer is outstanding, or a thread is on its way.
NoStrandedCandidate ==
    \A p \in ToSet(pendingRemote[session]) :
        p.transport = transportGen /\ mapped /\ ~removed =>
            \/ QueuesRemote \/ "rebuild" \in queued
            \/ \E t \in Threads : pc[t] \in {"drain", "rebuild"}

\* A coalesced offer or media plan is never forgotten: what it waits for is still
\* under way, or a thread is about to run it.  An offer that could not be sent and a
\* retired transport wait for the viewer's watchdog instead; so does, until the
\* next rebuild, a transport that refused an answer and then reconnected.
NoStrandedTransition ==
    queued # {} =>
        \/ creating \/ ~answered \/ answering \/ planning
        \/ retired \/ \E v \in verdicts : v.verdict = "failed"
        \/ \E t \in Threads : pc[t] \in {"drain", "drained", "queue"}

\* A new offer in a wire session follows the answer to every earlier one: one that
\* was applied, or that the codec fallback consumed.
OneOpenOffer ==
    [][\A o \in offers' \ offers, p \in offers :
          p.session = o.session =>
              \E v \in verdicts : v.offer = p.offer /\ v.verdict # "failed"]_vars

\* sendPeerOffer holds the lease and the client lock and waits, in the reset, for
\* the callback that is in flight: it always returns.
OffersComplete == \A t \in Threads : pc[t] \in Offering ~> pc[t] = "idle"

=============================================================================
