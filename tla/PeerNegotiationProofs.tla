------------------------ MODULE PeerNegotiationProofs ------------------------
(***************************************************************************)
(* Proofs about PeerNegotiation, for any number of threads, offers, wire   *)
(* sessions and candidates.  The inductive invariant is built in layers,   *)
(* each proved with the help of the ones before it:                        *)
(*   - MakingInv: the locks, and what the flags say of a thread that makes *)
(*     an offer or applies an answer;                                      *)
(*   - OfferInv: how the offers and candidates on the wire are numbered,   *)
(*     and which transport they belong to;                                 *)
(*   - AnswerInv: an answer under way finds its offer where it left it;    *)
(*   - VerdictInv: no offer is made over an unanswered one;                *)
(*   - QueuedInv: what a coalesced transition waits for;                   *)
(*   - RemoteInv: where a remote candidate may be, and what comes for it.  *)
(***************************************************************************)
EXTENDS PeerNegotiation, TLAPS

Labels ==
    {"idle", "init", "erase", "offer", "rebuild", "answer", "fallback", "commit", "drain",
     "drained", "queue", "plan", "tracks", "planned", "store", "add"} \cup Offering

Outcomes == {"none", "ok", "failed", "fallback", "tracks", "alpha"}

Contexts == [offer : Nat, transport : Nat, session : Sessions, wire : 0 .. MaxSession]
Pending  == [cand : Remote, transport : Nat]

FlagsTyped ==
    /\ removed \in BOOLEAN /\ initializing \in BOOLEAN /\ creating \in BOOLEAN
    /\ answering \in BOOLEAN /\ planning \in BOOLEAN /\ retired \in BOOLEAN
    /\ dispatched \in BOOLEAN /\ answered \in BOOLEAN /\ fellBack \in BOOLEAN
    /\ mapped \in BOOLEAN /\ created \in BOOLEAN /\ described \in BOOLEAN
    /\ closed \in BOOLEAN

StateTyped ==
    /\ offerGen \in Nat /\ transportGen \in Nat /\ clientGen \in Nat /\ transport \in Nat
    /\ session \in Sessions /\ queued \subseteq {"offer", "rebuild", "plan"}

ThreadsTyped ==
    /\ pc \in [Threads -> Labels]
    /\ ctx \in [Threads -> Contexts]
    /\ outcome \in [Threads -> Outcomes]
    /\ mail \in [Threads -> SUBSET Remote]

WireTyped ==
    /\ offers \subseteq [offer : Nat, session : Sessions, transport : Nat]
    /\ sent \subseteq [cand : Local, session : Sessions]
    /\ heard \subseteq [cand : Remote, session : 0 .. MaxSession]
    /\ verdicts \subseteq [offer : Nat, verdict : Outcomes]
    /\ answers \subseteq 0 .. MaxSession /\ applied \subseteq Remote

CandidatesTyped ==
    /\ pendingLocal \subseteq Local
    /\ gathered \in [Local -> Nat]
    /\ ice \in [cand : Local \cup {NoCandidate}, session : Sessions]

QueuesTyped ==
    /\ pendingRemote \in [0 .. MaxSession -> Seq(Pending)]
    /\ \A t \in Threads : pc[t] = "store" => mail[t] # {}

TypeOK ==
    FlagsTyped /\ StateTyped /\ ThreadsTyped /\ WireTyped /\ CandidatesTyped /\ QueuesTyped

-----------------------------------------------------------------------------
\* Between the reservation of an offer and the moment it is marked dispatched.
Making == {"build", "create", "failed", "dispatch"}

OneClient ==
    \A t, u \in Threads :
        pc[t] \in Offering \cup {"init"} /\ pc[u] \in Offering \cup {"init"} => t = u

OneAnswer ==
    \A t, u \in Threads : pc[t] \in Answering /\ pc[u] \in Answering => t = u

MakingInv ==
    /\ OneClient /\ OneAnswer
    /\ \A t \in Threads : pc[t] \in Answering => answering
    /\ \A t \in Threads : pc[t] \in Making => creating /\ ~retired
    /\ \A t \in Threads : pc[t] \in Offering => ~initializing
    /\ \A t \in Threads : pc[t] = "init" => initializing
    /\ creating => ~answering /\ ~answered /\ ~dispatched
    /\ answering => ~answered
    /\ initializing => offers = {} /\ sent = {} /\ ~dispatched /\ ~created
    /\ ~initializing => transport # 0
    /\ created => transport # 0
    /\ removed => queued = {}

\* What is on the wire in the active session comes from the transport there is.
OfferInv ==
    /\ \A o \in offers :
          /\ o.offer <= offerGen /\ o.session <= session
          /\ o.session = session => o.transport = transport
    /\ \A s \in sent :
          /\ s.session <= session /\ gathered[s.cand] # 0
          /\ s.session = session => gathered[s.cand] = transport
    /\ \A t \in Threads :
          /\ pc[t] = "build" =>
                /\ clientGen = 0
                /\ \A o \in offers : o.session < session
                /\ \A s \in sent : s.session < session
          /\ pc[t] \in Making \cup {"unsend"} => \A o \in offers : o.offer < offerGen
          /\ ctx[t].session <= session /\ ctx[t].offer <= offerGen
    /\ clientGen \in {0, transport}
    /\ \A c \in pendingLocal : gathered[c] # 0
    /\ ice.cand # NoCandidate => gathered[ice.cand] # 0
    /\ LocalCandidatesMatch

AnswerInv ==
    /\ \A t \in Threads : pc[t] \in Answering =>
          /\ StillHere(t) /\ ctx[t].wire = session
          /\ \E o \in offers : o.session = session
    /\ \A t \in Threads : pc[t] = "commit" =>
          /\ outcome[t] \in {"ok", "failed", "fallback"}
          /\ outcome[t] = "ok" => session \in answers
          /\ outcome[t] = "fallback" => fellBack /\ (removed \/ "rebuild" \in queued)
    /\ AnswersMatch
    /\ answered => fellBack \/ answers # {}

\* Every offer of the session has been answered, but perhaps the last one.
VerdictInv ==
    \A o \in offers : o.session = session =>
        \/ \E v \in verdicts : v.offer = o.offer /\ v.verdict # "failed"
        \/ (o.offer = offerGen /\ dispatched /\ ~answered)

Refused == \E v \in verdicts : v.verdict = "failed"

QueuedInv ==
    /\ retired => closed \/ Refused \/ (~answered /\ ~dispatched /\ ~answering)
    /\ queued # {} =>
          \/ creating \/ ~answered \/ answering \/ planning \/ retired \/ Refused
          \/ \E t \in Threads :
                pc[t] = "queue" \/ (pc[t] \in {"drain", "drained"} /\ outcome[t] = "ok")

\* The viewer named this candidate for session s, or for none.
HeardFor(c, s) == \E h \in heard : h.cand = c /\ h.session \in {0, s}

AfterItsAnswer == fellBack \/ answers # {}

\* The viewer sends a candidate once, and what was added to the transport was sent.
HeardInv ==
    /\ \A h, k \in heard : h.cand = k.cand => h = k
    /\ \A c \in applied : \E h \in heard : h.cand = c

\* The candidates a thread carries are of the session it looked at.
CarriedInv ==
    \A t \in Threads :
        /\ pc[t] \in {"store", "add", "drained"} =>
              \A c \in mail[t] : HeardFor(c, ctx[t].session)
        /\ pc[t] \in {"add", "drained"} /\ ctx[t].session = session => AfterItsAnswer
        /\ pc[t] = "drain" /\ ctx[t].offer = offerGen => AfterItsAnswer

\* A thread that carries candidates while the transport is rebuilt comes too late.
LateInv ==
    \A t, u \in Threads : pc[u] = "build" =>
        /\ pc[t] \in {"add", "drained"} => ctx[t].session # session
        /\ pc[t] = "drain" => ctx[t].offer # offerGen

WaitingInv ==
    \A s \in 0 .. MaxSession : \A p \in ToSet(pendingRemote[s]) : HeardFor(p.cand, s)

RemoteInv == HeardInv /\ CarriedInv /\ LateInv /\ WaitingInv /\ RemoteCandidatesMatch

\* NoStrandedCandidate, with the drain that will find the candidate.
ComesForIt(t) ==
    \/ pc[t] = "rebuild"
    \/ (pc[t] = "drain" /\ ctx[t].offer = offerGen /\ ctx[t].transport = transportGen)

WaitsForSomeone ==
    (\E p \in ToSet(pendingRemote[session]) : p.transport = transportGen)
        /\ mapped /\ ~removed =>
            QueuesRemote \/ "rebuild" \in queued \/ \E t \in Threads : ComesForIt(t)

IInv == TypeOK /\ MakingInv /\ OfferInv /\ AnswerInv /\ VerdictInv /\ QueuedInv /\ RemoteInv
        /\ WaitsForSomeone

-----------------------------------------------------------------------------
USE NegotiationAssumption

LEMMA ContextsTyped ==
    StateTyped => Nowhere \in Contexts /\ \A w \in 0 .. MaxSession : Here(w) \in Contexts
BY DEF StateTyped, Nowhere, Here, Contexts, Sessions

LEMMA GotoTyped ==
    ASSUME StateTyped, ThreadsTyped, NEW t \in Threads, \E label \in Labels : Goto(t, label)
    PROVE  pc' \in [Threads -> Labels] /\ ctx' \in [Threads -> Contexts]
BY ContextsTyped DEF ThreadsTyped, Goto

\* queuePendingRemoteCandidateLocked adds its candidate and may drop another one.
LEMMA QueuedAdds ==
    ASSUME NEW S, NEW queue \in Seq(S), NEW p \in S
    PROVE  Queued(queue, p) \in Seq(S) /\ ToSet(Queued(queue, p)) \subseteq ToSet(queue) \cup {p}
<1>. DEFINE q == IF Len(queue) < MaxPending THEN queue ELSE Tail(queue)
<1>1. q \in Seq(S) /\ ToSet(q) \subseteq ToSet(queue)
  <2>1. CASE Len(queue) < MaxPending
    BY <2>1
  <2>2. CASE ~(Len(queue) < MaxPending)
    <3>1. Len(queue) # 0
      BY <2>2
    <3>. QED BY <2>2, <3>1 DEF ToSet
  <2>. QED BY <2>1, <2>2
<1>. HIDE DEF q
<1>2. Append(q, p) \in Seq(S) /\ ToSet(Append(q, p)) \subseteq ToSet(q) \cup {p}
  BY <1>1 DEF ToSet
<1>. QED BY <1>1, <1>2 DEF q, Queued

LEMMA ElementsTyped ==
    ASSUME NEW S, NEW queue \in Seq(S), NEW p \in ToSet(queue)
    PROVE  p \in S
BY DEF ToSet

LEMMA WaitingTyped ==
    ASSUME QueuesTyped, NEW s \in 0 .. MaxSession, NEW p \in ToSet(pendingRemote[s])
    PROVE  p.cand \in Remote /\ p.transport \in Nat
<1>1. pendingRemote[s] \in Seq(Pending)
  BY DEF QueuesTyped
<1>2. p \in Pending
  BY <1>1, ElementsTyped
<1>. QED BY <1>2 DEF Pending

LEMMA TypeInit == Init => TypeOK
<1>. SUFFICES ASSUME Init PROVE TypeOK OBVIOUS
<1>1. FlagsTyped /\ StateTyped
  <2>1. FlagsTyped
    BY DEF Init, FlagsTyped
  <2>2. 1 \in Sessions
    BY DEF Sessions
  <2>3. StateTyped
    BY <2>2 DEF Init, StateTyped
  <2>. QED BY <2>1, <2>3
<1>2. ThreadsTyped
  <2>1. pc \in [Threads -> Labels]
    BY DEF Init, Labels
  <2>. QED BY <1>1, <2>1, ContextsTyped DEF Init, ThreadsTyped, Outcomes
<1>3. QueuesTyped
  <2>1. NothingPending \in [0 .. MaxSession -> Seq(Pending)]
    BY DEF NothingPending
  <2>2. ASSUME NEW c \in Remote
        PROVE  <<[cand |-> c, transport |-> 0]>> \in Seq(Pending)
    BY DEF Pending
  <2>3. pendingRemote \in [0 .. MaxSession -> Seq(Pending)]
    BY <2>1, <2>2 DEF Init
  <2>. QED BY <2>3 DEF Init, QueuesTyped
<1>4. WireTyped /\ CandidatesTyped
  <2>1. 0 \in 0 .. MaxSession
    OBVIOUS
  <2>2. \A p \in ToSet(pendingRemote[0]) : p.cand \in Remote
    BY <1>3, <2>1, WaitingTyped
  <2>. QED BY <2>2 DEF Init, WireTyped, CandidatesTyped, Sessions
<1>. QED BY <1>1, <1>2, <1>3, <1>4 DEF TypeOK

LEMMA TypeStep == TypeOK /\ [Next]_vars => TypeOK'
<1>. SUFFICES ASSUME TypeOK, [Next]_vars PROVE TypeOK' OBVIOUS
<1>0. FlagsTyped /\ StateTyped /\ ThreadsTyped /\ WireTyped /\ CandidatesTyped /\ QueuesTyped
  BY DEF TypeOK
<1>. USE <1>0 DEF negVars, candVars, givenVars, clientVars, threadVars, wireVars
<1>1. ASSUME NEW t \in Threads, Initialize(t) PROVE TypeOK'
  <2>1. FlagsTyped'
    <3>1. removed' \in BOOLEAN /\ initializing' \in BOOLEAN BY <1>1 DEF Initialize, FlagsTyped
    <3>. QED BY <1>1, <3>1 DEF Initialize, FlagsTyped
  <2>2. StateTyped'
    <3>1. queued' \subseteq queued /\ transport' \in Nat /\ clientGen' \in Nat
      BY <1>1 DEF Initialize, StateTyped
    <3>. QED BY <1>1, <3>1 DEF Initialize, StateTyped, Sessions
  <2>3. ThreadsTyped'
    BY <1>1, ContextsTyped DEF Initialize, ThreadsTyped, Goto, Labels, Outcomes, Offering
  <2>4. WireTyped'
    BY <1>1 DEF Initialize, WireTyped, StateTyped, ThreadsTyped, Contexts, Sessions,
       Outcomes
  <2>5. CandidatesTyped' BY <1>1 DEF Initialize, CandidatesTyped, StateTyped
  <2>6. QueuesTyped' BY <1>1 DEF Initialize, QueuesTyped, ThreadsTyped, Goto
  <2>. QED BY <2>1, <2>2, <2>3, <2>4, <2>5, <2>6 DEF TypeOK
<1>2. ASSUME NEW t \in Threads, AcceptAnswer(t) PROVE TypeOK'
  <2>1. FlagsTyped' BY <1>2 DEF AcceptAnswer, FlagsTyped
  <2>2. StateTyped' BY <1>2 DEF AcceptAnswer, StateTyped, Here, Sessions
  <2>3. ThreadsTyped'
    <3>1. PICK m \in offers : ctx' \in {ctx, [ctx EXCEPT ![t] = Here(m.session)]}
      BY <1>2 DEF AcceptAnswer
    <3>2. Here(m.session) \in Contexts
      BY ContextsTyped DEF WireTyped, Sessions
    <3>3. ctx' \in [Threads -> Contexts]
      BY <3>1, <3>2 DEF ThreadsTyped
    <3>. QED BY <1>2, <3>3 DEF AcceptAnswer, ThreadsTyped, Labels, threadVars
  <2>4. WireTyped'
    BY <1>2 DEF AcceptAnswer, WireTyped, StateTyped, ThreadsTyped, Contexts, Sessions,
       Outcomes
  <2>5. CandidatesTyped' BY <1>2 DEF AcceptAnswer, CandidatesTyped, StateTyped
  <2>6. QueuesTyped' BY <1>2 DEF AcceptAnswer, QueuesTyped, ThreadsTyped, Goto
  <2>. QED BY <2>1, <2>2, <2>3, <2>4, <2>5, <2>6 DEF TypeOK
<1>3. ASSUME NEW t \in Threads, HearCandidate(t) PROVE TypeOK'
  <2>1. FlagsTyped' BY <1>3 DEF HearCandidate, Routed, FlagsTyped
  <2>2. StateTyped' BY <1>3 DEF HearCandidate, Routed, StateTyped, Here,
                       Sessions
  <2>3. ThreadsTyped'
    <3>1. PICK m \in offers : ctx' \in {ctx, [ctx EXCEPT ![t] = Here(m.session)]}
      BY <1>3 DEF HearCandidate, Routed
    <3>2. Here(m.session) \in Contexts
      BY ContextsTyped DEF WireTyped, Sessions
    <3>3. ctx' \in [Threads -> Contexts]
      BY <3>1, <3>2 DEF ThreadsTyped
    <3>. QED BY <1>3, <3>3 DEF HearCandidate, Routed, ThreadsTyped, Labels,
                threadVars
  <2>4. WireTyped'
    BY <1>3 DEF HearCandidate, Routed, WireTyped, StateTyped, ThreadsTyped,
       Contexts, Sessions, Outcomes
  <2>5. CandidatesTyped' BY <1>3 DEF HearCandidate, Routed, CandidatesTyped,
                            StateTyped
  <2>6. QueuesTyped'
    <3>1. pc'[t] = "store" => mail'[t] # {}
      BY <1>3 DEF HearCandidate, Routed, Event, ThreadsTyped
    <3>2. \A u \in Threads \ {t} : pc'[u] = pc[u] /\ mail'[u] = mail[u]
      BY <1>3 DEF HearCandidate, Routed, ThreadsTyped
    <3>. QED BY <1>3, <3>1, <3>2 DEF HearCandidate, Routed, QueuesTyped,
                candVars
  <2>. QED BY <2>1, <2>2, <2>3, <2>4, <2>5, <2>6 DEF TypeOK
<1>4. ASSUME NEW t \in Threads, RemovePeer(t) PROVE TypeOK'
  <2>1. FlagsTyped' BY <1>4 DEF RemovePeer, FlagsTyped
  <2>2. StateTyped' BY <1>4 DEF RemovePeer, StateTyped, Sessions
  <2>3. ThreadsTyped'
    BY <1>4, ContextsTyped DEF RemovePeer, ThreadsTyped, Goto, Labels, Outcomes, Offering
  <2>4. WireTyped'
    BY <1>4 DEF RemovePeer, WireTyped, StateTyped, ThreadsTyped, Contexts, Sessions,
       Outcomes
  <2>5. CandidatesTyped' BY <1>4 DEF RemovePeer, CandidatesTyped, StateTyped
  <2>6. QueuesTyped' BY <1>4 DEF RemovePeer, QueuesTyped, ThreadsTyped, Goto
  <2>. QED BY <2>1, <2>2, <2>3, <2>4, <2>5, <2>6 DEF TypeOK
<1>5. ASSUME NEW t \in Threads, ErasePeer(t) PROVE TypeOK'
  <2>1. FlagsTyped' BY ZenonT(40), <1>5 DEF ErasePeer, FlagsTyped
  <2>2. StateTyped' BY <1>5 DEF ErasePeer, StateTyped, Sessions
  <2>3. ThreadsTyped'
    BY <1>5, ContextsTyped DEF ErasePeer, ThreadsTyped, Goto, Labels, Outcomes, Offering
  <2>4. WireTyped'
    BY <1>5 DEF ErasePeer, WireTyped, StateTyped, ThreadsTyped, Contexts, Sessions, Outcomes
  <2>5. CandidatesTyped' BY <1>5 DEF ErasePeer, CandidatesTyped, StateTyped
  <2>6. QueuesTyped'
    BY <1>5 DEF ErasePeer, QueuesTyped, NothingPending, ThreadsTyped, Goto, threadVars
  <2>. QED BY <2>1, <2>2, <2>3, <2>4, <2>5, <2>6 DEF TypeOK
<1>6. ASSUME NEW t \in Threads, SendPeerOffer(t) PROVE TypeOK'
  <2>1. FlagsTyped'
    <3>1. creating' \in BOOLEAN /\ answered' \in BOOLEAN /\ dispatched' \in BOOLEAN /\ retired' \in BOOLEAN
      BY <1>6 DEF SendPeerOffer, FlagsTyped, Reserve
    <3>. QED BY <1>6, <3>1 DEF SendPeerOffer, FlagsTyped, Reserve
  <2>2. StateTyped'
    <3>1. queued' \subseteq {"offer", "rebuild", "plan"}
      BY <1>6 DEF SendPeerOffer, Reserve, Coalesce, negVars, StateTyped
    <3>2. offerGen' \in Nat /\ transportGen' \in Nat /\ clientGen' \in Nat
      BY <1>6 DEF SendPeerOffer, Reserve, RotateTransport, negVars, StateTyped
    <3>3. session' \in Sessions
      BY <1>6 DEF SendPeerOffer, Reserve, RotateTransport, negVars, StateTyped, Sessions
    <3>. QED BY <1>6, <3>1, <3>2, <3>3 DEF SendPeerOffer, StateTyped, clientVars
  <2>3. ThreadsTyped'
    <3>1. \E label \in Labels : Goto(t, label)
      BY <1>6 DEF SendPeerOffer, Labels, Offering, Reserve
    <3>2. outcome' \in [Threads -> Outcomes]
      BY <1>6 DEF SendPeerOffer, ThreadsTyped, Outcomes
    <3>. QED BY <1>6, <3>1, <3>2, GotoTyped DEF SendPeerOffer, ThreadsTyped
  <2>4. WireTyped'
    BY <1>6 DEF SendPeerOffer, WireTyped, StateTyped, ThreadsTyped, Contexts, Sessions,
       Outcomes
  <2>5. CandidatesTyped' BY <1>6 DEF SendPeerOffer, CandidatesTyped, StateTyped
  <2>6. QueuesTyped'
    <3>0. <<>> \in Seq(Pending)
      OBVIOUS
    <3>1. pendingRemote' \in [0 .. MaxSession -> Seq(Pending)]
      <4>1. pendingRemote' \in {pendingRemote, [pendingRemote EXCEPT ![session] = <<>>]}
        BY <1>6 DEF SendPeerOffer, Reserve, RotateTransport
      <4>. QED BY <3>0, <4>1 DEF QueuesTyped
    <3>2. pc'[t] # "store" /\ \A u \in Threads \ {t} : pc'[u] = pc[u]
      BY <1>6 DEF SendPeerOffer, Reserve, Goto, ThreadsTyped
    <3>. QED BY <1>6, <3>1, <3>2 DEF SendPeerOffer, QueuesTyped
  <2>. QED BY <2>1, <2>2, <2>3, <2>4, <2>5, <2>6 DEF TypeOK
<1>7. ASSUME NEW t \in Threads, BuildTransport(t) PROVE TypeOK'
  <2>1. FlagsTyped'
    <3>1. created' \in BOOLEAN /\ described' \in BOOLEAN /\ closed' \in BOOLEAN
      BY <1>7 DEF BuildTransport, FlagsTyped
    <3>. QED BY <1>7, <3>1 DEF BuildTransport, FlagsTyped
  <2>2. StateTyped' BY <1>7 DEF BuildTransport, StateTyped, Sessions
  <2>3. ThreadsTyped'
    BY <1>7, ContextsTyped DEF BuildTransport, ThreadsTyped, Goto, Labels, Outcomes,
       Offering
  <2>4. WireTyped'
    BY <1>7 DEF BuildTransport, WireTyped, StateTyped, ThreadsTyped, Contexts, Sessions,
       Outcomes
  <2>5. CandidatesTyped' BY <1>7 DEF BuildTransport, CandidatesTyped, StateTyped
  <2>6. QueuesTyped' BY <1>7 DEF BuildTransport, QueuesTyped, ThreadsTyped, Goto
  <2>. QED BY <2>1, <2>2, <2>3, <2>4, <2>5, <2>6 DEF TypeOK
<1>8. ASSUME NEW t \in Threads, CreateOffer(t) PROVE TypeOK'
  <2>1. FlagsTyped'
    <3>1. created' \in BOOLEAN BY <1>8 DEF CreateOffer, FlagsTyped
    <3>. QED BY <1>8, <3>1 DEF CreateOffer, FlagsTyped
  <2>2. StateTyped' BY <1>8 DEF CreateOffer, StateTyped, Sessions
  <2>3. ThreadsTyped'
    BY <1>8, ContextsTyped DEF CreateOffer, ThreadsTyped, Goto, Labels, Outcomes, Offering
  <2>4. WireTyped'
    BY <1>8 DEF CreateOffer, WireTyped, StateTyped, ThreadsTyped, Contexts, Sessions,
       Outcomes
  <2>5. CandidatesTyped' BY <1>8 DEF CreateOffer, CandidatesTyped, StateTyped
  <2>6. QueuesTyped' BY <1>8 DEF CreateOffer, QueuesTyped, ThreadsTyped, Goto
  <2>. QED BY <2>1, <2>2, <2>3, <2>4, <2>5, <2>6 DEF TypeOK
<1>9. ASSUME NEW t \in Threads, OfferFailed(t) PROVE TypeOK'
  <2>1. FlagsTyped' BY <1>9 DEF OfferFailed, FlagsTyped
  <2>2. StateTyped' BY <1>9 DEF OfferFailed, StateTyped, Sessions
  <2>3. ThreadsTyped'
    BY <1>9, ContextsTyped DEF OfferFailed, ThreadsTyped, Goto, Labels, Outcomes, Offering
  <2>4. WireTyped'
    BY <1>9 DEF OfferFailed, WireTyped, StateTyped, ThreadsTyped, Contexts, Sessions,
       Outcomes
  <2>5. CandidatesTyped' BY <1>9 DEF OfferFailed, CandidatesTyped, StateTyped
  <2>6. QueuesTyped' BY <1>9 DEF OfferFailed, QueuesTyped, ThreadsTyped, Goto
  <2>. QED BY <2>1, <2>2, <2>3, <2>4, <2>5, <2>6 DEF TypeOK
<1>10. ASSUME NEW t \in Threads, DispatchOffer(t) PROVE TypeOK'
  <2>1. FlagsTyped' BY ZenonT(40), <1>10 DEF DispatchOffer, SendOffer,
                       FlagsTyped
  <2>2. StateTyped' BY <1>10 DEF DispatchOffer, SendOffer, StateTyped, Sessions
  <2>3. ThreadsTyped'
    <3>1. \E label \in Labels : Goto(t, label)
      BY <1>10 DEF DispatchOffer, SendOffer, Labels, Offering
    <3>2. outcome' \in [Threads -> Outcomes]
      BY <1>10 DEF DispatchOffer, SendOffer, ThreadsTyped, Outcomes
    <3>. QED BY <1>10, <3>1, <3>2, GotoTyped DEF DispatchOffer, SendOffer,
                ThreadsTyped
  <2>4. WireTyped'
    BY <1>10 DEF DispatchOffer, SendOffer, WireTyped, StateTyped, ThreadsTyped,
       Contexts, Sessions, Outcomes
  <2>5. CandidatesTyped' BY <1>10 DEF DispatchOffer, SendOffer, CandidatesTyped,
                            StateTyped
  <2>6. QueuesTyped' BY <1>10 DEF DispatchOffer, SendOffer, QueuesTyped,
                        ThreadsTyped, Goto
  <2>. QED BY <2>1, <2>2, <2>3, <2>4, <2>5, <2>6 DEF TypeOK
<1>11. ASSUME NEW t \in Threads, RevertDispatch(t) PROVE TypeOK'
  <2>1. FlagsTyped' BY ZenonT(40), <1>11 DEF RevertDispatch, FlagsTyped
  <2>2. StateTyped' BY <1>11 DEF RevertDispatch, StateTyped, Sessions
  <2>3. ThreadsTyped'
    BY <1>11, ContextsTyped DEF RevertDispatch, ThreadsTyped, Goto, Labels, Outcomes,
       Offering
  <2>4. WireTyped'
    BY <1>11 DEF RevertDispatch, WireTyped, StateTyped, ThreadsTyped, Contexts, Sessions,
       Outcomes
  <2>5. CandidatesTyped' BY <1>11 DEF RevertDispatch, CandidatesTyped, StateTyped
  <2>6. QueuesTyped' BY <1>11 DEF RevertDispatch, QueuesTyped, ThreadsTyped, Goto
  <2>. QED BY <2>1, <2>2, <2>3, <2>4, <2>5, <2>6 DEF TypeOK
<1>12. ASSUME NEW t \in Threads, FlushCandidates(t) PROVE TypeOK'
  <2>1. FlagsTyped' BY <1>12 DEF FlushCandidates, FlagsTyped
  <2>2. StateTyped' BY <1>12 DEF FlushCandidates, StateTyped, Sessions
  <2>3. ThreadsTyped'
    BY <1>12, ContextsTyped DEF FlushCandidates, ThreadsTyped, Goto, Labels, Outcomes,
       Offering
  <2>4. WireTyped'
    <3>1. sent' \subseteq [cand : Local, session : Sessions]
      BY <1>12 DEF FlushCandidates, WireTyped, CandidatesTyped, StateTyped
    <3>. QED BY <1>12, <3>1 DEF FlushCandidates, WireTyped, clientVars, givenVars
  <2>5. CandidatesTyped' BY <1>12 DEF FlushCandidates, CandidatesTyped, StateTyped
  <2>6. QueuesTyped' BY <1>12 DEF FlushCandidates, QueuesTyped, ThreadsTyped, Goto
  <2>. QED BY <2>1, <2>2, <2>3, <2>4, <2>5, <2>6 DEF TypeOK
<1>13. ASSUME NEW t \in Threads, FallBack(t) PROVE TypeOK'
  <2>1. FlagsTyped' BY <1>13 DEF FallBack, FlagsTyped
  <2>2. StateTyped' BY <1>13 DEF FallBack, StateTyped, Coalesce, Sessions
  <2>3. ThreadsTyped'
    BY <1>13, ContextsTyped DEF FallBack, ThreadsTyped, Coalesce, Goto, Labels, Outcomes,
       Offering
  <2>4. WireTyped'
    BY <1>13 DEF FallBack, WireTyped, StateTyped, ThreadsTyped, Contexts, Sessions, Outcomes
  <2>5. CandidatesTyped' BY <1>13 DEF FallBack, CandidatesTyped, StateTyped
  <2>6. QueuesTyped' BY <1>13 DEF FallBack, QueuesTyped, Coalesce, ThreadsTyped, Goto
  <2>. QED BY <2>1, <2>2, <2>3, <2>4, <2>5, <2>6 DEF TypeOK
<1>14. ASSUME NEW t \in Threads, ApplyAnswer(t) PROVE TypeOK'
  <2>1. FlagsTyped'
    <3>1. described' \in BOOLEAN BY <1>14 DEF ApplyAnswer, Describe, FlagsTyped
    <3>. QED BY <1>14, <3>1 DEF ApplyAnswer, Describe, FlagsTyped
  <2>2. StateTyped' BY <1>14 DEF ApplyAnswer, Describe, StateTyped, Sessions
  <2>3. ThreadsTyped'
    BY <1>14, ContextsTyped DEF ApplyAnswer, Describe, ThreadsTyped, Goto,
       Labels, Outcomes, Offering
  <2>4. WireTyped'
    BY <1>14 DEF ApplyAnswer, Describe, WireTyped, StateTyped, ThreadsTyped,
       Contexts, Sessions, Outcomes
  <2>5. CandidatesTyped' BY <1>14 DEF ApplyAnswer, Describe, CandidatesTyped,
                            StateTyped
  <2>6. QueuesTyped' BY <1>14 DEF ApplyAnswer, Describe, QueuesTyped,
                        ThreadsTyped, Goto
  <2>. QED BY <2>1, <2>2, <2>3, <2>4, <2>5, <2>6 DEF TypeOK
<1>15. ASSUME NEW t \in Threads, CommitAnswer(t) PROVE TypeOK'
  <2>1. FlagsTyped' BY ZenonT(40), <1>15 DEF CommitAnswer, FlagsTyped
  <2>2. StateTyped' BY <1>15 DEF CommitAnswer, StateTyped, AfterAnswer, Sessions
  <2>3. ThreadsTyped'
    <3>1. \E label \in Labels : Goto(t, label)
      BY <1>15 DEF CommitAnswer, Labels, Offering, AfterAnswer
    <3>2. outcome' \in [Threads -> Outcomes]
      BY <1>15 DEF CommitAnswer, ThreadsTyped, Outcomes
    <3>. QED BY <1>15, <3>1, <3>2, GotoTyped DEF CommitAnswer, ThreadsTyped
  <2>4. WireTyped'
    BY <1>15 DEF CommitAnswer, WireTyped, StateTyped, ThreadsTyped, Contexts, Sessions,
       Outcomes
  <2>5. CandidatesTyped' BY <1>15 DEF CommitAnswer, CandidatesTyped, StateTyped
  <2>6. QueuesTyped' BY <1>15 DEF CommitAnswer, QueuesTyped, AfterAnswer, ThreadsTyped, Goto
  <2>. QED BY <2>1, <2>2, <2>3, <2>4, <2>5, <2>6 DEF TypeOK
<1>16. ASSUME NEW t \in Threads, DrainRemote(t) PROVE TypeOK'
  <2>1. FlagsTyped' BY <1>16 DEF DrainRemote, FlagsTyped
  <2>2. StateTyped' BY <1>16 DEF DrainRemote, StateTyped, AfterDrain, Sessions
  <2>3. ThreadsTyped'
    <3>1. \A p \in Drained : p.cand \in Remote
      BY WaitingTyped DEF Drained, StateTyped, Sessions
    <3>2. mail' \in [Threads -> SUBSET Remote] /\ outcome' \in [Threads -> Outcomes]
      BY <1>16, <3>1 DEF DrainRemote, ThreadsTyped, Outcomes
    <3>3. Nowhere \in Contexts /\ Here(0) \in Contexts
      BY ContextsTyped
    <3>. QED BY <1>16, <3>2, <3>3 DEF DrainRemote, ThreadsTyped, AfterDrain, Goto, Labels
  <2>4. WireTyped'
    BY <1>16 DEF DrainRemote, WireTyped, StateTyped, ThreadsTyped, Contexts, Sessions,
       Outcomes
  <2>5. CandidatesTyped' BY <1>16 DEF DrainRemote, CandidatesTyped, StateTyped
  <2>6. QueuesTyped'
    <3>0. <<>> \in Seq(Pending)
      OBVIOUS
    <3>1. pendingRemote' \in [0 .. MaxSession -> Seq(Pending)]
      <4>1. pendingRemote' \in {pendingRemote, [pendingRemote EXCEPT ![0] = <<>>, ![session] = <<>>]}
        BY <1>16 DEF DrainRemote
      <4>. QED BY <3>0, <4>1 DEF QueuesTyped
    <3>2. pc'[t] # "store" /\ \A u \in Threads \ {t} : pc'[u] = pc[u] /\ mail'[u] = mail[u]
      BY <1>16 DEF DrainRemote, AfterDrain, Goto, ThreadsTyped
    <3>. QED BY <3>1, <3>2 DEF QueuesTyped
  <2>. QED BY <2>1, <2>2, <2>3, <2>4, <2>5, <2>6 DEF TypeOK
<1>17. ASSUME NEW t \in Threads, ApplyDrained(t) PROVE TypeOK'
  <2>1. FlagsTyped' BY <1>17 DEF ApplyDrained, FlagsTyped, AddMail, Given
  <2>2. StateTyped' BY <1>17 DEF ApplyDrained, StateTyped, AddMail, Given,
                       AfterDrain, Sessions
  <2>3. ThreadsTyped'
    BY <1>17, ContextsTyped DEF ApplyDrained, ThreadsTyped, AddMail, Given,
       AfterDrain, Goto, Labels, Outcomes, Offering
  <2>4. WireTyped'
    BY <1>17 DEF ApplyDrained, WireTyped, AddMail, Given, StateTyped,
       ThreadsTyped, Contexts, Sessions, Outcomes
  <2>5. CandidatesTyped' BY <1>17 DEF ApplyDrained, CandidatesTyped, AddMail,
                            Given, StateTyped
  <2>6. QueuesTyped'
    BY <1>17 DEF ApplyDrained, QueuesTyped, AddMail, Given, AfterDrain,
       ThreadsTyped, Goto
  <2>. QED BY <2>1, <2>2, <2>3, <2>4, <2>5, <2>6 DEF TypeOK
<1>18. ASSUME NEW t \in Threads, RunQueued(t) PROVE TypeOK'
  <2>1. FlagsTyped' BY <1>18 DEF RunQueued, FlagsTyped
  <2>2. StateTyped' BY <1>18 DEF RunQueued, StateTyped, Sessions
  <2>3. ThreadsTyped'
    BY <1>18, ContextsTyped DEF RunQueued, ThreadsTyped, Goto, Labels, Outcomes, Offering
  <2>4. WireTyped'
    BY <1>18 DEF RunQueued, WireTyped, StateTyped, ThreadsTyped, Contexts, Sessions,
       Outcomes
  <2>5. CandidatesTyped' BY <1>18 DEF RunQueued, CandidatesTyped, StateTyped
  <2>6. QueuesTyped' BY <1>18 DEF RunQueued, QueuesTyped, ThreadsTyped, Goto
  <2>. QED BY <2>1, <2>2, <2>3, <2>4, <2>5, <2>6 DEF TypeOK
<1>19. ASSUME NEW t \in Threads, BeginMediaPlan(t) PROVE TypeOK'
  <2>1. FlagsTyped'
    <3>1. planning' \in BOOLEAN BY <1>19 DEF BeginMediaPlan, FlagsTyped
    <3>. QED BY <1>19, <3>1 DEF BeginMediaPlan, FlagsTyped
  <2>2. StateTyped' BY <1>19 DEF BeginMediaPlan, StateTyped, Sessions
  <2>3. ThreadsTyped'
    BY <1>19, ContextsTyped DEF BeginMediaPlan, ThreadsTyped, Goto, Labels, Outcomes,
       Offering
  <2>4. WireTyped'
    BY <1>19 DEF BeginMediaPlan, WireTyped, StateTyped, ThreadsTyped, Contexts, Sessions,
       Outcomes
  <2>5. CandidatesTyped' BY <1>19 DEF BeginMediaPlan, CandidatesTyped, StateTyped
  <2>6. QueuesTyped' BY <1>19 DEF BeginMediaPlan, QueuesTyped, ThreadsTyped, Goto
  <2>. QED BY <2>1, <2>2, <2>3, <2>4, <2>5, <2>6 DEF TypeOK
<1>20. ASSUME NEW t \in Threads, EnsureTracks(t) PROVE TypeOK'
  <2>1. FlagsTyped' BY <1>20 DEF EnsureTracks, FlagsTyped
  <2>2. StateTyped' BY <1>20 DEF EnsureTracks, StateTyped, Sessions
  <2>3. ThreadsTyped'
    BY <1>20, ContextsTyped DEF EnsureTracks, ThreadsTyped, Goto, Labels, Outcomes, Offering
  <2>4. WireTyped'
    BY <1>20 DEF EnsureTracks, WireTyped, StateTyped, ThreadsTyped, Contexts, Sessions,
       Outcomes
  <2>5. CandidatesTyped' BY <1>20 DEF EnsureTracks, CandidatesTyped, StateTyped
  <2>6. QueuesTyped' BY <1>20 DEF EnsureTracks, QueuesTyped, ThreadsTyped, Goto
  <2>. QED BY <2>1, <2>2, <2>3, <2>4, <2>5, <2>6 DEF TypeOK
<1>21. ASSUME NEW t \in Threads, EndMediaPlan(t) PROVE TypeOK'
  <2>1. FlagsTyped' BY ZenonT(40), <1>21 DEF EndMediaPlan, FlagsTyped
  <2>2. StateTyped' BY <1>21 DEF EndMediaPlan, StateTyped, Sessions
  <2>3. ThreadsTyped'
    <3>1. \E label \in Labels : Goto(t, label)
      BY <1>21 DEF EndMediaPlan, Labels, Offering
    <3>2. outcome' \in [Threads -> Outcomes]
      BY <1>21 DEF EndMediaPlan, ThreadsTyped, Outcomes
    <3>. QED BY <1>21, <3>1, <3>2, GotoTyped DEF EndMediaPlan, ThreadsTyped
  <2>4. WireTyped'
    BY <1>21 DEF EndMediaPlan, WireTyped, StateTyped, ThreadsTyped, Contexts, Sessions,
       Outcomes
  <2>5. CandidatesTyped' BY <1>21 DEF EndMediaPlan, CandidatesTyped, StateTyped
  <2>6. QueuesTyped' BY <1>21 DEF EndMediaPlan, QueuesTyped, ThreadsTyped, Goto
  <2>. QED BY <2>1, <2>2, <2>3, <2>4, <2>5, <2>6 DEF TypeOK
<1>22. ASSUME NEW t \in Threads, StoreRemote(t) PROVE TypeOK'
  <2>1. FlagsTyped' BY <1>22 DEF StoreRemote, FlagsTyped
  <2>2. StateTyped' BY <1>22 DEF StoreRemote, StateTyped, Sessions
  <2>3. ThreadsTyped'
    <3>1. mail' \in [Threads -> SUBSET Remote]
      BY <1>22 DEF StoreRemote, ThreadsTyped
    <3>2. Nowhere \in Contexts /\ Here(ctx[t].wire) \in Contexts
      <4>1. ctx[t].wire \in 0 .. MaxSession
        BY DEF ThreadsTyped, Contexts
      <4>. QED BY <4>1, ContextsTyped
    <3>. QED BY <1>22, <3>1, <3>2 DEF StoreRemote, ThreadsTyped, Goto, Labels
  <2>4. WireTyped'
    BY <1>22 DEF StoreRemote, WireTyped, StateTyped, ThreadsTyped, Contexts, Sessions,
       Outcomes
  <2>5. CandidatesTyped' BY <1>22 DEF StoreRemote, CandidatesTyped, StateTyped
  <2>6. QueuesTyped'
    <3>1. Entry(t) \in Pending
      <4>1. pc[t] = "store"
        BY <1>22 DEF StoreRemote
      <4>2. mail[t] # {} /\ mail[t] \subseteq Remote
        BY <4>1 DEF QueuesTyped, ThreadsTyped
      <4>. QED BY <4>2 DEF Entry, Pending, StateTyped
    <3>2. pendingRemote[session] \in Seq(Pending)
      BY DEF QueuesTyped, StateTyped, Sessions
    <3>3. Queued(pendingRemote[session], Entry(t)) \in Seq(Pending)
      BY <3>1, <3>2, QueuedAdds
    <3>4. pendingRemote' \in [0 .. MaxSession -> Seq(Pending)]
      BY <1>22, <3>3 DEF StoreRemote, QueuesTyped
    <3>5. pc'[t] # "store" /\ \A u \in Threads \ {t} : pc'[u] = pc[u] /\ mail'[u] = mail[u]
      BY <1>22 DEF StoreRemote, Goto, ThreadsTyped
    <3>. QED BY <3>4, <3>5 DEF QueuesTyped
  <2>. QED BY <2>1, <2>2, <2>3, <2>4, <2>5, <2>6 DEF TypeOK
<1>23. ASSUME NEW t \in Threads, AddRemote(t) PROVE TypeOK'
  <2>1. FlagsTyped' BY <1>23 DEF AddRemote, FlagsTyped, AddMail, Given
  <2>2. StateTyped' BY <1>23 DEF AddRemote, StateTyped, AddMail, Given, Sessions
  <2>3. ThreadsTyped'
    BY <1>23, ContextsTyped DEF AddRemote, ThreadsTyped, AddMail, Given, Goto,
       Labels, Outcomes, Offering
  <2>4. WireTyped'
    BY <1>23 DEF AddRemote, WireTyped, AddMail, Given, StateTyped, ThreadsTyped,
       Contexts, Sessions, Outcomes
  <2>5. CandidatesTyped' BY <1>23 DEF AddRemote, CandidatesTyped, AddMail,
                            Given, StateTyped
  <2>6. QueuesTyped' BY <1>23 DEF AddRemote, QueuesTyped, AddMail, Given,
                        ThreadsTyped, Goto
  <2>. QED BY <2>1, <2>2, <2>3, <2>4, <2>5, <2>6 DEF TypeOK
<1>24. ASSUME Connected PROVE TypeOK'
  <2>1. FlagsTyped' /\ StateTyped' BY <1>24 DEF Connected, FlagsTyped, StateTyped
  <2>2. ThreadsTyped' /\ QueuesTyped'
    BY <1>24, ContextsTyped DEF Connected, ThreadsTyped, QueuesTyped, Goto, Labels
  <2>3. WireTyped' /\ CandidatesTyped'
    BY <1>24 DEF Connected, WireTyped, CandidatesTyped, StateTyped, Sessions
  <2>. QED BY <2>1, <2>2, <2>3 DEF TypeOK
<1>25. ASSUME TransportFailed PROVE TypeOK'
  <2>1. FlagsTyped' /\ StateTyped' BY <1>25 DEF TransportFailed, FlagsTyped, StateTyped
  <2>2. ThreadsTyped' /\ QueuesTyped'
    BY <1>25, ContextsTyped DEF TransportFailed, ThreadsTyped, QueuesTyped, Goto, Labels
  <2>3. WireTyped' /\ CandidatesTyped'
    BY <1>25 DEF TransportFailed, WireTyped, CandidatesTyped, StateTyped, Sessions
  <2>. QED BY <2>1, <2>2, <2>3 DEF TypeOK
<1>26. ASSUME SendCandidate PROVE TypeOK'
  <2>1. FlagsTyped' /\ StateTyped' BY <1>26 DEF SendCandidate, CandidateSent,
                                      FlagsTyped, StateTyped
  <2>2. ThreadsTyped' /\ QueuesTyped'
    BY <1>26, ContextsTyped DEF SendCandidate, CandidateSent, ThreadsTyped,
       QueuesTyped, Goto, Labels
  <2>3. WireTyped' /\ CandidatesTyped'
    BY <1>26 DEF SendCandidate, CandidateSent, WireTyped, CandidatesTyped,
       StateTyped, Sessions
  <2>. QED BY <2>1, <2>2, <2>3 DEF TypeOK
<1>27. ASSUME NEW c \in Local, Gather(c) PROVE TypeOK'
  <2>1. FlagsTyped' /\ StateTyped' BY <1>27 DEF Gather, FlagsTyped, StateTyped
  <2>2. ThreadsTyped' /\ QueuesTyped'
    BY <1>27, ContextsTyped DEF Gather, ThreadsTyped, QueuesTyped, Goto, Labels
  <2>3. WireTyped' /\ CandidatesTyped'
    BY <1>27 DEF Gather, WireTyped, CandidatesTyped, StateTyped, Sessions
  <2>. QED BY <2>1, <2>2, <2>3 DEF TypeOK
<1>28. CASE UNCHANGED vars
  BY <1>0, <1>28 DEF vars, TypeOK, FlagsTyped, StateTyped, ThreadsTyped, WireTyped,
     CandidatesTyped, QueuesTyped
<1>. QED
  BY <1>1, <1>2, <1>3, <1>4, <1>5, <1>6, <1>7, <1>8, <1>9, <1>10, <1>11, <1>12, <1>13,
     <1>14, <1>15, <1>16, <1>17, <1>18, <1>19, <1>20, <1>21, <1>22, <1>23, <1>24, <1>25,
     <1>26, <1>27, <1>28 DEF Next, SendOfferStep, AnswerStep, PlanStep, CandidateStep

\* Every variable keeps to its type, and a candidate to be stored is there to store.
THEOREM NegotiationTyped == Spec => []TypeOK
BY TypeInit, TypeStep, PTL DEF Spec

-----------------------------------------------------------------------------
(***************************************************************************)
(* Who makes an offer, and who applies an answer.                          *)
(***************************************************************************)
LEMMA MakingStep == TypeOK /\ MakingInv /\ [Next]_vars => MakingInv'
<1>. SUFFICES ASSUME TypeOK, MakingInv, [Next]_vars PROVE MakingInv'
  OBVIOUS
<1>0. FlagsTyped /\ ThreadsTyped /\ StateTyped
  BY DEF TypeOK
<1>1. ASSUME NEW t \in Threads, Initialize(t) PROVE MakingInv'
  <2>1. CASE /\ initializing' = FALSE /\ Goto(t, "offer") /\ transport' = 1
             /\ UNCHANGED <<removed, queued>>
    BY <1>0, <1>1, <2>1 DEF Initialize, MakingInv, OneClient, OneAnswer, Answering, Making,
       Offering, ThreadsTyped, Goto, wireVars
  <2>2. CASE /\ Goto(t, IF removed THEN "idle" ELSE "erase") /\ removed' = TRUE /\ queued' = {}
             /\ UNCHANGED <<transport, clientGen, initializing>>
    <3>1. \E label \in {"idle", "erase"} : Goto(t, label)
      BY <2>2
    <3>. QED
      BY <1>0, <1>1, <2>2, <3>1 DEF Initialize, MakingInv, OneClient, OneAnswer, Answering,
         Making, Offering, ThreadsTyped, Goto, wireVars
  <2>. QED BY <1>1, <2>1, <2>2 DEF Initialize
<1>2. ASSUME NEW t \in Threads, SendPeerOffer(t) PROVE MakingInv'
  <2>1. CASE Goto(t, "idle") /\ UNCHANGED negVars
    BY <1>0, <1>2, <2>1 DEF SendPeerOffer, MakingInv, OneClient, OneAnswer, Answering, Making,
       Offering, ThreadsTyped, Goto, negVars, clientVars, wireVars
  <2>2. CASE /\ ~removed /\ Coalesce(RequestsRebuild(t)) /\ Goto(t, "idle")
             /\ UNCHANGED <<removed, initializing, creating, answering, planning, retired,
                            dispatched, answered>>
    BY <1>0, <1>2, <2>2 DEF SendPeerOffer, MakingInv, OneClient, OneAnswer, Answering, Making,
       Offering, ThreadsTyped, Goto, clientVars, wireVars
  <2>3. CASE /\ ~initializing /\ Reserve(t, RequestsRebuild(t))
             /\ UNCHANGED <<removed, initializing, answering, planning>>
    <3>1. \A u \in Threads : pc[u] \notin Offering \cup {"init"}
      BY <1>2 DEF SendPeerOffer, ClientFree
    <3>2. \E label \in {"build", "create"} : Goto(t, label)
      BY <2>3 DEF Reserve
    <3>3. ~answering /\ creating' /\ ~answered' /\ ~dispatched' /\ ~retired' /\ queued' = {}
      BY <2>3 DEF Reserve, MayReserve
    <3>. QED
      BY <1>0, <1>2, <2>3, <3>1, <3>2, <3>3 DEF SendPeerOffer, MakingInv, OneClient,
         OneAnswer, Answering, Making, Offering, ThreadsTyped, Goto, clientVars, wireVars
  <2>. QED BY <1>2, <2>1, <2>2, <2>3 DEF SendPeerOffer
<1>3. ASSUME NEW t \in Threads, FallBack(t) PROVE MakingInv'
  <2>1. \E label \in {"commit", "answer"} : Goto(t, label)
    BY <1>3 DEF FallBack
  <2>2. removed => queued' = queued
    BY <1>3 DEF FallBack
  <2>. QED
    BY <1>0, <1>3, <2>1, <2>2 DEF FallBack, MakingInv, OneClient, OneAnswer, Answering,
       Making, Offering, ThreadsTyped, Goto, clientVars, wireVars
<1>4. ASSUME NEW t \in Threads, CommitAnswer(t) PROVE MakingInv'
  <2>1. \E label \in {"idle", "drain", "queue"} : Goto(t, label)
    BY <1>4 DEF CommitAnswer, AfterAnswer
  <2>2. answering /\ ~answering' /\ \A u \in Threads \ {t} : pc[u] \notin Answering
    BY <1>0, <1>4 DEF CommitAnswer, MakingInv, OneClient, OneAnswer, Answering, Making,
       Offering, ThreadsTyped
  <2>3. ~creating /\ \A u \in Threads : pc[u] \notin Making
    BY <1>0, <2>2 DEF MakingInv
  <2>. QED
    BY <1>0, <1>4, <2>1, <2>2, <2>3 DEF CommitAnswer, MakingInv, OneClient, OneAnswer,
       Answering, Making, Offering, ThreadsTyped, Goto, clientVars, wireVars
<1>5. ASSUME NEW t \in Threads, RunQueued(t) PROVE MakingInv'
  <2>1. \E label \in {"idle", "rebuild", "plan", "offer"} : Goto(t, label)
    BY <1>5 DEF RunQueued
  <2>2. removed => queued' = queued
    BY <1>5 DEF RunQueued
  <2>. QED
    BY <1>0, <1>5, <2>1, <2>2 DEF RunQueued, MakingInv, OneClient, OneAnswer, Answering,
       Making, Offering, ThreadsTyped, Goto, clientVars, wireVars
<1>6. ASSUME NEW t \in Threads, BeginMediaPlan(t) PROVE MakingInv'
  <2>1. \E label \in {"idle", "tracks"} : Goto(t, label)
    BY <1>6 DEF BeginMediaPlan
  <2>2. removed => queued' = queued
    BY <1>6 DEF BeginMediaPlan
  <2>. QED
    BY <1>0, <1>6, <2>1, <2>2 DEF BeginMediaPlan, MakingInv, OneClient, OneAnswer, Answering,
       Making, Offering, ThreadsTyped, Goto, clientVars, wireVars
<1>. USE <1>0 DEF Goto, ThreadsTyped, StateTyped, negVars, candVars, givenVars, clientVars,
   threadVars, wireVars
<1>7. ASSUME NEW t \in Threads, AcceptAnswer(t) PROVE MakingInv'
  BY <1>7 DEF AcceptAnswer, Event, Acceptable, Routed, Here, MakingInv,
     OneClient, OneAnswer, Answering, Making, Offering
<1>8. ASSUME NEW t \in Threads, HearCandidate(t) PROVE MakingInv'
  BY <1>8 DEF HearCandidate, Routed, Event, Here, MakingInv, OneClient,
     OneAnswer, Answering, Making, Offering
<1>9. ASSUME NEW t \in Threads, RemovePeer(t) PROVE MakingInv'
  BY <1>9 DEF RemovePeer, Event, MakingInv, OneClient, OneAnswer, Answering, Making,
     Offering
<1>10. ASSUME NEW t \in Threads, ErasePeer(t) PROVE MakingInv'
  BY <1>10 DEF ErasePeer, MakingInv, OneClient, OneAnswer, Answering, Making, Offering
<1>11. ASSUME NEW t \in Threads, BuildTransport(t) PROVE MakingInv'
  BY <1>11 DEF BuildTransport, MakingInv, OneClient, OneAnswer, Answering, Making, Offering
<1>12. ASSUME NEW t \in Threads, CreateOffer(t) PROVE MakingInv'
  BY <1>12 DEF CreateOffer, MakingInv, OneClient, OneAnswer, Answering, Making, Offering
<1>13. ASSUME NEW t \in Threads, OfferFailed(t) PROVE MakingInv'
  BY <1>13 DEF OfferFailed, MakingInv, OneClient, OneAnswer, Answering, Making, Offering
<1>14. ASSUME NEW t \in Threads, DispatchOffer(t) PROVE MakingInv'
  BY <1>14 DEF DispatchOffer, SendOffer, MakingInv, OneClient, OneAnswer,
     Answering, Making, Offering
<1>15. ASSUME NEW t \in Threads, RevertDispatch(t) PROVE MakingInv'
  BY <1>15 DEF RevertDispatch, MakingInv, OneClient, OneAnswer, Answering, Making, Offering
<1>16. ASSUME NEW t \in Threads, FlushCandidates(t) PROVE MakingInv'
  BY <1>16 DEF FlushCandidates, FlushesCandidate, MakingInv, OneClient, OneAnswer,
     Answering, Making, Offering
<1>17. ASSUME NEW t \in Threads, ApplyAnswer(t) PROVE MakingInv'
  BY <1>17 DEF ApplyAnswer, Describe, MakingInv, OneClient, OneAnswer,
     Answering, Making, Offering
<1>18. ASSUME NEW t \in Threads, DrainRemote(t) PROVE MakingInv'
  BY <1>18 DEF DrainRemote, AfterDrain, Here, MakingInv, OneClient, OneAnswer, Answering,
     Making, Offering
<1>19. ASSUME NEW t \in Threads, ApplyDrained(t) PROVE MakingInv'
  BY <1>19 DEF ApplyDrained, AddMail, Given, AfterDrain, MakingInv, OneClient,
     OneAnswer, Answering, Making, Offering
<1>20. ASSUME NEW t \in Threads, EnsureTracks(t) PROVE MakingInv'
  BY <1>20 DEF EnsureTracks, MakingInv, OneClient, OneAnswer, Answering, Making, Offering
<1>21. ASSUME NEW t \in Threads, EndMediaPlan(t) PROVE MakingInv'
  BY <1>21 DEF EndMediaPlan, MakingInv, OneClient, OneAnswer, Answering, Making, Offering
<1>22. ASSUME NEW t \in Threads, StoreRemote(t) PROVE MakingInv'
  BY <1>22 DEF StoreRemote, Here, MakingInv, OneClient, OneAnswer, Answering, Making,
     Offering
<1>23. ASSUME NEW t \in Threads, AddRemote(t) PROVE MakingInv'
  BY <1>23 DEF AddRemote, AddMail, Given, MakingInv, OneClient, OneAnswer,
     Answering, Making, Offering
<1>24. ASSUME Connected PROVE MakingInv'
  BY <1>24 DEF Connected, Event, LeaseFree, MakingInv, OneClient, OneAnswer, Answering,
     Making, Offering
<1>25. ASSUME TransportFailed PROVE MakingInv'
  BY <1>25 DEF TransportFailed, Event, LeaseFree, MakingInv, OneClient, OneAnswer,
     Answering, Making, Offering
<1>26. ASSUME SendCandidate PROVE MakingInv'
  BY <1>26 DEF SendCandidate, CandidateSent, SendsCandidate, MakingInv,
     OneClient, OneAnswer, Answering, Making, Offering
<1>27. ASSUME NEW c \in Local, Gather(c) PROVE MakingInv'
  BY <1>27 DEF Gather, MakingInv, OneClient, OneAnswer, Answering, Making, Offering
<1>28. CASE UNCHANGED vars
  BY <1>28 DEF vars, MakingInv, OneClient, OneAnswer, Answering, Making, Offering
<1>. QED
  BY <1>1, <1>2, <1>3, <1>4, <1>5, <1>6, <1>7, <1>8, <1>9, <1>10, <1>11, <1>12, <1>13,
     <1>14, <1>15, <1>16, <1>17, <1>18, <1>19, <1>20, <1>21, <1>22, <1>23, <1>24, <1>25,
     <1>26, <1>27, <1>28 DEF Next, SendOfferStep, AnswerStep, PlanStep, CandidateStep

-----------------------------------------------------------------------------
(***************************************************************************)
(* How the offers and the candidates on the wire are numbered.             *)
(***************************************************************************)
LEMMA OfferStep == TypeOK /\ MakingInv /\ OfferInv /\ [Next]_vars => OfferInv'
<1>. SUFFICES ASSUME TypeOK, MakingInv, OfferInv, [Next]_vars PROVE OfferInv'
  OBVIOUS
<1>0. StateTyped /\ ThreadsTyped /\ WireTyped /\ CandidatesTyped
  BY DEF TypeOK
<1>1. ASSUME NEW t \in Threads, Initialize(t) PROVE OfferInv'
  <2>1. initializing /\ offers = {} /\ sent = {} /\ \A u \in Threads : pc[u] \notin Offering
    BY <1>1 DEF Initialize, MakingInv
  <2>2. \E label \in Labels \ Offering : Goto(t, label)
    BY <1>1 DEF Initialize, Labels, Offering
  <2>3. clientGen' \in {0, transport'}
    BY <1>1 DEF Initialize, OfferInv
  <2>. QED BY <1>0, <1>1, <2>1, <2>2, <2>3
           DEF Initialize, OfferInv, LocalCandidatesMatch, Making, Offering, Goto, Nowhere, ThreadsTyped,
              StateTyped, Sessions, candVars, wireVars
<1>2. ASSUME NEW t \in Threads, SendPeerOffer(t) PROVE OfferInv'
  <2>1. CASE Goto(t, "idle") /\ UNCHANGED <<offerGen, clientGen, session>>
    BY <1>0, <1>2, <2>1 DEF SendPeerOffer, OfferInv, LocalCandidatesMatch, Making, Offering,
       Goto,
       Nowhere, ThreadsTyped, StateTyped, Sessions, clientVars, wireVars
  <2>2. CASE ~initializing /\ Reserve(t, RequestsRebuild(t))
    <3>1. \A u \in Threads : pc[u] \notin Offering
      BY <1>2 DEF SendPeerOffer, ClientFree
    <3>2. offerGen' = offerGen + 1
      BY <2>2 DEF Reserve
    <3>3. CASE session' = session + 1 /\ clientGen' = 0 /\ Goto(t, "build")
      BY <1>0, <1>2, <3>1, <3>2, <3>3 DEF SendPeerOffer, OfferInv, LocalCandidatesMatch, Making,
         Offering, Goto, ThreadsTyped, WireTyped, StateTyped, Contexts, Sessions, clientVars, wireVars
    <3>4. CASE session' = session /\ clientGen' = clientGen /\ Goto(t, "create")
      BY <1>0, <1>2, <3>1, <3>2, <3>4 DEF SendPeerOffer, OfferInv, LocalCandidatesMatch, Making,
         Offering, Goto, ThreadsTyped, WireTyped, StateTyped, Contexts, Sessions, clientVars, wireVars
    <3>. QED BY <2>2, <3>3, <3>4 DEF Reserve, RotateTransport
  <2>. QED BY <1>2, <2>1, <2>2 DEF SendPeerOffer, negVars
<1>3. ASSUME NEW t \in Threads, DrainRemote(t) PROVE OfferInv'
  <2>1. pc'[t] \notin Offering /\ \A u \in Threads \ {t} : pc'[u] = pc[u] /\ ctx'[u] = ctx[u]
    BY <1>0, <1>3 DEF DrainRemote, AfterDrain, Goto, ThreadsTyped, Offering
  <2>2. ctx'[t] \in {ctx[t], Nowhere, Here(0)}
    BY <1>0, <1>3 DEF DrainRemote, Goto, ThreadsTyped
  <2>3. ctx'[t].session <= session /\ ctx'[t].offer <= offerGen
    BY <1>0, <2>2 DEF OfferInv, Nowhere, Here, StateTyped, Sessions
  <2>. QED
    BY <1>0, <1>3, <2>1, <2>3 DEF DrainRemote, OfferInv, LocalCandidatesMatch, Making,
       Offering,
          negVars, clientVars, wireVars
<1>. USE <1>0 DEF Goto, Nowhere, StateTyped, ThreadsTyped, WireTyped, CandidatesTyped,
   Contexts, Sessions, negVars, candVars, givenVars, clientVars, threadVars, wireVars
<1>4. ASSUME NEW t \in Threads, AcceptAnswer(t) PROVE OfferInv'
  BY <1>4 DEF AcceptAnswer, Event, Acceptable, Routed, Here, OfferInv,
     LocalCandidatesMatch, MakingInv, OneClient, Making, Offering
<1>5. ASSUME NEW t \in Threads, HearCandidate(t) PROVE OfferInv'
  BY <1>5 DEF HearCandidate, Routed, Event, Here, OfferInv,
     LocalCandidatesMatch, MakingInv, OneClient, Making, Offering
<1>6. ASSUME NEW t \in Threads, RemovePeer(t) PROVE OfferInv'
  BY <1>6 DEF RemovePeer, Event, OfferInv, LocalCandidatesMatch, MakingInv, OneClient,
     Making, Offering
<1>7. ASSUME NEW t \in Threads, ErasePeer(t) PROVE OfferInv'
  BY <1>7 DEF ErasePeer, OfferInv, LocalCandidatesMatch, MakingInv, OneClient, Making,
     Offering
<1>8. ASSUME NEW t \in Threads, BuildTransport(t) PROVE OfferInv'
  BY <1>8 DEF BuildTransport, OfferInv, LocalCandidatesMatch, MakingInv, OneClient, Making,
     Offering
<1>9. ASSUME NEW t \in Threads, CreateOffer(t) PROVE OfferInv'
  BY <1>9 DEF CreateOffer, OfferInv, LocalCandidatesMatch, MakingInv, OneClient, Making,
     Offering
<1>10. ASSUME NEW t \in Threads, OfferFailed(t) PROVE OfferInv'
  BY <1>10 DEF OfferFailed, OfferInv, LocalCandidatesMatch, MakingInv, OneClient, Making,
     Offering
<1>11. ASSUME NEW t \in Threads, DispatchOffer(t) PROVE OfferInv'
  BY SMTT(20), <1>11 DEF DispatchOffer, SendOffer, OfferInv,
     LocalCandidatesMatch, MakingInv, OneClient, Making, Offering
<1>12. ASSUME NEW t \in Threads, RevertDispatch(t) PROVE OfferInv'
  BY <1>12 DEF RevertDispatch, OfferInv, LocalCandidatesMatch, MakingInv, OneClient, Making,
     Offering
<1>13. ASSUME NEW t \in Threads, FlushCandidates(t) PROVE OfferInv'
  BY <1>13 DEF FlushCandidates, FlushesCandidate, OfferInv, LocalCandidatesMatch, MakingInv,
     OneClient, Making, Offering
<1>14. ASSUME NEW t \in Threads, FallBack(t) PROVE OfferInv'
  BY <1>14 DEF FallBack, Coalesce, OfferInv, LocalCandidatesMatch, MakingInv, OneClient,
     Making, Offering
<1>15. ASSUME NEW t \in Threads, ApplyAnswer(t) PROVE OfferInv'
  BY <1>15 DEF ApplyAnswer, Describe, OfferInv, LocalCandidatesMatch, MakingInv,
     OneClient, Making, Offering
<1>16. ASSUME NEW t \in Threads, CommitAnswer(t) PROVE OfferInv'
  BY <1>16 DEF CommitAnswer, AfterAnswer, OfferInv, LocalCandidatesMatch, MakingInv,
     OneClient, Making, Offering
<1>17. ASSUME NEW t \in Threads, ApplyDrained(t) PROVE OfferInv'
  BY <1>17 DEF ApplyDrained, AddMail, Given, AfterDrain, OfferInv,
     LocalCandidatesMatch, MakingInv, OneClient, Making, Offering
<1>18. ASSUME NEW t \in Threads, RunQueued(t) PROVE OfferInv'
  BY <1>18 DEF RunQueued, Unresolved, OfferInv, LocalCandidatesMatch, MakingInv, OneClient,
     Making, Offering
<1>19. ASSUME NEW t \in Threads, BeginMediaPlan(t) PROVE OfferInv'
  BY <1>19 DEF BeginMediaPlan, Event, MustQueuePlan, Unresolved, OfferInv,
     LocalCandidatesMatch, MakingInv, OneClient, Making, Offering
<1>20. ASSUME NEW t \in Threads, EnsureTracks(t) PROVE OfferInv'
  BY <1>20 DEF EnsureTracks, OfferInv, LocalCandidatesMatch, MakingInv, OneClient, Making,
     Offering
<1>21. ASSUME NEW t \in Threads, EndMediaPlan(t) PROVE OfferInv'
  BY <1>21 DEF EndMediaPlan, OfferInv, LocalCandidatesMatch, MakingInv, OneClient, Making,
     Offering
<1>22. ASSUME NEW t \in Threads, StoreRemote(t) PROVE OfferInv'
  BY <1>22 DEF StoreRemote, Here, OfferInv, LocalCandidatesMatch, MakingInv, OneClient,
     Making, Offering
<1>23. ASSUME NEW t \in Threads, AddRemote(t) PROVE OfferInv'
  BY <1>23 DEF AddRemote, AddMail, Given, OfferInv, LocalCandidatesMatch,
     MakingInv, OneClient, Making, Offering
<1>24. ASSUME Connected PROVE OfferInv'
  BY <1>24 DEF Connected, Event, LeaseFree, OfferInv, LocalCandidatesMatch, MakingInv,
     OneClient, Making, Offering
<1>25. ASSUME TransportFailed PROVE OfferInv'
  BY <1>25 DEF TransportFailed, Event, LeaseFree, OfferInv, LocalCandidatesMatch, MakingInv,
     OneClient, Making, Offering
<1>26. ASSUME SendCandidate PROVE OfferInv'
  BY <1>26 DEF SendCandidate, CandidateSent, SendsCandidate, OfferInv,
     LocalCandidatesMatch, MakingInv, OneClient, Making, Offering
<1>27. ASSUME NEW c \in Local, Gather(c) PROVE OfferInv'
  BY <1>27 DEF Gather, OfferInv, LocalCandidatesMatch, MakingInv, OneClient, Making,
     Offering
<1>28. CASE UNCHANGED vars
  BY <1>28 DEF vars, OfferInv, LocalCandidatesMatch, MakingInv, OneClient, Making, Offering
<1>. QED
  BY <1>1, <1>2, <1>3, <1>4, <1>5, <1>6, <1>7, <1>8, <1>9, <1>10, <1>11, <1>12, <1>13,
     <1>14, <1>15, <1>16, <1>17, <1>18, <1>19, <1>20, <1>21, <1>22, <1>23, <1>24, <1>25,
     <1>26, <1>27, <1>28 DEF Next, SendOfferStep, AnswerStep, PlanStep, CandidateStep

-----------------------------------------------------------------------------
(***************************************************************************)
(* An answer under way finds its offer where it left it.                   *)
(***************************************************************************)
LEMMA AnswersStep == TypeOK /\ MakingInv /\ OfferInv /\ AnswerInv /\ [Next]_vars => AnswerInv'
<1>. SUFFICES ASSUME TypeOK, MakingInv, OfferInv, AnswerInv, [Next]_vars PROVE AnswerInv'
  OBVIOUS
<1>0. FlagsTyped /\ StateTyped /\ ThreadsTyped /\ WireTyped
  BY DEF TypeOK
<1>1. ASSUME NEW t \in Threads, SendPeerOffer(t) PROVE AnswerInv'
  <2>1. CASE /\ Goto(t, "idle") /\ queued \subseteq queued'
             /\ UNCHANGED <<answering, answered, offerGen, transportGen, session, removed>>
    BY <1>0, <1>1, <2>1 DEF SendPeerOffer, AnswerInv, StillHere, Here, AnswersMatch,
       Answering, Goto,
       ThreadsTyped, clientVars, givenVars, wireVars
  <2>2. CASE /\ Reserve(t, RequestsRebuild(t))
             /\ UNCHANGED <<removed, initializing, answering, planning>>
    <3>1. ~answering /\ ~answered' /\ \A u \in Threads : pc[u] \notin Answering
      BY <2>2 DEF Reserve, MayReserve, MakingInv
    <3>2. \E label \in {"build", "create"} : Goto(t, label)
      BY <2>2 DEF Reserve
    <3>3. \A u \in Threads : pc'[u] \notin Answering
      BY <1>0, <3>1, <3>2 DEF Goto, ThreadsTyped, Answering
    <3>. QED BY <1>0, <1>1, <3>1, <3>3 DEF SendPeerOffer, AnswerInv, AnswersMatch, Answering,
             clientVars, givenVars, wireVars
  <2>. QED BY <1>1, <2>1, <2>2 DEF SendPeerOffer, negVars, Coalesce
<1>2. ASSUME NEW t \in Threads, BuildTransport(t) PROVE AnswerInv'
  <2>1. ~answered /\ \A u \in Threads : pc[u] \notin Answering
    BY <1>2 DEF BuildTransport, MakingInv, Making
  <2>2. \E label \in {"create", "failed"} : Goto(t, label)
    BY <1>2 DEF BuildTransport
  <2>3. \A u \in Threads : pc'[u] \notin Answering
    BY <1>0, <2>1, <2>2 DEF Goto, ThreadsTyped, Answering
  <2>4. answers' = {} \/ UNCHANGED <<answers, transport>>
    BY <1>2 DEF BuildTransport, clientVars, givenVars
  <2>. QED
    BY <1>2, <2>1, <2>3, <2>4 DEF BuildTransport, AnswerInv, AnswersMatch, Answering, wireVars
<1>3. ASSUME NEW t \in Threads, ApplyAnswer(t) PROVE AnswerInv'
  <2>1. session = ctx[t].wire /\ \E o \in offers : o.session = session /\ o.transport = transport
    BY <1>3 DEF ApplyAnswer, Describe, AnswerInv, Answering, OfferInv
  <2>2. answers' \in {answers, answers \cup {session}}
    BY <1>3, <2>1 DEF ApplyAnswer, Describe
  <2>3. AnswersMatch'
    BY <1>3, <2>1, <2>2 DEF ApplyAnswer, Describe, AnswerInv, AnswersMatch,
       wireVars
  <2>4. outcome'[t] \in {"ok", "failed"} /\ (outcome'[t] = "ok" => session \in answers')
    BY <1>0, <1>3, <2>1 DEF ApplyAnswer, Describe, ThreadsTyped
  <2>5. \A u \in Threads \ {t} : pc'[u] = pc[u] /\ pc[u] \notin Answering
    BY <1>0, <1>3 DEF ApplyAnswer, Describe, Goto, ThreadsTyped, MakingInv,
       OneAnswer, Answering
  <2>6. pc'[t] = "commit" /\ ctx' = ctx
    BY <1>0, <1>3 DEF ApplyAnswer, Describe, Goto, ThreadsTyped
  <2>. QED BY <1>3, <2>2, <2>3, <2>4, <2>5, <2>6
           DEF ApplyAnswer, Describe, AnswerInv, StillHere, Here, Answering,
           negVars, wireVars
<1>4. ASSUME NEW t \in Threads, DrainRemote(t) PROVE AnswerInv'
  <2>1. \A u \in Threads \ {t} : pc'[u] = pc[u] /\ ctx'[u] = ctx[u] /\ outcome'[u] = outcome[u]
    BY <1>0, <1>4 DEF DrainRemote, Goto, ThreadsTyped
  <2>2. pc'[t] \notin Answering
    BY <1>0, <1>4 DEF DrainRemote, AfterDrain, Goto, ThreadsTyped, Answering
  <2>. QED
    BY <1>4, <2>1, <2>2 DEF DrainRemote, AnswerInv, StillHere, Here, AnswersMatch, Answering,
           negVars, clientVars, givenVars, wireVars
<1>. USE <1>0 DEF Goto, Nowhere, StateTyped, ThreadsTyped, WireTyped, Contexts, Sessions,
   negVars, candVars, givenVars, clientVars, threadVars, wireVars
<1>5. ASSUME NEW t \in Threads, Initialize(t) PROVE AnswerInv'
  BY <1>5 DEF Initialize, AnswerInv, StillHere, AnswersMatch, OfferInv, MakingInv,
     OneClient, OneAnswer, Answering, Making, Offering, Here
<1>6. ASSUME NEW t \in Threads, AcceptAnswer(t) PROVE AnswerInv'
  BY <1>6 DEF AcceptAnswer, Event, Acceptable, Routed, Here, AnswerInv,
     StillHere, AnswersMatch, OfferInv, MakingInv, OneClient, OneAnswer,
     Answering, Making, Offering, Here
<1>7. ASSUME NEW t \in Threads, HearCandidate(t) PROVE AnswerInv'
  BY <1>7 DEF HearCandidate, Routed, Event, Here, AnswerInv, StillHere,
     AnswersMatch, OfferInv, MakingInv, OneClient, OneAnswer, Answering, Making,
     Offering, Here
<1>8. ASSUME NEW t \in Threads, RemovePeer(t) PROVE AnswerInv'
  BY <1>8 DEF RemovePeer, Event, AnswerInv, StillHere, AnswersMatch, OfferInv, MakingInv,
     OneClient, OneAnswer, Answering, Making, Offering, Here
<1>9. ASSUME NEW t \in Threads, ErasePeer(t) PROVE AnswerInv'
  BY <1>9 DEF ErasePeer, AnswerInv, StillHere, AnswersMatch, OfferInv, MakingInv, OneClient,
     OneAnswer, Answering, Making, Offering, Here
<1>10. ASSUME NEW t \in Threads, CreateOffer(t) PROVE AnswerInv'
  BY <1>10 DEF CreateOffer, AnswerInv, StillHere, AnswersMatch, OfferInv, MakingInv,
     OneClient, OneAnswer, Answering, Making, Offering, Here
<1>11. ASSUME NEW t \in Threads, OfferFailed(t) PROVE AnswerInv'
  BY <1>11 DEF OfferFailed, AnswerInv, StillHere, AnswersMatch, OfferInv, MakingInv,
     OneClient, OneAnswer, Answering, Making, Offering, Here
<1>12. ASSUME NEW t \in Threads, DispatchOffer(t) PROVE AnswerInv'
  BY <1>12 DEF DispatchOffer, SendOffer, AnswerInv, StillHere, AnswersMatch,
     OfferInv, MakingInv, OneClient, OneAnswer, Answering, Making, Offering,
     Here
<1>13. ASSUME NEW t \in Threads, RevertDispatch(t) PROVE AnswerInv'
  BY <1>13 DEF RevertDispatch, AnswerInv, StillHere, AnswersMatch, OfferInv, MakingInv,
     OneClient, OneAnswer, Answering, Making, Offering, Here
<1>14. ASSUME NEW t \in Threads, FlushCandidates(t) PROVE AnswerInv'
  BY <1>14 DEF FlushCandidates, FlushesCandidate, AnswerInv, StillHere, AnswersMatch,
     OfferInv, MakingInv, OneClient, OneAnswer, Answering, Making, Offering, Here
<1>15. ASSUME NEW t \in Threads, FallBack(t) PROVE AnswerInv'
  BY <1>15 DEF FallBack, Coalesce, AnswerInv, StillHere, AnswersMatch, OfferInv, MakingInv,
     OneClient, OneAnswer, Answering, Making, Offering, Here
<1>16. ASSUME NEW t \in Threads, CommitAnswer(t) PROVE AnswerInv'
  BY SMTT(20), <1>16 DEF CommitAnswer, AfterAnswer, AnswerInv, StillHere, AnswersMatch, OfferInv,
     MakingInv, OneClient, OneAnswer, Answering, Making, Offering, Here
<1>17. ASSUME NEW t \in Threads, ApplyDrained(t) PROVE AnswerInv'
  BY <1>17 DEF ApplyDrained, AddMail, Given, AfterDrain, AnswerInv, StillHere,
     AnswersMatch, OfferInv, MakingInv, OneClient, OneAnswer, Answering, Making,
     Offering, Here
<1>18. ASSUME NEW t \in Threads, RunQueued(t) PROVE AnswerInv'
  BY <1>18 DEF RunQueued, Unresolved, AnswerInv, StillHere, AnswersMatch, OfferInv,
     MakingInv, OneClient, OneAnswer, Answering, Making, Offering, Here
<1>19. ASSUME NEW t \in Threads, BeginMediaPlan(t) PROVE AnswerInv'
  BY <1>19 DEF BeginMediaPlan, Event, MustQueuePlan, Unresolved, AnswerInv, StillHere,
     AnswersMatch, OfferInv, MakingInv, OneClient, OneAnswer, Answering, Making, Offering,
     Here
<1>20. ASSUME NEW t \in Threads, EnsureTracks(t) PROVE AnswerInv'
  BY <1>20 DEF EnsureTracks, AnswerInv, StillHere, AnswersMatch, OfferInv, MakingInv,
     OneClient, OneAnswer, Answering, Making, Offering, Here
<1>21. ASSUME NEW t \in Threads, EndMediaPlan(t) PROVE AnswerInv'
  BY <1>21 DEF EndMediaPlan, AnswerInv, StillHere, AnswersMatch, OfferInv, MakingInv,
     OneClient, OneAnswer, Answering, Making, Offering, Here
<1>22. ASSUME NEW t \in Threads, StoreRemote(t) PROVE AnswerInv'
  BY <1>22 DEF StoreRemote, Here, AnswerInv, StillHere, AnswersMatch, OfferInv, MakingInv,
     OneClient, OneAnswer, Answering, Making, Offering, Here
<1>23. ASSUME NEW t \in Threads, AddRemote(t) PROVE AnswerInv'
  BY <1>23 DEF AddRemote, AddMail, Given, AnswerInv, StillHere, AnswersMatch,
     OfferInv, MakingInv, OneClient, OneAnswer, Answering, Making, Offering,
     Here
<1>24. ASSUME Connected PROVE AnswerInv'
  BY <1>24 DEF Connected, Event, LeaseFree, AnswerInv, StillHere, AnswersMatch, OfferInv,
     MakingInv, OneClient, OneAnswer, Answering, Making, Offering, Here
<1>25. ASSUME TransportFailed PROVE AnswerInv'
  BY <1>25 DEF TransportFailed, Event, LeaseFree, AnswerInv, StillHere, AnswersMatch,
     OfferInv, MakingInv, OneClient, OneAnswer, Answering, Making, Offering, Here
<1>26. ASSUME SendCandidate PROVE AnswerInv'
  BY <1>26 DEF SendCandidate, CandidateSent, SendsCandidate, AnswerInv,
     StillHere, AnswersMatch, OfferInv, MakingInv, OneClient, OneAnswer,
     Answering, Making, Offering, Here
<1>27. ASSUME NEW c \in Local, Gather(c) PROVE AnswerInv'
  BY <1>27 DEF Gather, AnswerInv, StillHere, AnswersMatch, OfferInv, MakingInv, OneClient,
     OneAnswer, Answering, Making, Offering, Here
<1>28. CASE UNCHANGED vars
  BY <1>28 DEF vars, AnswerInv, StillHere, AnswersMatch, OfferInv, MakingInv, OneClient,
     OneAnswer, Answering, Making, Offering, Here
<1>. QED
  BY <1>1, <1>2, <1>3, <1>4, <1>5, <1>6, <1>7, <1>8, <1>9, <1>10, <1>11, <1>12, <1>13,
     <1>14, <1>15, <1>16, <1>17, <1>18, <1>19, <1>20, <1>21, <1>22, <1>23, <1>24, <1>25,
     <1>26, <1>27, <1>28 DEF Next, SendOfferStep, AnswerStep, PlanStep, CandidateStep

-----------------------------------------------------------------------------
(***************************************************************************)
(* No offer is made over an unanswered one.                                *)
(***************************************************************************)
LEMMA VerdictStep ==
    TypeOK /\ MakingInv /\ OfferInv /\ AnswerInv /\ VerdictInv /\ [Next]_vars => VerdictInv'
<1>. SUFFICES ASSUME TypeOK, MakingInv, OfferInv, AnswerInv, VerdictInv, [Next]_vars PROVE
   VerdictInv'
  OBVIOUS
<1>0. FlagsTyped /\ StateTyped /\ ThreadsTyped /\ WireTyped
  BY DEF TypeOK
<1>1. ASSUME NEW t \in Threads, CommitAnswer(t) PROVE VerdictInv'
  <2>1. CASE ~removed /\ outcome[t] # "failed"
    <3>1. StillHere(t)
      BY <1>1 DEF CommitAnswer, AnswerInv, Answering
    <3>2. [offer |-> offerGen, verdict |-> outcome[t]] \in verdicts' /\ verdicts \subseteq verdicts'
      BY <1>1, <2>1, <3>1 DEF CommitAnswer
    <3>3. \E v \in verdicts' : v.offer = offerGen /\ v.verdict # "failed"
      BY <2>1, <3>2
    <3>. QED BY <1>1, <3>2, <3>3 DEF CommitAnswer, VerdictInv, wireVars
  <2>2. CASE removed \/ outcome[t] = "failed"
    <3>1. answered' = answered /\ verdicts \subseteq verdicts'
      BY <1>1, <2>2 DEF CommitAnswer
    <3>. QED BY <1>1, <3>1 DEF CommitAnswer, VerdictInv, wireVars
  <2>. QED BY <2>1, <2>2
<1>. USE <1>0 DEF Goto, StateTyped, ThreadsTyped, WireTyped, Sessions, negVars, candVars,
   givenVars, clientVars, threadVars, wireVars
<1>2. ASSUME NEW t \in Threads, Initialize(t) PROVE VerdictInv'
  BY <1>2 DEF Initialize, VerdictInv, AnswerInv, OfferInv, MakingInv, OneClient, OneAnswer,
     Answering, Making, Offering
<1>3. ASSUME NEW t \in Threads, AcceptAnswer(t) PROVE VerdictInv'
  BY <1>3 DEF AcceptAnswer, Event, Acceptable, Routed, Here, VerdictInv,
     AnswerInv, OfferInv, MakingInv, OneClient, OneAnswer, Answering, Making,
     Offering
<1>4. ASSUME NEW t \in Threads, HearCandidate(t) PROVE VerdictInv'
  BY <1>4 DEF HearCandidate, Routed, Event, Here, VerdictInv, AnswerInv,
     OfferInv, MakingInv, OneClient, OneAnswer, Answering, Making, Offering
<1>5. ASSUME NEW t \in Threads, RemovePeer(t) PROVE VerdictInv'
  BY <1>5 DEF RemovePeer, Event, VerdictInv, AnswerInv, OfferInv, MakingInv, OneClient,
     OneAnswer, Answering, Making, Offering
<1>6. ASSUME NEW t \in Threads, ErasePeer(t) PROVE VerdictInv'
  BY <1>6 DEF ErasePeer, VerdictInv, AnswerInv, OfferInv, MakingInv, OneClient, OneAnswer,
     Answering, Making, Offering
<1>7. ASSUME NEW t \in Threads, SendPeerOffer(t) PROVE VerdictInv'
  BY <1>7 DEF SendPeerOffer, Reserve, Coalesce, RotateTransport, MayReserve,
     RequestsRebuild, Event, ClientFree, Unresolved, VerdictInv, AnswerInv, OfferInv,
     MakingInv, OneClient, OneAnswer, Answering, Making, Offering
<1>8. ASSUME NEW t \in Threads, BuildTransport(t) PROVE VerdictInv'
  BY <1>8 DEF BuildTransport, VerdictInv, AnswerInv, OfferInv, MakingInv, OneClient,
     OneAnswer, Answering, Making, Offering
<1>9. ASSUME NEW t \in Threads, CreateOffer(t) PROVE VerdictInv'
  BY <1>9 DEF CreateOffer, VerdictInv, AnswerInv, OfferInv, MakingInv, OneClient, OneAnswer,
     Answering, Making, Offering
<1>10. ASSUME NEW t \in Threads, OfferFailed(t) PROVE VerdictInv'
  BY <1>10 DEF OfferFailed, VerdictInv, AnswerInv, OfferInv, MakingInv, OneClient,
     OneAnswer, Answering, Making, Offering
<1>11. ASSUME NEW t \in Threads, DispatchOffer(t) PROVE VerdictInv'
  BY <1>11 DEF DispatchOffer, SendOffer, VerdictInv, AnswerInv, OfferInv,
     MakingInv, OneClient, OneAnswer, Answering, Making, Offering
<1>12. ASSUME NEW t \in Threads, RevertDispatch(t) PROVE VerdictInv'
  BY <1>12 DEF RevertDispatch, VerdictInv, AnswerInv, OfferInv, MakingInv, OneClient,
     OneAnswer, Answering, Making, Offering
<1>13. ASSUME NEW t \in Threads, FlushCandidates(t) PROVE VerdictInv'
  BY <1>13 DEF FlushCandidates, FlushesCandidate, VerdictInv, AnswerInv, OfferInv,
     MakingInv, OneClient, OneAnswer, Answering, Making, Offering
<1>14. ASSUME NEW t \in Threads, FallBack(t) PROVE VerdictInv'
  BY <1>14 DEF FallBack, Coalesce, VerdictInv, AnswerInv, OfferInv, MakingInv, OneClient,
     OneAnswer, Answering, Making, Offering
<1>15. ASSUME NEW t \in Threads, ApplyAnswer(t) PROVE VerdictInv'
  BY <1>15 DEF ApplyAnswer, Describe, VerdictInv, AnswerInv, OfferInv,
     MakingInv, OneClient, OneAnswer, Answering, Making, Offering
<1>16. ASSUME NEW t \in Threads, DrainRemote(t) PROVE VerdictInv'
  BY <1>16 DEF DrainRemote, AfterDrain, Here, VerdictInv, AnswerInv, OfferInv, MakingInv,
     OneClient, OneAnswer, Answering, Making, Offering
<1>17. ASSUME NEW t \in Threads, ApplyDrained(t) PROVE VerdictInv'
  BY <1>17 DEF ApplyDrained, AddMail, Given, AfterDrain, VerdictInv, AnswerInv,
     OfferInv, MakingInv, OneClient, OneAnswer, Answering, Making, Offering
<1>18. ASSUME NEW t \in Threads, RunQueued(t) PROVE VerdictInv'
  BY <1>18 DEF RunQueued, Unresolved, VerdictInv, AnswerInv, OfferInv, MakingInv, OneClient,
     OneAnswer, Answering, Making, Offering
<1>19. ASSUME NEW t \in Threads, BeginMediaPlan(t) PROVE VerdictInv'
  BY <1>19 DEF BeginMediaPlan, Event, MustQueuePlan, Unresolved, VerdictInv, AnswerInv,
     OfferInv, MakingInv, OneClient, OneAnswer, Answering, Making, Offering
<1>20. ASSUME NEW t \in Threads, EnsureTracks(t) PROVE VerdictInv'
  BY <1>20 DEF EnsureTracks, VerdictInv, AnswerInv, OfferInv, MakingInv, OneClient,
     OneAnswer, Answering, Making, Offering
<1>21. ASSUME NEW t \in Threads, EndMediaPlan(t) PROVE VerdictInv'
  BY <1>21 DEF EndMediaPlan, VerdictInv, AnswerInv, OfferInv, MakingInv, OneClient,
     OneAnswer, Answering, Making, Offering
<1>22. ASSUME NEW t \in Threads, StoreRemote(t) PROVE VerdictInv'
  BY <1>22 DEF StoreRemote, Here, VerdictInv, AnswerInv, OfferInv, MakingInv, OneClient,
     OneAnswer, Answering, Making, Offering
<1>23. ASSUME NEW t \in Threads, AddRemote(t) PROVE VerdictInv'
  BY <1>23 DEF AddRemote, AddMail, Given, VerdictInv, AnswerInv, OfferInv,
     MakingInv, OneClient, OneAnswer, Answering, Making, Offering
<1>24. ASSUME Connected PROVE VerdictInv'
  BY <1>24 DEF Connected, Event, LeaseFree, VerdictInv, AnswerInv, OfferInv, MakingInv,
     OneClient, OneAnswer, Answering, Making, Offering
<1>25. ASSUME TransportFailed PROVE VerdictInv'
  BY <1>25 DEF TransportFailed, Event, LeaseFree, VerdictInv, AnswerInv, OfferInv,
     MakingInv, OneClient, OneAnswer, Answering, Making, Offering
<1>26. ASSUME SendCandidate PROVE VerdictInv'
  BY <1>26 DEF SendCandidate, CandidateSent, SendsCandidate, VerdictInv,
     AnswerInv, OfferInv, MakingInv, OneClient, OneAnswer, Answering, Making,
     Offering
<1>27. ASSUME NEW c \in Local, Gather(c) PROVE VerdictInv'
  BY <1>27 DEF Gather, VerdictInv, AnswerInv, OfferInv, MakingInv, OneClient, OneAnswer,
     Answering, Making, Offering
<1>28. CASE UNCHANGED vars
  BY <1>28 DEF vars, VerdictInv, AnswerInv, OfferInv, MakingInv, OneClient, OneAnswer,
     Answering, Making, Offering
<1>. QED
  BY <1>1, <1>2, <1>3, <1>4, <1>5, <1>6, <1>7, <1>8, <1>9, <1>10, <1>11, <1>12, <1>13,
     <1>14, <1>15, <1>16, <1>17, <1>18, <1>19, <1>20, <1>21, <1>22, <1>23, <1>24, <1>25,
     <1>26, <1>27, <1>28 DEF Next, SendOfferStep, AnswerStep, PlanStep, CandidateStep

-----------------------------------------------------------------------------
(***************************************************************************)
(* What a coalesced transition waits for.                                  *)
(***************************************************************************)
LEMMA QueuedStep == TypeOK /\ MakingInv /\ AnswerInv /\ QueuedInv /\ [Next]_vars => QueuedInv'
<1>. SUFFICES ASSUME TypeOK, MakingInv, AnswerInv, QueuedInv, [Next]_vars PROVE QueuedInv'
  OBVIOUS
<1>0. FlagsTyped /\ StateTyped /\ ThreadsTyped /\ WireTyped
  BY DEF TypeOK
<1>1. ASSUME NEW t \in Threads, CommitAnswer(t) PROVE QueuedInv'
  <2>1. StillHere(t) /\ answering /\ ~answered /\ ~answering'
    BY <1>1 DEF CommitAnswer, AnswerInv, MakingInv, Answering
  <2>2. (retired' => closed' \/ Refused' \/ (~answered' /\ ~dispatched' /\ ~answering'))
    <3>1. CASE ~removed /\ outcome[t] = "failed"
      <4>1. [offer |-> offerGen, verdict |-> "failed"] \in verdicts'
        BY <1>1, <2>1, <3>1 DEF CommitAnswer
      <4>. QED BY <4>1 DEF Refused
    <3>2. CASE removed \/ outcome[t] # "failed"
      <4>1. retired' = retired /\ verdicts \subseteq verdicts'
        BY <1>1, <3>2 DEF CommitAnswer
      <4>. QED BY <1>1, <2>1, <4>1 DEF CommitAnswer, QueuedInv, Refused
    <3>. QED BY <3>1, <3>2
  <2>3. CASE removed \/ queued = {}
    BY <1>1, <2>2, <2>3 DEF CommitAnswer, QueuedInv, Refused, MakingInv
  <2>4. CASE ~removed /\ queued # {} /\ outcome[t] = "failed"
    BY <1>1, <2>1, <2>2, <2>4 DEF CommitAnswer, QueuedInv, Refused
  <2>5. CASE ~removed /\ queued # {} /\ outcome[t] # "failed"
    <3>1. pc'[t] = "queue" \/ (pc'[t] = "drain" /\ outcome'[t] = "ok")
      BY <1>0, <1>1, <2>1, <2>5 DEF CommitAnswer, AfterAnswer, Goto, ThreadsTyped
    <3>. QED BY <2>2, <3>1 DEF QueuedInv, Refused
  <2>. QED BY <2>3, <2>4, <2>5
<1>2. ASSUME NEW t \in Threads, RunQueued(t) PROVE QueuedInv'
  <2>1. UNCHANGED <<removed, creating, answered, answering, planning, retired, dispatched, closed,
                    verdicts>>
    BY <1>2 DEF RunQueued, clientVars, givenVars
  <2>2. CASE queued' = {}
    BY <2>1, <2>2 DEF QueuedInv, Refused
  <2>3. CASE queued' # {}
    <3>1. removed \/ queued = {} \/ answering \/ planning \/ Unresolved
      BY <1>2, <2>3 DEF RunQueued
    <3>2. queued' = queued
      BY <1>2, <2>3 DEF RunQueued
    <3>. QED BY <2>1, <2>3, <3>1, <3>2 DEF QueuedInv, Refused, MakingInv, Unresolved
  <2>. QED BY <2>2, <2>3
<1>. USE <1>0 DEF Goto, StateTyped, ThreadsTyped, WireTyped, negVars, candVars, givenVars,
   clientVars, threadVars, wireVars
<1>3. ASSUME NEW t \in Threads, Initialize(t) PROVE QueuedInv'
  BY <1>3 DEF Initialize, QueuedInv, Refused, AnswerInv, MakingInv, OneClient, OneAnswer,
     Answering, Making, Offering
<1>4. ASSUME NEW t \in Threads, AcceptAnswer(t) PROVE QueuedInv'
  BY <1>4 DEF AcceptAnswer, Event, Acceptable, Routed, Here, QueuedInv, Refused,
     AnswerInv, MakingInv, OneClient, OneAnswer, Answering, Making, Offering
<1>5. ASSUME NEW t \in Threads, HearCandidate(t) PROVE QueuedInv'
  BY <1>5 DEF HearCandidate, Routed, Event, Here, QueuedInv, Refused, AnswerInv,
     MakingInv, OneClient, OneAnswer, Answering, Making, Offering
<1>6. ASSUME NEW t \in Threads, RemovePeer(t) PROVE QueuedInv'
  BY <1>6 DEF RemovePeer, Event, QueuedInv, Refused, AnswerInv, MakingInv, OneClient,
     OneAnswer, Answering, Making, Offering
<1>7. ASSUME NEW t \in Threads, ErasePeer(t) PROVE QueuedInv'
  BY <1>7 DEF ErasePeer, QueuedInv, Refused, AnswerInv, MakingInv, OneClient, OneAnswer,
     Answering, Making, Offering
<1>8. ASSUME NEW t \in Threads, SendPeerOffer(t) PROVE QueuedInv'
  BY <1>8 DEF SendPeerOffer, Reserve, Coalesce, RotateTransport, MayReserve,
     RequestsRebuild, Event, ClientFree, Unresolved, QueuedInv, Refused, AnswerInv,
     MakingInv, OneClient, OneAnswer, Answering, Making, Offering
<1>9. ASSUME NEW t \in Threads, BuildTransport(t) PROVE QueuedInv'
  BY <1>9 DEF BuildTransport, QueuedInv, Refused, AnswerInv, MakingInv, OneClient,
     OneAnswer, Answering, Making, Offering
<1>10. ASSUME NEW t \in Threads, CreateOffer(t) PROVE QueuedInv'
  BY <1>10 DEF CreateOffer, QueuedInv, Refused, AnswerInv, MakingInv, OneClient, OneAnswer,
     Answering, Making, Offering
<1>11. ASSUME NEW t \in Threads, OfferFailed(t) PROVE QueuedInv'
  BY <1>11 DEF OfferFailed, QueuedInv, Refused, AnswerInv, MakingInv, OneClient, OneAnswer,
     Answering, Making, Offering
<1>12. ASSUME NEW t \in Threads, DispatchOffer(t) PROVE QueuedInv'
  BY <1>12 DEF DispatchOffer, SendOffer, QueuedInv, Refused, AnswerInv,
     MakingInv, OneClient, OneAnswer, Answering, Making, Offering
<1>13. ASSUME NEW t \in Threads, RevertDispatch(t) PROVE QueuedInv'
  BY <1>13 DEF RevertDispatch, QueuedInv, Refused, AnswerInv, MakingInv, OneClient,
     OneAnswer, Answering, Making, Offering
<1>14. ASSUME NEW t \in Threads, FlushCandidates(t) PROVE QueuedInv'
  BY <1>14 DEF FlushCandidates, FlushesCandidate, QueuedInv, Refused, AnswerInv, MakingInv,
     OneClient, OneAnswer, Answering, Making, Offering
<1>15. ASSUME NEW t \in Threads, FallBack(t) PROVE QueuedInv'
  BY <1>15 DEF FallBack, Coalesce, QueuedInv, Refused, AnswerInv, MakingInv, OneClient,
     OneAnswer, Answering, Making, Offering
<1>16. ASSUME NEW t \in Threads, ApplyAnswer(t) PROVE QueuedInv'
  BY <1>16 DEF ApplyAnswer, Describe, QueuedInv, Refused, AnswerInv, MakingInv,
     OneClient, OneAnswer, Answering, Making, Offering
<1>17. ASSUME NEW t \in Threads, DrainRemote(t) PROVE QueuedInv'
  BY <1>17 DEF DrainRemote, AfterDrain, Here, QueuedInv, Refused, AnswerInv, MakingInv,
     OneClient, OneAnswer, Answering, Making, Offering
<1>18. ASSUME NEW t \in Threads, ApplyDrained(t) PROVE QueuedInv'
  BY <1>18 DEF ApplyDrained, AddMail, Given, AfterDrain, QueuedInv, Refused,
     AnswerInv, MakingInv, OneClient, OneAnswer, Answering, Making, Offering
<1>19. ASSUME NEW t \in Threads, BeginMediaPlan(t) PROVE QueuedInv'
  BY <1>19 DEF BeginMediaPlan, Event, MustQueuePlan, Unresolved, QueuedInv, Refused,
     AnswerInv, MakingInv, OneClient, OneAnswer, Answering, Making, Offering
<1>20. ASSUME NEW t \in Threads, EnsureTracks(t) PROVE QueuedInv'
  BY <1>20 DEF EnsureTracks, QueuedInv, Refused, AnswerInv, MakingInv, OneClient, OneAnswer,
     Answering, Making, Offering
<1>21. ASSUME NEW t \in Threads, EndMediaPlan(t) PROVE QueuedInv'
  BY <1>21 DEF EndMediaPlan, QueuedInv, Refused, AnswerInv, MakingInv, OneClient, OneAnswer,
     Answering, Making, Offering
<1>22. ASSUME NEW t \in Threads, StoreRemote(t) PROVE QueuedInv'
  BY <1>22 DEF StoreRemote, Here, QueuedInv, Refused, AnswerInv, MakingInv, OneClient,
     OneAnswer, Answering, Making, Offering
<1>23. ASSUME NEW t \in Threads, AddRemote(t) PROVE QueuedInv'
  BY <1>23 DEF AddRemote, AddMail, Given, QueuedInv, Refused, AnswerInv,
     MakingInv, OneClient, OneAnswer, Answering, Making, Offering
<1>24. ASSUME Connected PROVE QueuedInv'
  BY <1>24 DEF Connected, Event, LeaseFree, QueuedInv, Refused, AnswerInv, MakingInv,
     OneClient, OneAnswer, Answering, Making, Offering
<1>25. ASSUME TransportFailed PROVE QueuedInv'
  BY <1>25 DEF TransportFailed, Event, LeaseFree, QueuedInv, Refused, AnswerInv, MakingInv,
     OneClient, OneAnswer, Answering, Making, Offering
<1>26. ASSUME SendCandidate PROVE QueuedInv'
  BY <1>26 DEF SendCandidate, CandidateSent, SendsCandidate, QueuedInv, Refused,
     AnswerInv, MakingInv, OneClient, OneAnswer, Answering, Making, Offering
<1>27. ASSUME NEW c \in Local, Gather(c) PROVE QueuedInv'
  BY <1>27 DEF Gather, QueuedInv, Refused, AnswerInv, MakingInv, OneClient, OneAnswer,
     Answering, Making, Offering
<1>28. CASE UNCHANGED vars
  BY <1>28 DEF vars, QueuedInv, Refused, AnswerInv, MakingInv, OneClient, OneAnswer,
     Answering, Making, Offering
<1>. QED
  BY <1>1, <1>2, <1>3, <1>4, <1>5, <1>6, <1>7, <1>8, <1>9, <1>10, <1>11, <1>12, <1>13,
     <1>14, <1>15, <1>16, <1>17, <1>18, <1>19, <1>20, <1>21, <1>22, <1>23, <1>24, <1>25,
     <1>26, <1>27, <1>28 DEF Next, SendOfferStep, AnswerStep, PlanStep, CandidateStep

-----------------------------------------------------------------------------
(***************************************************************************)
(* Where a remote candidate may be.                                        *)
(***************************************************************************)
\* What a thread adds to the transport under clientOperationMutex is of its session.
LEMMA AddsMatching ==
    ASSUME TypeOK, MakingInv, OfferInv, AnswerInv, RemoteInv, NEW t \in Threads,
           pc[t] \in {"add", "drained"}, AddMail(t), \E label \in {"idle", "queue"} : Goto(t, label)
    PROVE  RemoteInv'
<1>0. StateTyped /\ ThreadsTyped /\ WireTyped
  BY DEF TypeOK
<1>1. UNCHANGED <<heard, answers, fellBack, offers, transport, session, offerGen, pendingRemote>>
  BY DEF AddMail, Given, wireVars, negVars, candVars
<1>2. \A c \in mail[t] : HeardFor(c, ctx[t].session)
  BY DEF RemoteInv, CarriedInv
<1>3. applied' = applied \/ (applied' = applied \cup mail[t] /\ ctx[t].session = session)
  BY DEF AddMail, Given, Routes
<1>4. HeardInv'
  BY <1>1, <1>2, <1>3 DEF RemoteInv, HeardInv, HeardFor
<1>5. RemoteCandidatesMatch'
  <2>1. applied' # {} => AfterItsAnswer
    BY <1>3 DEF RemoteInv, CarriedInv, RemoteCandidatesMatch, AfterItsAnswer
  <2>2. ASSUME NEW h \in heard, NEW o \in offers, h.cand \in mail[t], h.session = o.session,
               ctx[t].session = session
        PROVE  o.transport = transport
    <3>1. PICK k \in heard : k.cand = h.cand /\ k.session \in {0, session}
      BY <1>2, <2>2 DEF HeardFor
    <3>2. k = h
      BY <2>2, <3>1 DEF RemoteInv, HeardInv
    <3>3. o.session # 0
      BY <1>0, <2>2 DEF WireTyped, Sessions
    <3>. QED BY <2>2, <3>1, <3>2, <3>3 DEF OfferInv
  <2>3. ASSUME NEW h \in heard, NEW o \in offers, h.cand \in applied', h.session = o.session
        PROVE  o.transport = transport
    BY <1>3, <2>2, <2>3 DEF RemoteInv, RemoteCandidatesMatch
  <2>. QED BY <1>1, <2>1, <2>3 DEF RemoteCandidatesMatch, AfterItsAnswer
<1>6. pc'[t] \in {"idle", "queue"}
        /\ \A u \in Threads \ {t} : pc'[u] = pc[u] /\ ctx'[u] = ctx[u] /\ mail'[u] = mail[u]
  BY <1>0 DEF AddMail, Given, Goto, ThreadsTyped
<1>7. CarriedInv' /\ LateInv' /\ WaitingInv'
  BY <1>1, <1>6 DEF RemoteInv, CarriedInv, LateInv, WaitingInv, HeardFor, AfterItsAnswer
<1>. QED BY <1>4, <1>5, <1>7 DEF RemoteInv

LEMMA RemoteStep ==
    TypeOK /\ MakingInv /\ OfferInv /\ AnswerInv /\ RemoteInv /\ [Next]_vars => RemoteInv'
<1>. SUFFICES ASSUME TypeOK, MakingInv, OfferInv, AnswerInv, RemoteInv, [Next]_vars PROVE
   RemoteInv'
  OBVIOUS
<1>0. FlagsTyped /\ StateTyped /\ ThreadsTyped /\ WireTyped /\ QueuesTyped
  BY DEF TypeOK
<1>1. ASSUME NEW t \in Threads, HearCandidate(t) PROVE RemoteInv'
  <2>1. PICK c \in Remote, m \in offers :
           /\ \A h \in heard : h.cand # c
           /\ heard' = heard \cup {[cand |-> c, session |-> m.session]}
           /\ IF m.session # session
              THEN UNCHANGED <<pc, ctx, mail>>
              ELSE /\ mail' = [mail EXCEPT ![t] = {c}]
                   /\ ctx' = [ctx EXCEPT ![t] = Here(m.session)]
                   /\ pc' = [pc EXCEPT ![t] = IF QueuesRemote THEN "store" ELSE "add"]
    BY <1>1 DEF HearCandidate, Routed
  <2>2. UNCHANGED <<applied, answers, offers, transport, session, offerGen, fellBack, pendingRemote>>
    BY <1>1 DEF HearCandidate, Routed, clientVars, givenVars, negVars, candVars
  <2>3. \A k \in Remote, s \in 0 .. MaxSession : HeardFor(k, s) => HeardFor(k, s)'
    BY <2>1 DEF HeardFor
  <2>4. HeardInv'
    BY <2>1, <2>2 DEF RemoteInv, HeardInv
  <2>5. RemoteCandidatesMatch'
    BY <2>1, <2>2 DEF RemoteInv, HeardInv, RemoteCandidatesMatch
  <2>6. WaitingInv'
    BY <1>0, <2>2, <2>3, WaitingTyped DEF RemoteInv, WaitingInv
  <2>7. CASE m.session # session
    <3>1. CarriedInv' /\ LateInv'
      BY <1>0, <2>1, <2>2, <2>3, <2>7
         DEF RemoteInv, CarriedInv, LateInv, AfterItsAnswer, ThreadsTyped, Contexts, Sessions
    <3>. QED BY <2>4, <2>5, <2>6, <3>1 DEF RemoteInv
  <2>8. CASE m.session = session
    <3>1. /\ mail'[t] = {c} /\ ctx'[t].session = session
          /\ pc'[t] = IF QueuesRemote THEN "store" ELSE "add"
      BY <1>0, <2>1, <2>8 DEF ThreadsTyped, Here
    <3>2. \A u \in Threads \ {t} : pc'[u] = pc[u] /\ ctx'[u] = ctx[u] /\ mail'[u] = mail[u]
      BY <1>0, <2>1, <2>8 DEF ThreadsTyped
    <3>3. HeardFor(c, session)'
      <4>1. [cand |-> c, session |-> session] \in heard'
        BY <2>1, <2>8
      <4>. QED BY <2>2, <4>1 DEF HeardFor
    <3>4. ~QueuesRemote => AfterItsAnswer /\ \A u \in Threads : pc[u] # "build"
      BY <1>0 DEF QueuesRemote, AnswerInv, AfterItsAnswer, MakingInv, Making
    <3>5. CarriedInv'
      BY <1>0, <2>2, <2>3, <3>1, <3>2, <3>3, <3>4
         DEF RemoteInv, CarriedInv, AfterItsAnswer, ThreadsTyped, Contexts, Sessions
    <3>6. LateInv'
      BY <1>0, <2>2, <3>1, <3>2, <3>4 DEF RemoteInv, LateInv, ThreadsTyped
    <3>. QED BY <2>4, <2>5, <2>6, <3>5, <3>6 DEF RemoteInv
  <2>. QED BY <2>7, <2>8
<1>2. ASSUME NEW t \in Threads, ErasePeer(t) PROVE RemoteInv'
  <2>1. \A s \in 0 .. MaxSession : ToSet(pendingRemote'[s]) = {}
    BY <1>2 DEF ErasePeer, NothingPending, ToSet
  <2>2. pc'[t] = "idle" /\ \A u \in Threads \ {t} : pc'[u] = pc[u] /\ ctx'[u] = ctx[u]
    BY <1>0, <1>2 DEF ErasePeer, Goto, ThreadsTyped
  <2>. QED
    BY SMTT(20), <1>2, <2>1, <2>2 DEF ErasePeer, RemoteInv, HeardInv, CarriedInv, LateInv, WaitingInv,
           HeardFor, AfterItsAnswer, RemoteCandidatesMatch, negVars, clientVars, givenVars, wireVars
<1>3. ASSUME NEW t \in Threads, SendPeerOffer(t) PROVE RemoteInv'
  <2>1. UNCHANGED <<heard, applied, answers, fellBack, offers, transport, mail>>
    BY <1>3 DEF SendPeerOffer, wireVars, clientVars, givenVars
  <2>2. HeardInv' /\ RemoteCandidatesMatch'
    BY <2>1 DEF RemoteInv, HeardInv, RemoteCandidatesMatch
  <2>3. WaitingInv'
    <3>1. pendingRemote' \in {pendingRemote, [pendingRemote EXCEPT ![session] = <<>>]}
      BY <1>3 DEF SendPeerOffer, Reserve, RotateTransport
    <3>2. \A s \in 0 .. MaxSession : ToSet(pendingRemote'[s]) \subseteq ToSet(pendingRemote[s])
      <4>1. ToSet(<<>>) = {}
        BY DEF ToSet
      <4>. QED BY <1>0, <3>1, <4>1 DEF QueuesTyped
    <3>. QED BY <2>1, <3>2 DEF RemoteInv, WaitingInv, HeardFor
  <2>4. CASE Goto(t, "idle") /\ UNCHANGED <<offerGen, session>>
    <3>1. pc'[t] = "idle" /\ \A u \in Threads \ {t} : pc'[u] = pc[u] /\ ctx'[u] = ctx[u]
      BY <1>0, <2>4 DEF Goto, ThreadsTyped
    <3>2. CarriedInv' /\ LateInv'
      BY <2>1, <2>4, <3>1 DEF RemoteInv, CarriedInv, LateInv, HeardFor, AfterItsAnswer
    <3>. QED BY <2>2, <2>3, <3>2 DEF RemoteInv
  <2>5. CASE Reserve(t, RequestsRebuild(t))
    <3>1. \A u \in Threads : pc[u] # "build"
      BY <1>3 DEF SendPeerOffer, ClientFree, Offering
    <3>2. ctx' = ctx /\ \A u \in Threads \ {t} : pc'[u] = pc[u]
      BY <1>0, <2>5 DEF Reserve, Goto, ThreadsTyped
    <3>3. pc'[t] \in {"build", "create"} /\ (pc'[t] = "create" => session' = session)
      BY <1>0, <2>5 DEF Reserve, Goto, ThreadsTyped
    <3>4. session' \in {session, session + 1} /\ (pc'[t] = "build" => session' = session + 1)
      BY <1>0, <2>5 DEF Reserve, RotateTransport, Goto, ThreadsTyped
    <3>5. \A u \in Threads : ctx[u].session \in Nat /\ ctx[u].session < session + 1
                               /\ ctx[u].offer \in Nat /\ ctx[u].offer < offerGen'
      BY <1>0, <2>5 DEF Reserve, OfferInv, StateTyped, ThreadsTyped, Contexts, Sessions
    <3>6. session \in Nat /\ offerGen' \in Nat
      BY <1>0, <2>5 DEF Reserve, StateTyped, Sessions
    <3>7. CarriedInv'
      BY <2>1, <3>2, <3>3, <3>4, <3>5, <3>6 DEF RemoteInv, CarriedInv, HeardFor, AfterItsAnswer
    <3>8. LateInv'
      BY <3>1, <3>2, <3>3, <3>4, <3>5, <3>6 DEF LateInv
    <3>. QED BY <2>2, <2>3, <3>7, <3>8 DEF RemoteInv
  <2>. QED BY <1>3, <2>4, <2>5 DEF SendPeerOffer, negVars
<1>4. ASSUME NEW t \in Threads, DrainRemote(t) PROVE RemoteInv'
  <2>1. UNCHANGED <<heard, applied, answers, fellBack, offers, transport, session, offerGen>>
    BY <1>4 DEF DrainRemote, wireVars, clientVars, givenVars, negVars
  <2>2. HeardInv' /\ RemoteCandidatesMatch'
    BY <2>1 DEF RemoteInv, HeardInv, RemoteCandidatesMatch
  <2>3. WaitingInv'
    <3>1. pendingRemote' \in {pendingRemote, [pendingRemote EXCEPT ![0] = <<>>, ![session] = <<>>]}
      BY <1>4 DEF DrainRemote
    <3>2. \A s \in 0 .. MaxSession : ToSet(pendingRemote'[s]) \subseteq ToSet(pendingRemote[s])
      BY <1>0, <3>1 DEF QueuesTyped, ToSet
    <3>. QED BY <2>1, <3>2 DEF RemoteInv, WaitingInv, HeardFor
  <2>4. \A u \in Threads \ {t} : pc'[u] = pc[u] /\ ctx'[u] = ctx[u] /\ mail'[u] = mail[u]
    BY <1>0, <1>4 DEF DrainRemote, Goto, ThreadsTyped
  <2>5. CASE offerGen = ctx[t].offer /\ pc'[t] = "drained" /\ ctx'[t] = Here(0)
             /\ mail'[t] \subseteq {p.cand : p \in Drained}
    <3>1. \A c \in mail'[t] : HeardFor(c, session)
      <4>1. 0 \in 0 .. MaxSession /\ session \in 0 .. MaxSession
        BY <1>0 DEF StateTyped, Sessions
      <4>. QED BY <2>5, <4>1 DEF Drained, RemoteInv, WaitingInv, HeardFor
    <3>2. AfterItsAnswer /\ \A u \in Threads : pc[u] # "build"
      BY <1>4, <2>5 DEF DrainRemote, RemoteInv, CarriedInv, LateInv
    <3>3. ctx'[t].session = session
      BY <2>5 DEF Here
    <3>4. CarriedInv' /\ LateInv'
      BY <2>1, <2>4, <2>5, <3>1, <3>2, <3>3
         DEF RemoteInv, CarriedInv, LateInv, HeardFor, AfterItsAnswer
    <3>. QED BY <2>2, <2>3, <3>4 DEF RemoteInv
  <2>6. CASE pc'[t] \in {"queue", "idle"}
    <3>1. CarriedInv' /\ LateInv'
      BY <2>1, <2>4, <2>6 DEF RemoteInv, CarriedInv, LateInv, HeardFor, AfterItsAnswer
    <3>. QED BY <2>2, <2>3, <3>1 DEF RemoteInv
  <2>. QED BY <1>0, <1>4, <2>5, <2>6 DEF DrainRemote, AfterDrain, Goto, ThreadsTyped
<1>5. ASSUME NEW t \in Threads, ApplyDrained(t) PROVE RemoteInv'
  BY <1>0, <1>5, AddsMatching DEF ApplyDrained, AfterDrain
<1>6. ASSUME NEW t \in Threads, StoreRemote(t) PROVE RemoteInv'
  <2>1. UNCHANGED <<heard, applied, answers, fellBack, offers, transport, session, offerGen>>
    BY <1>6 DEF StoreRemote, wireVars, clientVars, givenVars, negVars
  <2>2. HeardInv' /\ RemoteCandidatesMatch'
    BY <2>1 DEF RemoteInv, HeardInv, RemoteCandidatesMatch
  <2>3. \A u \in Threads \ {t} : pc'[u] = pc[u] /\ ctx'[u] = ctx[u] /\ mail'[u] = mail[u]
    BY <1>0, <1>6 DEF StoreRemote, Goto, ThreadsTyped
  <2>4. \A c \in mail[t] : HeardFor(c, ctx[t].session)
    BY <1>6 DEF StoreRemote, RemoteInv, CarriedInv
  <2>5. CASE pc'[t] = "idle" /\ UNCHANGED pendingRemote
    BY <2>1, <2>2, <2>3, <2>5 DEF RemoteInv, CarriedInv, LateInv, WaitingInv, HeardFor,
       AfterItsAnswer
  <2>6. CASE pc'[t] = "idle" /\ session = ctx[t].session
             /\ pendingRemote' = [pendingRemote EXCEPT ![session] = Queued(@, Entry(t))]
    <3>1. CarriedInv' /\ LateInv'
      BY <2>1, <2>3, <2>6 DEF RemoteInv, CarriedInv, LateInv, HeardFor, AfterItsAnswer
    <3>2. Entry(t) \in Pending /\ Entry(t).cand \in mail[t]
      <4>1. pc[t] = "store"
        BY <1>6 DEF StoreRemote
      <4>2. mail[t] # {} /\ mail[t] \subseteq Remote
        BY <1>0, <4>1 DEF QueuesTyped, ThreadsTyped
      <4>. QED BY <1>0, <4>2 DEF Entry, Pending, StateTyped
    <3>3. pendingRemote[session] \in Seq(Pending)
      BY <1>0 DEF QueuesTyped, StateTyped, Sessions
    <3>4. ToSet(Queued(pendingRemote[session], Entry(t)))
             \subseteq ToSet(pendingRemote[session]) \cup {Entry(t)}
      BY <3>2, <3>3, QueuedAdds
    <3>5. \A s \in 0 .. MaxSession : \A p \in ToSet(pendingRemote'[s]) :
             p \in ToSet(pendingRemote[s]) \/ (s = session /\ p = Entry(t))
      BY <1>0, <2>6, <3>4 DEF QueuesTyped
    <3>6. WaitingInv'
      BY <2>1, <2>4, <2>6, <3>2, <3>5 DEF RemoteInv, WaitingInv, HeardFor
    <3>. QED BY <2>2, <3>1, <3>6 DEF RemoteInv
  <2>7. CASE pc'[t] = "add" /\ ~QueuesRemote /\ session = ctx[t].session
             /\ ctx'[t] = Here(ctx[t].wire) /\ UNCHANGED <<mail, pendingRemote>>
    <3>1. AfterItsAnswer /\ \A u \in Threads : pc[u] # "build"
      BY <1>0, <2>7 DEF QueuesRemote, AnswerInv, AfterItsAnswer, MakingInv, Making
    <3>2. ctx'[t].session = session
      BY <2>7 DEF Here
    <3>. QED BY <2>1, <2>2, <2>3, <2>4, <2>7, <3>1, <3>2
             DEF RemoteInv, CarriedInv, LateInv, WaitingInv, HeardFor, AfterItsAnswer
  <2>. QED
    BY <1>0, <1>6, <2>5, <2>6, <2>7 DEF StoreRemote, StillQueuesRemote, Goto, ThreadsTyped
<1>7. ASSUME NEW t \in Threads, AddRemote(t) PROVE RemoteInv'
  BY <1>0, <1>7, AddsMatching DEF AddRemote
<1>. USE <1>0 DEF Goto, StateTyped, ThreadsTyped, WireTyped, Sessions, negVars, candVars,
   givenVars, clientVars, threadVars, wireVars
<1>8. ASSUME NEW t \in Threads, Initialize(t) PROVE RemoteInv'
  BY <1>8 DEF Initialize, RemoteInv, HeardInv, CarriedInv, LateInv, WaitingInv, HeardFor,
     AfterItsAnswer, RemoteCandidatesMatch, OfferInv, AnswerInv, MakingInv, OneClient,
     Answering, Making, Offering
<1>9. ASSUME NEW t \in Threads, AcceptAnswer(t) PROVE RemoteInv'
  BY <1>9 DEF AcceptAnswer, Event, Acceptable, Routed, Here, RemoteInv,
     HeardInv, CarriedInv, LateInv, WaitingInv, HeardFor, AfterItsAnswer,
     RemoteCandidatesMatch, OfferInv, AnswerInv, MakingInv, OneClient,
     Answering, Making, Offering
<1>10. ASSUME NEW t \in Threads, RemovePeer(t) PROVE RemoteInv'
  BY <1>10 DEF RemovePeer, Event, RemoteInv, HeardInv, CarriedInv, LateInv, WaitingInv,
     HeardFor, AfterItsAnswer, RemoteCandidatesMatch, OfferInv, AnswerInv, MakingInv,
     OneClient, Answering, Making, Offering
<1>11. ASSUME NEW t \in Threads, BuildTransport(t) PROVE RemoteInv'
  BY <1>11 DEF BuildTransport, RemoteInv, HeardInv, CarriedInv, LateInv, WaitingInv,
     HeardFor, AfterItsAnswer, RemoteCandidatesMatch, OfferInv, AnswerInv, MakingInv,
     OneClient, Answering, Making, Offering
<1>12. ASSUME NEW t \in Threads, CreateOffer(t) PROVE RemoteInv'
  BY <1>12 DEF CreateOffer, RemoteInv, HeardInv, CarriedInv, LateInv, WaitingInv, HeardFor,
     AfterItsAnswer, RemoteCandidatesMatch, OfferInv, AnswerInv, MakingInv, OneClient,
     Answering, Making, Offering
<1>13. ASSUME NEW t \in Threads, OfferFailed(t) PROVE RemoteInv'
  BY <1>13 DEF OfferFailed, RemoteInv, HeardInv, CarriedInv, LateInv, WaitingInv, HeardFor,
     AfterItsAnswer, RemoteCandidatesMatch, OfferInv, AnswerInv, MakingInv, OneClient,
     Answering, Making, Offering
<1>14. ASSUME NEW t \in Threads, DispatchOffer(t) PROVE RemoteInv'
  BY <1>14 DEF DispatchOffer, SendOffer, RemoteInv, HeardInv, CarriedInv,
     LateInv, WaitingInv, HeardFor, AfterItsAnswer, RemoteCandidatesMatch,
     OfferInv, AnswerInv, MakingInv, OneClient, Answering, Making, Offering
<1>15. ASSUME NEW t \in Threads, RevertDispatch(t) PROVE RemoteInv'
  BY <1>15 DEF RevertDispatch, RemoteInv, HeardInv, CarriedInv, LateInv, WaitingInv,
     HeardFor, AfterItsAnswer, RemoteCandidatesMatch, OfferInv, AnswerInv, MakingInv,
     OneClient, Answering, Making, Offering
<1>16. ASSUME NEW t \in Threads, FlushCandidates(t) PROVE RemoteInv'
  BY <1>16 DEF FlushCandidates, FlushesCandidate, RemoteInv, HeardInv, CarriedInv, LateInv,
     WaitingInv, HeardFor, AfterItsAnswer, RemoteCandidatesMatch, OfferInv, AnswerInv,
     MakingInv, OneClient, Answering, Making, Offering
<1>17. ASSUME NEW t \in Threads, FallBack(t) PROVE RemoteInv'
  BY <1>17 DEF FallBack, Coalesce, RemoteInv, HeardInv, CarriedInv, LateInv, WaitingInv,
     HeardFor, AfterItsAnswer, RemoteCandidatesMatch, OfferInv, AnswerInv, MakingInv,
     OneClient, Answering, Making, Offering
<1>18. ASSUME NEW t \in Threads, ApplyAnswer(t) PROVE RemoteInv'
  BY <1>18 DEF ApplyAnswer, Describe, RemoteInv, HeardInv, CarriedInv, LateInv,
     WaitingInv, HeardFor, AfterItsAnswer, RemoteCandidatesMatch, OfferInv,
     AnswerInv, MakingInv, OneClient, Answering, Making, Offering
<1>19. ASSUME NEW t \in Threads, CommitAnswer(t) PROVE RemoteInv'
  BY <1>19 DEF CommitAnswer, AfterAnswer, RemoteInv, HeardInv, CarriedInv, LateInv,
     WaitingInv, HeardFor, AfterItsAnswer, RemoteCandidatesMatch, OfferInv, AnswerInv,
     MakingInv, OneClient, Answering, Making, Offering
<1>20. ASSUME NEW t \in Threads, RunQueued(t) PROVE RemoteInv'
  BY <1>20 DEF RunQueued, Unresolved, RemoteInv, HeardInv, CarriedInv, LateInv, WaitingInv,
     HeardFor, AfterItsAnswer, RemoteCandidatesMatch, OfferInv, AnswerInv, MakingInv,
     OneClient, Answering, Making, Offering
<1>21. ASSUME NEW t \in Threads, BeginMediaPlan(t) PROVE RemoteInv'
  BY <1>21 DEF BeginMediaPlan, Event, MustQueuePlan, Unresolved, RemoteInv, HeardInv,
     CarriedInv, LateInv, WaitingInv, HeardFor, AfterItsAnswer, RemoteCandidatesMatch,
     OfferInv, AnswerInv, MakingInv, OneClient, Answering, Making, Offering
<1>22. ASSUME NEW t \in Threads, EnsureTracks(t) PROVE RemoteInv'
  BY <1>22 DEF EnsureTracks, RemoteInv, HeardInv, CarriedInv, LateInv, WaitingInv, HeardFor,
     AfterItsAnswer, RemoteCandidatesMatch, OfferInv, AnswerInv, MakingInv, OneClient,
     Answering, Making, Offering
<1>23. ASSUME NEW t \in Threads, EndMediaPlan(t) PROVE RemoteInv'
  BY <1>23 DEF EndMediaPlan, RemoteInv, HeardInv, CarriedInv, LateInv, WaitingInv, HeardFor,
     AfterItsAnswer, RemoteCandidatesMatch, OfferInv, AnswerInv, MakingInv, OneClient,
     Answering, Making, Offering
<1>24. ASSUME Connected PROVE RemoteInv'
  BY <1>24 DEF Connected, Event, LeaseFree, RemoteInv, HeardInv, CarriedInv, LateInv,
     WaitingInv, HeardFor, AfterItsAnswer, RemoteCandidatesMatch, OfferInv, AnswerInv,
     MakingInv, OneClient, Answering, Making, Offering
<1>25. ASSUME TransportFailed PROVE RemoteInv'
  BY <1>25 DEF TransportFailed, Event, LeaseFree, RemoteInv, HeardInv, CarriedInv, LateInv,
     WaitingInv, HeardFor, AfterItsAnswer, RemoteCandidatesMatch, OfferInv, AnswerInv,
     MakingInv, OneClient, Answering, Making, Offering
<1>26. ASSUME SendCandidate PROVE RemoteInv'
  BY <1>26 DEF SendCandidate, CandidateSent, SendsCandidate, RemoteInv,
     HeardInv, CarriedInv, LateInv, WaitingInv, HeardFor, AfterItsAnswer,
     RemoteCandidatesMatch, OfferInv, AnswerInv, MakingInv, OneClient,
     Answering, Making, Offering
<1>27. ASSUME NEW c \in Local, Gather(c) PROVE RemoteInv'
  BY <1>27 DEF Gather, RemoteInv, HeardInv, CarriedInv, LateInv, WaitingInv, HeardFor,
     AfterItsAnswer, RemoteCandidatesMatch, OfferInv, AnswerInv, MakingInv, OneClient,
     Answering, Making, Offering
<1>28. CASE UNCHANGED vars
  BY <1>28 DEF vars, RemoteInv, HeardInv, CarriedInv, LateInv, WaitingInv, HeardFor,
     AfterItsAnswer, RemoteCandidatesMatch, OfferInv, AnswerInv, MakingInv, OneClient,
     Answering, Making, Offering
<1>. QED
  BY <1>1, <1>2, <1>3, <1>4, <1>5, <1>6, <1>7, <1>8, <1>9, <1>10, <1>11, <1>12, <1>13,
     <1>14, <1>15, <1>16, <1>17, <1>18, <1>19, <1>20, <1>21, <1>22, <1>23, <1>24, <1>25,
     <1>26, <1>27, <1>28 DEF Next, SendOfferStep, AnswerStep, PlanStep, CandidateStep

-----------------------------------------------------------------------------
(***************************************************************************)
(* What comes for a candidate that waits.                                  *)
(***************************************************************************)
LEMMA WaitsStep ==
    TypeOK /\ MakingInv /\ AnswerInv /\ WaitsForSomeone /\ [Next]_vars => WaitsForSomeone'
<1>. SUFFICES ASSUME TypeOK, MakingInv, AnswerInv, WaitsForSomeone, [Next]_vars PROVE
   WaitsForSomeone'
  OBVIOUS
<1>0. FlagsTyped /\ StateTyped /\ ThreadsTyped /\ QueuesTyped
  BY DEF TypeOK
<1>1. ASSUME NEW t \in Threads, CommitAnswer(t) PROVE WaitsForSomeone'
  <2>1. StillHere(t) /\ ~answered /\ dispatched' = dispatched
    BY <1>1 DEF CommitAnswer, AnswerInv, MakingInv, Answering
  <2>2. UNCHANGED <<pendingRemote, session, transportGen, offerGen, mapped, removed, queued,
                    creating, initializing>>
    BY <1>1 DEF CommitAnswer, candVars
  <2>3. CASE removed
    BY <2>2, <2>3 DEF WaitsForSomeone
  <2>4. CASE ~removed /\ outcome[t] = "failed"
    <3>1. ~answered'
      BY <1>1, <2>1, <2>4 DEF CommitAnswer
    <3>. QED BY <3>1 DEF WaitsForSomeone, QueuesRemote
  <2>5. CASE ~removed /\ outcome[t] = "fallback"
    BY <1>1, <2>2, <2>5 DEF CommitAnswer, AnswerInv, WaitsForSomeone
  <2>6. CASE ~removed /\ outcome[t] = "ok"
    <3>1. pc'[t] = "drain" /\ ctx'[t] = ctx[t]
      BY <1>0, <1>1, <2>1, <2>6 DEF CommitAnswer, AfterAnswer, Goto, ThreadsTyped
    <3>2. ctx[t].offer = offerGen /\ ctx[t].transport = transportGen
      BY <2>1 DEF StillHere, Here
    <3>3. ComesForIt(t)'
      BY <2>2, <3>1, <3>2 DEF ComesForIt
    <3>. QED BY <3>3 DEF WaitsForSomeone
  <2>. QED BY <1>1, <2>3, <2>4, <2>5, <2>6 DEF CommitAnswer, AnswerInv
<1>2. ASSUME NEW t \in Threads, DrainRemote(t) PROVE WaitsForSomeone'
  <2>1. UNCHANGED <<session, transportGen, offerGen, mapped, removed, queued, QueuesRemote>>
    BY <1>2 DEF DrainRemote, negVars, QueuesRemote
  <2>2. \A u \in Threads \ {t} : ComesForIt(u) => ComesForIt(u)'
    BY <1>0, <1>2, <2>1 DEF DrainRemote, Goto, ThreadsTyped, ComesForIt
  <2>3. CASE mapped /\ ~removed /\ offerGen = ctx[t].offer /\ transportGen = ctx[t].transport
    <3>1. ToSet(pendingRemote'[session]) = {}
      BY <1>0, <1>2, <2>3 DEF DrainRemote, QueuesTyped, StateTyped, Sessions, ToSet
    <3>. QED BY <2>1, <3>1 DEF WaitsForSomeone
  <2>4. CASE ~(mapped /\ ~removed /\ offerGen = ctx[t].offer /\ transportGen = ctx[t].transport)
    <3>1. UNCHANGED pendingRemote
      BY <1>2, <2>4 DEF DrainRemote
    <3>2. mapped /\ ~removed => ~ComesForIt(t)
      BY <1>2, <2>4 DEF DrainRemote, ComesForIt
    <3>. QED BY <2>1, <2>2, <3>1, <3>2 DEF WaitsForSomeone
  <2>. QED BY <2>3, <2>4
<1>3. ASSUME NEW t \in Threads, StoreRemote(t) PROVE WaitsForSomeone'
  <2>1. UNCHANGED <<session, transportGen, offerGen, mapped, removed, queued, QueuesRemote>>
    BY <1>3 DEF StoreRemote, negVars, QueuesRemote
  <2>2. \A u \in Threads : ComesForIt(u) => ComesForIt(u)'
    BY <1>0, <1>3, <2>1 DEF StoreRemote, Goto, ThreadsTyped, ComesForIt
  <2>3. CASE QueuesRemote
    BY <2>1, <2>3 DEF WaitsForSomeone
  <2>4. CASE ~QueuesRemote
    <3>1. UNCHANGED pendingRemote
      BY <1>3, <2>4 DEF StoreRemote, StillQueuesRemote
    <3>. QED BY <2>1, <2>2, <3>1 DEF WaitsForSomeone
  <2>. QED BY <2>3, <2>4
<1>. USE <1>0 DEF Goto, StateTyped, ThreadsTyped, Sessions, negVars, candVars, givenVars,
   clientVars, threadVars, wireVars
<1>4. ASSUME NEW t \in Threads, Initialize(t) PROVE WaitsForSomeone'
  BY <1>4 DEF Initialize, WaitsForSomeone, ComesForIt, QueuesRemote, AnswerInv, MakingInv,
     OneClient, Answering, Making, Offering
<1>5. ASSUME NEW t \in Threads, AcceptAnswer(t) PROVE WaitsForSomeone'
  BY <1>5 DEF AcceptAnswer, Event, Acceptable, Routed, Here, WaitsForSomeone,
     ComesForIt, QueuesRemote, AnswerInv, MakingInv, OneClient, Answering,
     Making, Offering
<1>6. ASSUME NEW t \in Threads, HearCandidate(t) PROVE WaitsForSomeone'
  BY <1>6 DEF HearCandidate, Routed, Event, Here, WaitsForSomeone, ComesForIt,
     QueuesRemote, AnswerInv, MakingInv, OneClient, Answering, Making, Offering
<1>7. ASSUME NEW t \in Threads, RemovePeer(t) PROVE WaitsForSomeone'
  BY <1>7 DEF RemovePeer, Event, WaitsForSomeone, ComesForIt, QueuesRemote, AnswerInv,
     MakingInv, OneClient, Answering, Making, Offering
<1>8. ASSUME NEW t \in Threads, ErasePeer(t) PROVE WaitsForSomeone'
  BY <1>8 DEF ErasePeer, WaitsForSomeone, ComesForIt, QueuesRemote, AnswerInv, MakingInv,
     OneClient, Answering, Making, Offering
<1>9. ASSUME NEW t \in Threads, SendPeerOffer(t) PROVE WaitsForSomeone'
  BY <1>9 DEF SendPeerOffer, Reserve, Coalesce, RotateTransport, MayReserve,
     RequestsRebuild, Event, ClientFree, Unresolved, WaitsForSomeone, ComesForIt,
     QueuesRemote, AnswerInv, MakingInv, OneClient, Answering, Making, Offering
<1>10. ASSUME NEW t \in Threads, BuildTransport(t) PROVE WaitsForSomeone'
  BY <1>10 DEF BuildTransport, WaitsForSomeone, ComesForIt, QueuesRemote, AnswerInv,
     MakingInv, OneClient, Answering, Making, Offering
<1>11. ASSUME NEW t \in Threads, CreateOffer(t) PROVE WaitsForSomeone'
  BY <1>11 DEF CreateOffer, WaitsForSomeone, ComesForIt, QueuesRemote, AnswerInv, MakingInv,
     OneClient, Answering, Making, Offering
<1>12. ASSUME NEW t \in Threads, OfferFailed(t) PROVE WaitsForSomeone'
  BY <1>12 DEF OfferFailed, WaitsForSomeone, ComesForIt, QueuesRemote, AnswerInv, MakingInv,
     OneClient, Answering, Making, Offering
<1>13. ASSUME NEW t \in Threads, DispatchOffer(t) PROVE WaitsForSomeone'
  BY <1>13 DEF DispatchOffer, SendOffer, WaitsForSomeone, ComesForIt,
     QueuesRemote, AnswerInv, MakingInv, OneClient, Answering, Making, Offering
<1>14. ASSUME NEW t \in Threads, RevertDispatch(t) PROVE WaitsForSomeone'
  BY <1>14 DEF RevertDispatch, WaitsForSomeone, ComesForIt, QueuesRemote, AnswerInv,
     MakingInv, OneClient, Answering, Making, Offering
<1>15. ASSUME NEW t \in Threads, FlushCandidates(t) PROVE WaitsForSomeone'
  BY <1>15 DEF FlushCandidates, FlushesCandidate, WaitsForSomeone, ComesForIt, QueuesRemote,
     AnswerInv, MakingInv, OneClient, Answering, Making, Offering
<1>16. ASSUME NEW t \in Threads, FallBack(t) PROVE WaitsForSomeone'
  BY <1>16 DEF FallBack, Coalesce, WaitsForSomeone, ComesForIt, QueuesRemote, AnswerInv,
     MakingInv, OneClient, Answering, Making, Offering
<1>17. ASSUME NEW t \in Threads, ApplyAnswer(t) PROVE WaitsForSomeone'
  BY <1>17 DEF ApplyAnswer, Describe, WaitsForSomeone, ComesForIt, QueuesRemote,
     AnswerInv, MakingInv, OneClient, Answering, Making, Offering
<1>18. ASSUME NEW t \in Threads, ApplyDrained(t) PROVE WaitsForSomeone'
  BY <1>18 DEF ApplyDrained, AddMail, Given, AfterDrain, WaitsForSomeone,
     ComesForIt, QueuesRemote, AnswerInv, MakingInv, OneClient, Answering,
     Making, Offering
<1>19. ASSUME NEW t \in Threads, RunQueued(t) PROVE WaitsForSomeone'
  BY <1>19 DEF RunQueued, Unresolved, WaitsForSomeone, ComesForIt, QueuesRemote, AnswerInv,
     MakingInv, OneClient, Answering, Making, Offering
<1>20. ASSUME NEW t \in Threads, BeginMediaPlan(t) PROVE WaitsForSomeone'
  BY <1>20 DEF BeginMediaPlan, Event, MustQueuePlan, Unresolved, WaitsForSomeone,
     ComesForIt, QueuesRemote, AnswerInv, MakingInv, OneClient, Answering, Making, Offering
<1>21. ASSUME NEW t \in Threads, EnsureTracks(t) PROVE WaitsForSomeone'
  BY <1>21 DEF EnsureTracks, WaitsForSomeone, ComesForIt, QueuesRemote, AnswerInv,
     MakingInv, OneClient, Answering, Making, Offering
<1>22. ASSUME NEW t \in Threads, EndMediaPlan(t) PROVE WaitsForSomeone'
  BY <1>22 DEF EndMediaPlan, WaitsForSomeone, ComesForIt, QueuesRemote, AnswerInv,
     MakingInv, OneClient, Answering, Making, Offering
<1>23. ASSUME NEW t \in Threads, AddRemote(t) PROVE WaitsForSomeone'
  BY <1>23 DEF AddRemote, AddMail, Given, WaitsForSomeone, ComesForIt,
     QueuesRemote, AnswerInv, MakingInv, OneClient, Answering, Making, Offering
<1>24. ASSUME Connected PROVE WaitsForSomeone'
  BY <1>24 DEF Connected, Event, LeaseFree, WaitsForSomeone, ComesForIt, QueuesRemote,
     AnswerInv, MakingInv, OneClient, Answering, Making, Offering
<1>25. ASSUME TransportFailed PROVE WaitsForSomeone'
  BY <1>25 DEF TransportFailed, Event, LeaseFree, WaitsForSomeone, ComesForIt, QueuesRemote,
     AnswerInv, MakingInv, OneClient, Answering, Making, Offering
<1>26. ASSUME SendCandidate PROVE WaitsForSomeone'
  BY <1>26 DEF SendCandidate, CandidateSent, SendsCandidate, WaitsForSomeone,
     ComesForIt, QueuesRemote, AnswerInv, MakingInv, OneClient, Answering,
     Making, Offering
<1>27. ASSUME NEW c \in Local, Gather(c) PROVE WaitsForSomeone'
  BY <1>27 DEF Gather, WaitsForSomeone, ComesForIt, QueuesRemote, AnswerInv, MakingInv,
     OneClient, Answering, Making, Offering
<1>28. CASE UNCHANGED vars
  BY <1>28 DEF vars, WaitsForSomeone, ComesForIt, QueuesRemote, AnswerInv, MakingInv,
     OneClient, Answering, Making, Offering
<1>. QED
  BY <1>1, <1>2, <1>3, <1>4, <1>5, <1>6, <1>7, <1>8, <1>9, <1>10, <1>11, <1>12, <1>13,
     <1>14, <1>15, <1>16, <1>17, <1>18, <1>19, <1>20, <1>21, <1>22, <1>23, <1>24, <1>25,
     <1>26, <1>27, <1>28 DEF Next, SendOfferStep, AnswerStep, PlanStep, CandidateStep

-----------------------------------------------------------------------------
(***************************************************************************)
(* The invariant holds, and what follows from it.                          *)
(***************************************************************************)
LEMMA NegotiationInit == Init => IInv
<1>. SUFFICES ASSUME Init PROVE IInv OBVIOUS
<1>1. TypeOK
  BY TypeInit
<1>2. PICK i \in Threads \ {Worker} : pc = [u \in Threads |-> IF u = i THEN "init" ELSE "idle"]
  BY DEF Init
<1>3. MakingInv
  BY <1>2 DEF Init, MakingInv, OneClient, OneAnswer, Making, Offering, Answering
<1>4. OfferInv
  BY <1>2 DEF Init, OfferInv, LocalCandidatesMatch, Making, Offering, Nowhere
<1>5. AnswerInv /\ VerdictInv /\ QueuedInv
  BY <1>2 DEF Init, AnswerInv, AnswersMatch, VerdictInv, QueuedInv, Answering
<1>6. \A s \in Sessions : ToSet(pendingRemote[s]) = {}
  <2>1. \A s \in Sessions : pendingRemote[s] = <<>>
    <3>1. \A s \in Sessions : s \in 0 .. MaxSession /\ s # 0
      BY DEF Sessions
    <3>2. \A s \in Sessions : NothingPending[s] = <<>>
      BY <3>1 DEF NothingPending
    <3>3. NothingPending = [s \in 0 .. MaxSession |-> NothingPending[s]]
      BY DEF NothingPending
    <3>. HIDE DEF NothingPending
    <3>. QED BY <3>1, <3>2, <3>3 DEF Init
  <2>2. ToSet(<<>>) = {}
    BY DEF ToSet
  <2>. QED BY <2>1, <2>2
<1>7. RemoteInv
  <2>1. HeardInv /\ CarriedInv /\ LateInv /\ RemoteCandidatesMatch
    BY <1>2 DEF Init, HeardInv, CarriedInv, LateInv, RemoteCandidatesMatch
  <2>2. ASSUME NEW p \in ToSet(pendingRemote[0]) PROVE HeardFor(p.cand, 0)
    <3>1. [cand |-> p.cand, session |-> 0] \in heard
      BY DEF Init
    <3>. QED BY <3>1 DEF HeardFor
  <2>3. \A s \in 0 .. MaxSession : s = 0 \/ s \in Sessions
    BY DEF Sessions
  <2>. QED BY <1>6, <2>1, <2>2, <2>3 DEF RemoteInv, WaitingInv
<1>8. WaitsForSomeone
  BY DEF Init, WaitsForSomeone, QueuesRemote
<1>. QED BY <1>1, <1>3, <1>4, <1>5, <1>7, <1>8 DEF IInv

LEMMA NegotiationStep == IInv /\ [Next]_vars => IInv'
BY TypeStep, MakingStep, OfferStep, AnswersStep, VerdictStep, QueuedStep, RemoteStep, WaitsStep
   DEF IInv

THEOREM NegotiationInductive == Spec => []IInv
BY NegotiationInit, NegotiationStep, PTL DEF Spec

\* A late answer finds its offer, and nothing else, at every step of the way.
THEOREM AnswersTheorem == Spec => []AnswersKeepToTheirOffer
<1>1. IInv => AnswersKeepToTheirOffer
  BY DEF IInv, MakingInv, AnswerInv, AnswersKeepToTheirOffer, AnswerBindsItsOffer
<1>. QED BY <1>1, NegotiationInductive, PTL

\* A coalesced offer or media plan is never forgotten.
THEOREM TransitionTheorem == Spec => []NoStrandedTransition
<1>1. IInv => NoStrandedTransition
  BY DEF IInv, QueuedInv, Refused, NoStrandedTransition
<1>. QED BY <1>1, NegotiationInductive, PTL

\* No candidate crosses from one transport to another, in either direction.
THEOREM CandidatesTheorem == Spec => []CandidatesMatch
<1>1. IInv => CandidatesMatch
  BY DEF IInv, OfferInv, RemoteInv, CandidatesMatch
<1>. QED BY <1>1, NegotiationInductive, PTL

\* A candidate buffered for the current transport waits for a drain or a rebuild
\* that will come.
THEOREM NoStrandedTheorem == Spec => []NoStrandedCandidate
<1>1. IInv => NoStrandedCandidate
  BY DEF IInv, WaitsForSomeone, ComesForIt, NoStrandedCandidate
<1>. QED BY <1>1, NegotiationInductive, PTL

\* Only an offer put on the wire extends the offers, after every earlier one of its
\* session was answered.
LEMMA OffersFollowAnswers ==
    ASSUME IInv, [Next]_vars, NEW o \in offers' \ offers, NEW p \in offers, p.session = o.session
    PROVE  \E v \in verdicts : v.offer = p.offer /\ v.verdict # "failed"
<1>1. PICK t \in Threads : DispatchOffer(t)
  <2>1. offers' # offers
    OBVIOUS
  <2>2. ASSUME NEW t \in Threads, SendOfferStep(t) PROVE DispatchOffer(t)
    BY <2>1, <2>2 DEF SendOfferStep, SendPeerOffer, BuildTransport, CreateOffer, OfferFailed,
       RevertDispatch, FlushCandidates, wireVars
  <2>3. ASSUME NEW t \in Threads, AnswerStep(t) \/ AcceptAnswer(t) PROVE FALSE
    BY <2>1, <2>3 DEF AnswerStep, AcceptAnswer, FallBack, ApplyAnswer, Describe,
       CommitAnswer, DrainRemote, ApplyDrained, AddMail, Given, RunQueued,
       wireVars
  <2>4. ASSUME NEW t \in Threads, PlanStep(t) \/ CandidateStep(t) \/ HearCandidate(t) PROVE FALSE
    BY <2>1, <2>4 DEF PlanStep, CandidateStep, HearCandidate, Routed,
       BeginMediaPlan, EnsureTracks, EndMediaPlan, StoreRemote, AddRemote,
       AddMail, Given, wireVars
  <2>5. ASSUME NEW t \in Threads, Initialize(t) \/ RemovePeer(t) \/ ErasePeer(t) PROVE FALSE
    BY <2>1, <2>5 DEF Initialize, RemovePeer, ErasePeer, wireVars
  <2>6. ~(Connected \/ TransportFailed \/ SendCandidate \/ \E c \in Local : Gather(c))
    BY <2>1 DEF Connected, TransportFailed, SendCandidate, CandidateSent,
       Gather, wireVars
  <2>. QED BY <2>1, <2>2, <2>3, <2>4, <2>5, <2>6 DEF Next, vars, wireVars
<1>2. pc[t] = "dispatch" /\ o = [offer |-> offerGen, session |-> session, transport |-> transport]
  BY <1>1 DEF DispatchOffer, SendOffer
<1>3. p.session = session /\ p.offer < offerGen
  BY <1>2 DEF IInv, OfferInv, Making
<1>4. p.offer # offerGen
  BY <1>3 DEF IInv, TypeOK, StateTyped, WireTyped
<1>. QED BY <1>3, <1>4 DEF IInv, VerdictInv

\* A new offer in a wire session follows the answer to every earlier one.
THEOREM OneOpenOfferTheorem == Spec => OneOpenOffer
<1>1. IInv /\ [Next]_vars =>
         [\A o \in offers' \ offers, p \in offers :
             p.session = o.session =>
                 \E v \in verdicts : v.offer = p.offer /\ v.verdict # "failed"]_vars
  BY OffersFollowAnswers
<1>. QED BY <1>1, NegotiationInductive, PTL DEF Spec, OneOpenOffer

=============================================================================
