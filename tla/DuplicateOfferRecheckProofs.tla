------------------- MODULE DuplicateOfferRecheckProofs -------------------
(***************************************************************************)
(* What holds for any number of sessions, jobs, transports and messages:   *)
(* a recheck that was cancelled rebuilds nothing, no callback runs for a   *)
(* transport that was replaced or shut down, and a rebuilt transport has   *)
(* every section that the one before had.                                  *)
(***************************************************************************)
EXTENDS DuplicateOfferRecheck, FiniteSetTheorems, TLAPS

---------------------------------------------------------------------------
Cancelers == {"control", "signaling", "maintenance", "loop", "executor"}
Offerers == {"worker", "signaling"}
Removers == {"signaling", "maintenance"}

(* Types, what a thread has in hand at each of its steps, and the jobs the *)
(* scheduler and the executor keep.                                        *)
Media == {"video", "audio", "alpha"}
Callbacks == [gen : Nat, event : Events \cup {"none"}]
LinkStates == Events \cup {"disconnected", "closed"}
ReaperSteps == {"none", "prepare", "drain", "lock", "close", "shutdown", "done"}

RealJobs == [serial : Serials, peer : Clients, wire : Nat, gen : Nat]
Jobs == [serial : Serials \cup {0}, peer : Clients \cup {Nobody}, wire : Nat, gen : Nat]
Captured == [serial : {0}, peer : Clients, wire : Nat, gen : Nat]
Slots == [job : RealJobs, state : {"waiting", "dispatched", "canceling"}]

Returns ==
  {"idle", "wait", "reopen", "joins", "await", "joinLoop", "erase", "capture"}
Steps == Returns \cup
  {"off", "settle", "complete", "clear", "mark", "clearJobs", "stopped", "lookup", "init",
   "build", "resume", "install", "bootstrapLock", "restart", "bootstrap", "rebuild",
   "reset", "adopt", "create", "offerFailed", "duplicate", "insert", "remove", "cancelOne",
   "look", "run", "admit", "decide", "judge", "finish", "enqueue"}

ClientTyped ==
  /\ transport \in [Clients -> Nat]
  /\ built \in [Clients -> Nat]
  /\ link \in [Clients -> LinkStates]
  /\ sections \in [Clients -> Seq(Media)]
  /\ negotiated \in [Clients -> SUBSET Media]
  /\ down \in [Clients -> BOOLEAN]
  /\ suppressed \in [Clients -> BOOLEAN]
  /\ parked \in [Clients -> SUBSET Callbacks]
  /\ body \in [Clients -> Callbacks]

SchedulerTyped ==
  /\ running \in BOOLEAN /\ stopping \in BOOLEAN /\ accepting \in BOOLEAN
  /\ slot \in Slots \cup {NoSlot}
  /\ serial \in 0 .. MaxJobs
  /\ verdict \in [Serials -> {"none", "canceled", "stale", "connected", "rebuilt", "failed"}]
  /\ barrier \in Serials \cup {0}
  /\ queue \in SUBSET RealJobs
  /\ posted \in [Clients -> Callbacks]

PeerTyped ==
  /\ admitted \in 0 .. Cardinality(Clients)
  /\ mapped \in 0 .. admitted
  /\ removed \in [Clients -> BOOLEAN]
  /\ initializing \in [Clients -> BOOLEAN]
  /\ retired \in [Clients -> BOOLEAN]
  /\ stale \in [Clients -> BOOLEAN]
  /\ pending \in [Clients -> BOOLEAN]
  /\ wireGen \in [Clients -> Nat]
  /\ clientGen \in [Clients -> Nat]
  /\ held \in [Clients -> Threads \cup {Free, "reaper"}]
  /\ reaper \in [Clients -> ReaperSteps]

ThreadTyped ==
  /\ at \in [Threads -> Steps]
  /\ arg \in [Threads -> Clients \cup {Nobody}]
  /\ todo \in [Threads -> Jobs]
  /\ next \in [Threads -> Returns]
  /\ live \in BOOLEAN /\ online \in BOOLEAN
  /\ inputs \in 0 .. MaxInputs /\ lives \in 0 .. MaxLives
  /\ barred \in SUBSET Serials

\* Where a signaling callback may schedule a job, or comes back to do it.
MayInsert ==
  \/ at["signaling"] \in {"duplicate", "capture", "insert"}
  \/ at["signaling"] \in {"settle", "complete"} /\ next["signaling"] = "capture"

\* What a thread has in hand.
Hand(t) ==
  /\ at[t] \in {"settle", "complete"} => todo[t] \in RealJobs
  /\ t = "loop" => (at[t] = "enqueue" => todo[t] \in RealJobs)
  /\ t = "worker" =>
       /\ at[t] # "bootstrap"
       /\ at[t] \notin {"idle", "off"} => todo[t] \in RealJobs /\ arg[t] = todo[t].peer
  /\ t = "maintenance" =>
       /\ at[t] # "idle" => arg[t] \in Clients
       /\ next[t] \in {"idle", "erase"}
  /\ t = "signaling" =>
       /\ at[t] \notin {"idle", "lookup"} => arg[t] \in 1 .. admitted
       /\ at[t] = "insert" => todo[t] \in Captured
       /\ next[t] \in {"idle", "erase", "capture"}
       /\ MayInsert => serial < MaxJobs

InHand == \A t \in Threads : Hand(t)

Typed == ClientTyped /\ SchedulerTyped /\ PeerTyped /\ ThreadTyped /\ InHand

(* callbackOperationMutex and clientOperationMutex: a thread that works on *)
(* a session's transport holds its locks.                                  *)
WorkerLocked == {"admit", "decide", "rebuild", "reset", "adopt", "create", "offerFailed", "judge"}
SignalingLocked ==
  {"build", "resume", "install", "bootstrap", "rebuild", "reset", "adopt", "create",
   "offerFailed", "capture", "insert"}

Locked ==
  /\ at["worker"] \in WorkerLocked => held[arg["worker"]] = "worker"
  /\ \/ at["signaling"] \in SignalingLocked
     \/ at["signaling"] \in {"settle", "complete"} /\ next["signaling"] = "capture"
     => held[arg["signaling"]] = "signaling"
  /\ \A p \in Clients : reaper[p] \in {"close", "shutdown"} => held[p] = "reaper"

(* The worker's barrier: the job it executes has no disposition until the *)
(* worker gives it one, and a cancellation that returned has given one.    *)
BarrierInv ==
  /\ at["worker"] \in Rebuilding \cup {"decide"} =>
       barrier = todo["worker"].serial /\ verdict[todo["worker"].serial] = "none"
  /\ \A t \in Threads : at[t] = "complete" => verdict[todo[t].serial] # "none"
  /\ \A s \in barred : verdict[s] # "none"

(* A session's transport is built by its initialization first.             *)
FreshInv ==
  /\ \A p \in Clients : p > admitted => initializing[p]
  /\ at["signaling"] \in {"init", "build", "resume", "install"} => initializing[arg["signaling"]]
  /\ \A t \in {"worker", "signaling"} : at[t] = "reset" => ~initializing[arg[t]]
  /\ \A p \in Clients :
       initializing[p] =>
         \/ transport[p] = NoTransport
         \/ arg["signaling"] = p /\ at["signaling"] \in {"resume", "install"}

(* The gate and the asynchronous shutdown.                                 *)
GateInv ==
  /\ \A p \in Clients : body[p] # NoBody => body[p].gen = transport[p]
  /\ \A p \in Clients : reaper[p] # "none" => removed[p]
  /\ \A p \in Clients : reaper[p] = "shutdown" => suppressed[p]
  /\ \A p \in Clients : reaper[p] = "done" =>
       /\ transport[p] = NoTransport
       /\ suppressed[p]
       /\ down[p]
       /\ body[p] = NoBody
       /\ ~(arg["signaling"] = p /\ at["signaling"] \in {"build", "resume"})

(* What a transport has is remembered, and alpha comes with video.         *)
SectionInv ==
  \A p \in Clients :
    /\ ToSet(sections[p]) \subseteq negotiated[p]
    /\ "alpha" \in ToSet(sections[p]) => "video" \in ToSet(sections[p])

(* Only a session that was marked is taken out of the map and shut down.   *)
Gone(t) ==
  \/ at[t] \in {"cancelOne", "erase"}
  \/ at[t] \in {"settle", "complete"} /\ next[t] = "erase"
  => removed[arg[t]]

GoneInv == \A t \in Removers : Gone(t)

---------------------------------------------------------------------------
(* Facts about the sets above.                                             *)
LEMMA MappedType ==
    ASSUME Typed
    PROVE  /\ mapped \in Clients \cup {Nobody}
           /\ mapped # Nobody => mapped \in 1 .. admitted
           /\ admitted \in Nat /\ Cardinality(Clients) \in Nat
           /\ 1 .. admitted \subseteq Clients
           /\ admitted < Cardinality(Clients) => admitted + 1 \in Clients
<1>1. Clients = 1 .. Cardinality(Clients) /\ Cardinality(Clients) \in Nat
    BY RecheckAssumption, ClientsAssumption, FS_CardinalityType
<1>2. admitted \in 0 .. Cardinality(Clients) /\ mapped \in 0 .. admitted
    BY DEF Typed, PeerTyped
<1> DEFINE n == Cardinality(Clients)
<1>3. Clients = 1 .. n /\ n \in Nat /\ admitted \in 0 .. n
    BY <1>1, <1>2
<1> HIDE DEF n
<1>4. admitted + 1 \in 1 .. n \/ ~(admitted < n)
    BY <1>3
<1>5. mapped \in 1 .. n \/ mapped = 0
    BY <1>2, <1>3
<1> QED
    BY <1>2, <1>3, <1>4, <1>5 DEF Nobody, n


---------------------------------------------------------------------------
(* Jobs and the scheduler's slot.                                          *)
LEMMA JobSets ==
    /\ NoJob \in Jobs
    /\ RealJobs \subseteq Jobs
    /\ Captured \subseteq Jobs
    /\ \A j \in Jobs : j.peer \in Clients \cup {Nobody}
    /\ \A j \in RealJobs : j.peer \in Clients /\ j.serial \in Serials
BY DEF NoJob, Jobs, RealJobs, Captured, Nobody, Serials

LEMMA ClearedJob ==
    ASSUME NEW p \in Clients \cup {Nobody}
    PROVE  [NoJob EXCEPT !.peer = p] \in Jobs /\ [NoJob EXCEPT !.peer = p].peer = p
BY DEF NoJob, Jobs, Nobody, Serials

LEMMA SlotFields ==
    ASSUME NEW s \in Slots \cup {NoSlot}, s # NoSlot
    PROVE  /\ s.job \in RealJobs
           /\ \A x \in {"waiting", "dispatched", "canceling"} :
                [s EXCEPT !.state = x] \in Slots
BY DEF Slots, NoSlot

LEMMA WaitingSlot ==
    ASSUME NEW s \in Slots \cup {NoSlot}
    PROVE  /\ s.state = "waiting" => s # NoSlot
           /\ \A j \in RealJobs : [job |-> j, state |-> "waiting"] \in Slots
           /\ NoSlot \notin Slots
BY DEF Slots, NoSlot

LEMMA NumberedJob ==
    ASSUME NEW j \in Captured, NEW s \in Serials
    PROVE  [j EXCEPT !.serial = s] \in RealJobs
BY DEF Captured, RealJobs

LEMMA Silence == NoEvent \in Callbacks /\ NoBody \in Callbacks
BY DEF NoEvent, NoBody, Callbacks, NoTransport

LEMMA CapturedJob ==
    ASSUME NEW p \in Clients, NEW w \in Nat, NEW g \in Nat
    PROVE  LET j == [serial |-> 0, peer |-> p, wire |-> w, gen |-> g]
           IN  j \in Captured /\ j \in Jobs
BY DEF Captured, Jobs, Serials

LEMMA OffererHasASession ==
    ASSUME Typed, NEW t \in {"worker", "signaling"},
           at[t] \notin {"idle", "off", "lookup"}
    PROVE  t \in Threads /\ arg[t] \in Clients
<1>1. CASE t = "worker"
    BY <1>1, JobSets DEF Typed, InHand, Hand, Threads
<1>2. CASE t = "signaling"
    BY <1>2, MappedType DEF Typed, InHand, Hand, Threads
<1> QED
    BY <1>1, <1>2

(* A step of one thread leaves the others where they are.                  *)
Keeps(t) ==
  at'[t] = at[t] /\ arg'[t] = arg[t] /\ todo'[t] = todo[t] /\ next'[t] = next[t]

LEMMA HandFrame ==
    ASSUME InHand, admitted \in Nat, admitted' \in Nat, admitted' >= admitted,
           NEW t \in Threads, \A u \in Threads \ {t} : Keeps(u), Hand(t)',
           serial' = serial \/ t = "signaling"
    PROVE  InHand'
<1> SUFFICES ASSUME NEW u \in Threads \ {t} PROVE Hand(u)'
    BY DEF InHand
<1>1. Keeps(u) /\ Hand(u)
    BY DEF InHand
<1>2. CASE u = "signaling"
    BY <1>1, <1>2 DEF Keeps, Hand, MayInsert
<1>3. CASE u # "signaling"
    BY <1>1, <1>3 DEF Keeps, Hand
<1> QED
    BY <1>2, <1>3

(* The actions of all threads, one by one.                                 *)

Actions ==
  \/ \E t \in Cancelers : Settle(t) \/ Complete(t)
  \/ \E t \in Offerers : OfferRefused(t) \/ OfferReserve(t) \/ OfferReset(t) \/
    OfferAdopt(t) \/ OfferCreate(t) \/ OfferFailed(t)
  \/ \E t \in Removers : MarkRemoved(t) \/ CancelOne(t) \/ Erase(t)
  \/ \E p \in Clients : ReaperStep(p) \/ TakeState(p) \/ Report(p) \/ Gate(p) \/
    CallbackReturns(p) \/ MediaPlan(p)
  \/ Request \/ OfferRequest \/ KnownRequest \/ UnknownRequest \/ InitLock \/
    InitBuild \/ InitResume \/ InitInstall \/ OfferLock \/ Duplicate \/ Capture
    \/ InsertNothing \/ Insert \/ Supersede \/ Dispatch \/ Enqueue \/ LoopEnds
    \/ Drop \/ TakeJob \/ RunLate \/ RunLock \/ RunAdmit \/ RunDecide \/
    RunJudge \/ RunFinish \/ Prune \/ PruneLook \/ Initialize \/ GoLive \/
    Reopen \/ StopLive \/ StopJoins \/ Clear \/ Mark \/ ClearJobs \/ Shutdown \/
    JoinLoop \/ Await

LEMMA AnyStep ==
    ASSUME Next
    PROVE  Actions
BY DEF Next, Environment, MaintenanceStep, OtherStep, ControlStep,
  SignalingStep, LoopStep, WorkerStep, RunStep, OfferStep, RemoveStep,
  CancelStep, Actions, Cancelers, Offerers, Removers

---------------------------------------------------------------------------
(* Types.                                                                  *)
LEMMA ThreadsKeepTypes ==
    ASSUME Typed, Next
    PROVE  ThreadTyped'
<1>1. ASSUME NEW t \in Cancelers, Settle(t) PROVE ThreadTyped'
    BY <1>1 DEF Settle, BarrierFree, Goto, clientVars, executorVars, peerVars,
      lifeVars, boundVars, Typed, ThreadTyped, Steps, Returns
<1>2. ASSUME NEW t \in Cancelers, Complete(t) PROVE ThreadTyped'
    <2>1. UNCHANGED <<arg, live, online, inputs, lives>>
        BY <1>2 DEF Complete, Take, Erased, Home, Goto, clientVars,
          executorVars, lifeVars, boundVars
    <2>2. at' \in [Threads -> Steps]
        BY <1>2 DEF Complete, Take, Erased, Home, Goto, clientVars,
          executorVars, lifeVars, boundVars, Typed, ThreadTyped, Steps, Returns,
          Cancelers, Threads
    <2>3. todo' \in [Threads -> Jobs]
        BY <1>2, JobSets, SlotFields DEF Complete, Take, Erased, Home, Goto,
          clientVars, executorVars, lifeVars, boundVars, Typed, ThreadTyped,
          SchedulerTyped, InHand, Hand, Cancelers, Threads
    <2>4. next' \in [Threads -> Returns]
        BY <1>2 DEF Complete, Take, Erased, Home, Goto, clientVars,
          executorVars, lifeVars, boundVars, Typed, ThreadTyped, Steps, Returns,
          Cancelers, Threads
    <2>5. barred' \in SUBSET Serials
        BY <1>2, JobSets DEF Complete, Take, Erased, Home, Goto, clientVars,
          executorVars, lifeVars, boundVars, Typed, ThreadTyped, InHand, Hand,
          Cancelers, Threads
    <2> QED
        BY <2>1, <2>2, <2>3, <2>4, <2>5 DEF Typed, ThreadTyped
<1>3. ASSUME NEW t \in Offerers, OfferRefused(t) PROVE ThreadTyped'
    <2>1. UNCHANGED <<todo, next, live, online, inputs, lives, barred>>
        BY <1>3 DEF OfferRefused, OfferReturns, Goto, Free, Nobody, clientVars,
          schedulerVars, executorVars, lifeVars, boundVars
    <2>2. at' \in [Threads -> Steps]
        BY <1>3 DEF OfferRefused, OfferReturns, Goto, Free, Nobody, clientVars,
          schedulerVars, executorVars, lifeVars, boundVars, Typed, ThreadTyped,
          Steps, Returns, Offerers, Threads
    <2>3. arg' \in [Threads -> Clients \cup {Nobody}]
        BY <1>3, MappedType DEF OfferRefused, OfferReturns, Goto, Free, Nobody,
          clientVars, schedulerVars, executorVars, lifeVars, boundVars, Typed,
          ThreadTyped, InHand, Hand, Offerers, Threads
    <2> QED
        BY <2>1, <2>2, <2>3 DEF Typed, ThreadTyped
<1>4. ASSUME NEW t \in Offerers, OfferReserve(t) PROVE ThreadTyped'
    BY <1>4 DEF OfferReserve, NoTransport, Goto, clientVars, schedulerVars,
      executorVars, lifeVars, boundVars, Typed, ThreadTyped, Steps, Returns
<1>5. ASSUME NEW t \in Offerers, OfferReset(t) PROVE ThreadTyped'
    <2>1. /\ UNCHANGED <<arg, todo, next, live, online, inputs, lives, barred>>
          /\ \E x \in {"offerFailed", "adopt"} : at' = [at EXCEPT ![t] = x]
        BY <1>5 DEF OfferReset, Goto, lifeVars, boundVars
    <2> QED
        BY <2>1 DEF Typed, ThreadTyped, Steps
<1>6. ASSUME NEW t \in Offerers, OfferAdopt(t) PROVE ThreadTyped'
    BY <1>6 DEF OfferAdopt, Goto, clientVars, schedulerVars, executorVars,
      lifeVars, boundVars, Typed, ThreadTyped, Steps, Returns
<1>7. ASSUME NEW t \in Offerers, OfferCreate(t) PROVE ThreadTyped'
    <2>1. UNCHANGED <<todo, next, live, online, inputs, lives, barred>>
        BY <1>7 DEF OfferCreate, CreateOffer, DispatchFree, NoTransport,
          clientVars, OfferReturns, Goto, Free, Nobody, schedulerVars,
          executorVars, lifeVars, boundVars
    <2>2. at' \in [Threads -> Steps]
        BY <1>7 DEF OfferCreate, CreateOffer, DispatchFree, NoTransport,
          OfferReturns, Goto, Free, Nobody, clientVars, schedulerVars,
          executorVars, lifeVars, boundVars, Typed, ThreadTyped, Steps, Returns,
          Offerers, Threads
    <2>3. arg' \in [Threads -> Clients \cup {Nobody}]
        BY <1>7, MappedType DEF OfferCreate, CreateOffer, DispatchFree,
          NoTransport, OfferReturns, Goto, Free, Nobody, clientVars,
          schedulerVars, executorVars, lifeVars, boundVars, Typed, ThreadTyped,
          InHand, Hand, Offerers, Threads
    <2> QED
        BY <2>1, <2>2, <2>3 DEF Typed, ThreadTyped
<1>8. ASSUME NEW t \in Offerers, OfferFailed(t) PROVE ThreadTyped'
    <2>1. UNCHANGED <<todo, next, live, online, inputs, lives, barred>>
        BY <1>8 DEF OfferFailed, OfferReturns, Goto, Free, Nobody, clientVars,
          schedulerVars, executorVars, lifeVars, boundVars
    <2>2. at' \in [Threads -> Steps]
        BY <1>8 DEF OfferFailed, OfferReturns, Goto, Free, Nobody, clientVars,
          schedulerVars, executorVars, lifeVars, boundVars, Typed, ThreadTyped,
          Steps, Returns, Offerers, Threads
    <2>3. arg' \in [Threads -> Clients \cup {Nobody}]
        BY <1>8, MappedType DEF OfferFailed, OfferReturns, Goto, Free, Nobody,
          clientVars, schedulerVars, executorVars, lifeVars, boundVars, Typed,
          ThreadTyped, InHand, Hand, Offerers, Threads
    <2> QED
        BY <2>1, <2>2, <2>3 DEF Typed, ThreadTyped
<1>9. ASSUME NEW t \in Removers, MarkRemoved(t) PROVE ThreadTyped'
    <2>1. UNCHANGED <<todo, next, live, online, inputs, lives, barred>>
        BY <1>9 DEF MarkRemoved, Goto, Nobody, LetGo, Free, clientVars,
          schedulerVars, executorVars, lifeVars, boundVars
    <2>2. at' \in [Threads -> Steps]
        BY <1>9 DEF MarkRemoved, Goto, Nobody, LetGo, Free, clientVars,
          schedulerVars, executorVars, lifeVars, boundVars, Typed, ThreadTyped,
          Steps, Returns, Removers, Threads
    <2>3. arg' \in [Threads -> Clients \cup {Nobody}]
        BY <1>9, MappedType DEF MarkRemoved, Goto, Nobody, LetGo, Free,
          clientVars, schedulerVars, executorVars, lifeVars, boundVars, Typed,
          ThreadTyped, InHand, Hand, Removers, Threads
    <2> QED
        BY <2>1, <2>2, <2>3 DEF Typed, ThreadTyped
<1>10. ASSUME NEW t \in Removers, CancelOne(t) PROVE ThreadTyped'
    <2>1. UNCHANGED <<arg, live, online, inputs, lives, barred>>
        BY <1>10 DEF CancelOne, lifeVars, boundVars
    <2>2. CASE StartCancel(t, "erase")
      <3>1. slot.job \in Jobs
          BY <2>2, JobSets, SlotFields DEF StartCancel, Typed, SchedulerTyped
      <3>2. /\ todo' = [todo EXCEPT ![t] = slot.job]
            /\ next' = [next EXCEPT ![t] = "erase"]
            /\ at' = [at EXCEPT ![t] = "settle"]
          BY <2>2 DEF StartCancel, Goto
      <3> QED
          BY <2>1, <3>1, <3>2 DEF Typed, ThreadTyped, Steps, Returns
    <2>3. CASE at' = [at EXCEPT ![t] = "erase"] /\ UNCHANGED <<todo, next>>
        BY <2>1, <2>3 DEF Typed, ThreadTyped, Steps, Returns
    <2> QED
        BY <1>10, <2>2, <2>3 DEF CancelOne, Goto
<1>11. ASSUME NEW t \in Removers, Erase(t) PROVE ThreadTyped'
    BY <1>11, MappedType DEF Erase, Nobody, LetGo, Free, Goto, clientVars,
      schedulerVars, executorVars, boundVars, Typed, ThreadTyped, Steps,
      Returns, InHand, Hand
<1>12. ASSUME NEW p \in Clients, ReaperStep(p) PROVE ThreadTyped'
    BY <1>12 DEF ReaperStep, Suppress, bundleVars, ReaperGoes, Quiet,
      clientVars, Free, ShutdownSwap, NoTransport, gateVars, schedulerVars,
      executorVars, threadVars, boundVars, Typed, ThreadTyped
<1>13. CASE Request
    <2>1. UNCHANGED <<arg, todo, next, live, online, lives, barred>>
        BY <1>13 DEF Request, Input, Goto, requestRest, clientVars,
          schedulerVars, executorVars, lifeVars
    <2>2. at' \in [Threads -> Steps]
        BY <1>13 DEF Request, Input, Goto, requestRest, clientVars,
          schedulerVars, executorVars, lifeVars, Typed, ThreadTyped, Steps,
          Returns
    <2>3. inputs' \in 0 .. MaxInputs
        BY <1>13, RecheckAssumption DEF Request, Input, Goto, requestRest,
          clientVars, schedulerVars, executorVars, lifeVars, Typed, ThreadTyped
    <2> QED
        BY <2>1, <2>2, <2>3 DEF Typed, ThreadTyped
<1>14. CASE OfferRequest
    <2>1. UNCHANGED <<todo, next, live, online, inputs, lives, barred>>
        BY <1>14 DEF OfferRequest, Nobody, Goto, lookupRest, requestRest,
          clientVars, schedulerVars, executorVars, lifeVars
    <2>2. at' \in [Threads -> Steps]
        BY <1>14 DEF OfferRequest, Nobody, Goto, lookupRest, requestRest,
          clientVars, schedulerVars, executorVars, lifeVars, Typed, ThreadTyped,
          Steps, Returns
    <2>3. arg' \in [Threads -> Clients \cup {Nobody}]
        BY <1>14, MappedType DEF OfferRequest, Nobody, Goto, lookupRest,
          requestRest, clientVars, schedulerVars, executorVars, lifeVars, Typed,
          ThreadTyped, InHand, Hand
    <2> QED
        BY <2>1, <2>2, <2>3 DEF Typed, ThreadTyped
<1>15. CASE KnownRequest
    <2>1. UNCHANGED <<todo, next, live, online, inputs, lives, barred>>
        BY <1>15 DEF KnownRequest, Nobody, Goto, lookupRest, requestRest,
          clientVars, schedulerVars, executorVars, lifeVars
    <2>2. at' \in [Threads -> Steps]
        BY <1>15 DEF KnownRequest, Nobody, Goto, lookupRest, requestRest,
          clientVars, schedulerVars, executorVars, lifeVars, Typed, ThreadTyped,
          Steps, Returns
    <2>3. arg' \in [Threads -> Clients \cup {Nobody}]
        BY <1>15, MappedType DEF KnownRequest, Nobody, Goto, lookupRest,
          requestRest, clientVars, schedulerVars, executorVars, lifeVars, Typed,
          ThreadTyped, InHand, Hand
    <2> QED
        BY <2>1, <2>2, <2>3 DEF Typed, ThreadTyped
<1>16. CASE UnknownRequest
    BY <1>16 DEF UnknownRequest, Nobody, Goto, lookupRest, requestRest,
      clientVars, schedulerVars, executorVars, lifeVars, Typed, ThreadTyped,
      Steps, Returns
<1>17. CASE InitLock
    <2>1. UNCHANGED <<todo, next, live, online, inputs, lives, barred>>
        BY <1>17 DEF InitLock, Free, Withdrawn, Goto, Nobody, clientVars,
          Suppress, bundleVars, signalRest, schedulerVars, executorVars,
          lifeVars, boundVars
    <2>2. at' \in [Threads -> Steps]
        BY <1>17 DEF InitLock, Free, Withdrawn, Goto, Nobody, Suppress,
          clientVars, bundleVars, signalRest, schedulerVars, executorVars,
          lifeVars, boundVars, Typed, ThreadTyped, Steps, Returns
    <2>3. arg' \in [Threads -> Clients \cup {Nobody}]
        BY <1>17, MappedType DEF InitLock, Free, Withdrawn, Goto, Nobody,
          Suppress, clientVars, bundleVars, signalRest, schedulerVars,
          executorVars, lifeVars, boundVars, Typed, ThreadTyped, InHand, Hand
    <2> QED
        BY <2>1, <2>2, <2>3 DEF Typed, ThreadTyped
<1>18. CASE InitBuild
    BY <1>18 DEF InitBuild, InitializeSwap, Quiet, SwapIn, NoTransport,
      Sections, Kinds, gateVars, Goto, signalRest, schedulerVars, executorVars,
      lifeVars, boundVars, Typed, ThreadTyped, Steps, Returns
<1>19. CASE InitResume
    BY <1>19 DEF InitResume, Resume, bundleVars, Goto, signalRest,
      schedulerVars, executorVars, lifeVars, boundVars, Typed, ThreadTyped,
      Steps, Returns
<1>20. CASE InitInstall
    BY <1>20 DEF InitInstall, Free, Goto, signalRest, schedulerVars,
      executorVars, lifeVars, boundVars, clientVars, Typed, ThreadTyped, Steps,
      Returns
<1>21. CASE OfferLock
    BY <1>21 DEF OfferLock, Free, Goto, signalRest, schedulerVars, executorVars,
      lifeVars, boundVars, clientVars, Typed, ThreadTyped, Steps, Returns
<1>22. CASE Duplicate
    BY <1>22, MappedType DEF Duplicate, Free, Settled, Goto, Nobody, Dead,
      signalRest, schedulerVars, executorVars, lifeVars, boundVars, clientVars,
      Typed, ThreadTyped, Steps, Returns, InHand, Hand
<1>23. CASE Capture
    <2>1. UNCHANGED <<next, live, online, inputs, lives, barred>>
        BY <1>23 DEF Capture, NoTransport, Dismiss, Goto, Free, Nobody,
          clientVars, schedulerVars, executorVars, lifeVars, boundVars
    <2>2. at' \in [Threads -> Steps]
        BY <1>23 DEF Capture, NoTransport, Dismiss, Goto, Free, Nobody,
          clientVars, schedulerVars, executorVars, lifeVars, boundVars, Typed,
          ThreadTyped, Steps, Returns
    <2>3. arg' \in [Threads -> Clients \cup {Nobody}]
        BY <1>23, MappedType DEF Capture, NoTransport, Dismiss, Goto, Free,
          Nobody, clientVars, schedulerVars, executorVars, lifeVars, boundVars,
          Typed, ThreadTyped, InHand, Hand
    <2>4. todo' \in [Threads -> Jobs]
        <3> DEFINE p == arg["signaling"]
                   j == [serial |-> 0, peer |-> p, wire |-> wireGen[p], gen |-> clientGen[p]]
        <3>1. p \in Clients
            BY <1>23, OffererHasASession DEF Capture
        <3>2. wireGen[p] \in Nat /\ clientGen[p] \in Nat
            BY <3>1 DEF Typed, PeerTyped
        <3>3. j \in Jobs
            BY <3>1, <3>2, CapturedJob
        <3>4. todo' = todo \/ todo' = [todo EXCEPT !["signaling"] = j]
            BY <1>23 DEF Capture
        <3> HIDE DEF j
        <3> QED
            BY <3>3, <3>4 DEF Typed, ThreadTyped, Threads
    <2> QED
        BY <2>1, <2>2, <2>3, <2>4 DEF Typed, ThreadTyped
<1>24. CASE InsertNothing
    BY <1>24, MappedType, JobSets, SlotFields DEF InsertNothing, Admitting,
      SameTransport, Dismiss, Goto, Free, Nobody, insertRest, clientVars,
      executorVars, lifeVars, boundVars, Typed, ThreadTyped, Steps, Returns,
      InHand, Hand, SchedulerTyped
<1>25. CASE Insert
    BY <1>25, MappedType, JobSets, SlotFields DEF Insert, Admitting, Dismiss,
      Goto, Free, Nobody, insertRest, clientVars, executorVars, lifeVars,
      boundVars, Typed, ThreadTyped, Steps, Returns, InHand, Hand,
      SchedulerTyped
<1>26. CASE Supersede
    BY <1>26, JobSets, SlotFields DEF Supersede, Admitting, SameTransport,
      StartCancel, Goto, insertRest, clientVars, executorVars, lifeVars,
      boundVars, Typed, ThreadTyped, Steps, Returns, SchedulerTyped, InHand,
      Hand
<1>27. CASE Dispatch
    <2>1. UNCHANGED <<arg, next, live, online, inputs, lives, barred>>
        BY <1>27 DEF Dispatch, Goto, loopRest, clientVars, peerVars, lifeVars,
          boundVars, executorVars
    <2>2. at' \in [Threads -> Steps]
        BY <1>27 DEF Dispatch, Goto, loopRest, clientVars, peerVars, lifeVars,
          boundVars, executorVars, Typed, ThreadTyped, Steps, Returns
    <2>3. todo' \in [Threads -> Jobs]
        BY <1>27, JobSets, SlotFields, WaitingSlot DEF Dispatch, Goto, loopRest,
          clientVars, peerVars, lifeVars, boundVars, executorVars, Typed,
          ThreadTyped, SchedulerTyped, InHand, Hand
    <2> QED
        BY <2>1, <2>2, <2>3 DEF Typed, ThreadTyped
<1>28. CASE Enqueue
    <2>1. UNCHANGED <<arg, next, live, online, inputs, lives, barred>>
        BY <1>28 DEF Enqueue, Goto, loopRest, clientVars, peerVars, lifeVars,
          boundVars
    <2>2. at' \in [Threads -> Steps]
        BY <1>28 DEF Enqueue, Goto, loopRest, clientVars, peerVars, lifeVars,
          boundVars, Typed, ThreadTyped, Steps, Returns
    <2>3. todo' \in [Threads -> Jobs]
        BY <1>28, JobSets, SlotFields DEF Enqueue, Goto, loopRest, clientVars,
          peerVars, lifeVars, boundVars, Typed, ThreadTyped, SchedulerTyped,
          InHand, Hand
    <2> QED
        BY <2>1, <2>2, <2>3 DEF Typed, ThreadTyped
<1>29. CASE LoopEnds
    BY <1>29 DEF LoopEnds, Goto, loopRest, clientVars, peerVars, lifeVars,
      boundVars, executorVars, Typed, ThreadTyped, Steps, Returns
<1>30. CASE Drop
    <2>1. UNCHANGED <<arg, next, live, online, inputs, lives, barred>>
        BY <1>30 DEF Drop, Goto, clientVars, schedulerVars, peerVars, lifeVars,
          boundVars
    <2>2. at' \in [Threads -> Steps]
        BY <1>30 DEF Drop, Goto, clientVars, schedulerVars, peerVars, lifeVars,
          boundVars, Typed, ThreadTyped, Steps, Returns
    <2>3. todo' \in [Threads -> Jobs]
        <3>1. PICK j \in queue : todo' = [todo EXCEPT !["executor"] = j]
            BY <1>30 DEF Drop
        <3>2. j \in Jobs
            BY JobSets DEF Typed, SchedulerTyped
        <3> QED
            BY <3>1, <3>2 DEF Typed, ThreadTyped
    <2> QED
        BY <2>1, <2>2, <2>3 DEF Typed, ThreadTyped
<1>31. CASE TakeJob
    <2>1. UNCHANGED <<next, live, online, inputs, lives, barred>>
        BY <1>31 DEF TakeJob, Dispatched, Admitting, Goto, workRest,
          schedulerVars, lifeVars, boundVars, clientVars
    <2>2. at' \in [Threads -> Steps]
        BY <1>31 DEF TakeJob, Dispatched, Admitting, Goto, workRest,
          schedulerVars, lifeVars, boundVars, clientVars, Typed, ThreadTyped,
          Steps, Returns
    <2>3. arg' \in [Threads -> Clients \cup {Nobody}]
        <3>1. PICK j \in queue : arg' = [arg EXCEPT !["worker"] = j.peer]
            BY <1>31 DEF TakeJob
        <3>2. j.peer \in Clients
            BY JobSets DEF Typed, SchedulerTyped
        <3> QED
            BY <3>1, <3>2 DEF Typed, ThreadTyped
    <2>4. todo' \in [Threads -> Jobs]
        <3>1. PICK j \in queue : todo' = [todo EXCEPT !["worker"] = j]
            BY <1>31 DEF TakeJob
        <3>2. j \in Jobs
            BY JobSets DEF Typed, SchedulerTyped
        <3> QED
            BY <3>1, <3>2 DEF Typed, ThreadTyped
    <2> QED
        BY <2>1, <2>2, <2>3, <2>4 DEF Typed, ThreadTyped
<1>32. ASSUME NEW p \in Clients, TakeState(p) PROVE ThreadTyped'
    BY <1>32 DEF TakeState, Free, workRest, schedulerVars, lifeVars, boundVars,
      clientVars, Typed, ThreadTyped
<1>33. CASE RunLate
    BY <1>33, MappedType, JobSets, SlotFields DEF RunLate, Dispatched,
      Admitting, WorkerIdle, Goto, Nobody, runRest, clientVars, executorVars,
      lifeVars, boundVars, Typed, ThreadTyped, Steps, Returns, InHand, Hand,
      SchedulerTyped
<1>34. CASE RunLock
    BY <1>34 DEF RunLock, Dispatched, Admitting, Free, Goto, runRest,
      clientVars, executorVars, lifeVars, boundVars, Typed, ThreadTyped, Steps,
      Returns
<1>35. CASE RunAdmit
    BY <1>35 DEF RunAdmit, Leave, Free, Goto, Dispatched, Admitting, runRest,
      clientVars, executorVars, lifeVars, boundVars, Typed, ThreadTyped, Steps,
      Returns
<1>36. CASE RunDecide
    BY <1>36 DEF RunDecide, Exact, Judged, Leave, Free, Goto, runRest,
      clientVars, executorVars, lifeVars, boundVars, Typed, ThreadTyped, Steps,
      Returns
<1>37. CASE RunJudge
    BY <1>37 DEF RunJudge, Judged, Leave, Free, Goto, runRest, clientVars,
      executorVars, lifeVars, boundVars, Typed, ThreadTyped, Steps, Returns
<1>38. CASE RunFinish
    BY <1>38, MappedType, JobSets, SlotFields DEF RunFinish, Take, Erased,
      WorkerIdle, Goto, Nobody, runRest, clientVars, executorVars, lifeVars,
      boundVars, Typed, ThreadTyped, Steps, Returns, InHand, Hand,
      SchedulerTyped
<1>39. ASSUME NEW p \in Clients, Report(p) PROVE ThreadTyped'
    <2>1. UNCHANGED <<at, arg, todo, next, live, online, lives, barred>>
        BY <1>39 DEF Report, Input, RtcEvent, Callback, NoTransport, eventRest,
           schedulerVars, peerVars, threadVars, lifeVars
    <2>2. inputs' \in 0 .. MaxInputs
        BY <1>39, RecheckAssumption DEF Report, Input, RtcEvent, Callback,
           NoTransport, eventRest, schedulerVars, peerVars, threadVars,
           lifeVars, Typed, ThreadTyped
    <2> QED
        BY <2>1, <2>2 DEF Typed, ThreadTyped
<1>40. ASSUME NEW p \in Clients, Gate(p) PROVE ThreadTyped'
    BY <1>40 DEF Gate, Admit, DispatchFree, Admissible, bundleVars, eventRest,
      schedulerVars, peerVars, threadVars, lifeVars, Typed, ThreadTyped
<1>41. ASSUME NEW p \in Clients, CallbackReturns(p) PROVE ThreadTyped'
    BY <1>41 DEF CallbackReturns, Release, bundleVars, eventRest, schedulerVars,
      peerVars, threadVars, lifeVars, Typed, ThreadTyped
<1>42. ASSUME NEW p \in Clients, MediaPlan(p) PROVE ThreadTyped'
    <2>1. UNCHANGED <<at, arg, todo, next, live, online, lives, barred>>
        BY <1>42 DEF MediaPlan, Input, Free, EnsureMediaTracks, Kinds,
          NoTransport, gateVars, eventRest, schedulerVars, peerVars, threadVars,
          lifeVars
    <2>2. inputs' \in 0 .. MaxInputs
        BY <1>42, RecheckAssumption DEF MediaPlan, Input, Free,
          EnsureMediaTracks, Kinds, NoTransport, gateVars, eventRest,
          schedulerVars, peerVars, threadVars, lifeVars, Typed, ThreadTyped
    <2> QED
        BY <2>1, <2>2 DEF Typed, ThreadTyped
<1>43. CASE Prune
    <2>1. UNCHANGED <<todo, next, live, online, inputs, lives, barred>>
        BY <1>43 DEF Prune, Nobody, Goto, pruneRest, clientVars, schedulerVars,
          executorVars, peerVars, lifeVars, boundVars
    <2>2. at' \in [Threads -> Steps]
        BY <1>43 DEF Prune, Nobody, Goto, pruneRest, clientVars, schedulerVars,
          executorVars, peerVars, lifeVars, boundVars, Typed, ThreadTyped,
          Steps, Returns
    <2>3. arg' \in [Threads -> Clients \cup {Nobody}]
        BY <1>43, MappedType DEF Prune, Nobody, Goto, pruneRest, clientVars,
          schedulerVars, executorVars, peerVars, lifeVars, boundVars, Typed,
          ThreadTyped, InHand, Hand
    <2> QED
        BY <2>1, <2>2, <2>3 DEF Typed, ThreadTyped
<1>44. CASE PruneLook
    BY <1>44, MappedType DEF PruneLook, Goto, Nobody, pruneRest, clientVars,
      schedulerVars, executorVars, peerVars, lifeVars, boundVars, Typed,
      ThreadTyped, Steps, Returns, InHand, Hand
<1>45. CASE Initialize
    BY <1>45 DEF Initialize, controlRest, clientVars, executorVars, mapRest,
      Typed, ThreadTyped, Steps, Returns
<1>46. CASE GoLive
    <2>1. UNCHANGED <<arg, live, online, inputs, barred>>
        BY <1>46 DEF GoLive, CancelAll, StartCancel, Goto, controlRest,
          clientVars, executorVars, mapRest
    <2>2. at' \in [Threads -> Steps]
        BY <1>46 DEF GoLive, CancelAll, StartCancel, Goto, controlRest,
          clientVars, executorVars, mapRest, Typed, ThreadTyped, Steps, Returns
    <2>3. todo' \in [Threads -> Jobs]
        BY <1>46, JobSets, SlotFields DEF GoLive, CancelAll, StartCancel, Goto,
          controlRest, clientVars, executorVars, mapRest, Typed, ThreadTyped,
          SchedulerTyped, InHand, Hand
    <2>4. next' \in [Threads -> Returns]
        BY <1>46 DEF GoLive, CancelAll, StartCancel, Goto, controlRest,
          clientVars, executorVars, mapRest, Typed, ThreadTyped, Steps, Returns
    <2>5. lives' \in 0 .. MaxLives
        BY <1>46, RecheckAssumption DEF GoLive, CancelAll, StartCancel, Goto,
          controlRest, clientVars, executorVars, mapRest, Typed, ThreadTyped
    <2> QED
        BY <2>1, <2>2, <2>3, <2>4, <2>5 DEF Typed, ThreadTyped
<1>47. CASE Reopen
    BY <1>47 DEF Reopen, Goto, controlRest, clientVars, executorVars, mapRest,
      Typed, ThreadTyped, Steps, Returns
<1>48. CASE StopLive
    <2>1. UNCHANGED <<arg, online, inputs, lives, barred>>
        BY <1>48 DEF StopLive, CancelAll, StartCancel, Goto, controlRest,
          clientVars, executorVars, mapRest
    <2>2. at' \in [Threads -> Steps]
        BY <1>48 DEF StopLive, CancelAll, StartCancel, Goto, controlRest,
          clientVars, executorVars, mapRest, Typed, ThreadTyped, Steps, Returns
    <2>3. todo' \in [Threads -> Jobs]
        BY <1>48, JobSets, SlotFields DEF StopLive, CancelAll, StartCancel,
          Goto, controlRest, clientVars, executorVars, mapRest, Typed,
          ThreadTyped, SchedulerTyped, InHand, Hand
    <2>4. next' \in [Threads -> Returns]
        BY <1>48 DEF StopLive, CancelAll, StartCancel, Goto, controlRest,
          clientVars, executorVars, mapRest, Typed, ThreadTyped, Steps, Returns
    <2>5. live' \in BOOLEAN
        BY <1>48 DEF StopLive, CancelAll, StartCancel, Goto, controlRest,
          clientVars, executorVars, mapRest, Typed, ThreadTyped
    <2> QED
        BY <2>1, <2>2, <2>3, <2>4, <2>5 DEF Typed, ThreadTyped
<1>49. CASE StopJoins
    BY <1>49 DEF StopJoins, Goto, controlRest, clientVars, executorVars,
      mapRest, Typed, ThreadTyped, Steps, Returns
<1>50. CASE Clear
    <2>1. UNCHANGED <<arg, next, live, online, inputs, lives, barred>>
        BY <1>50 DEF Clear, Nobody, controlRest, clientVars, executorVars
    <2>2. at' \in [Threads -> Steps]
        BY <1>50 DEF Clear, Nobody, controlRest, clientVars, executorVars,
          Typed, ThreadTyped, Steps, Returns
    <2>3. todo' \in [Threads -> Jobs]
        BY <1>50, JobSets, SlotFields, MappedType, ClearedJob DEF Clear, Nobody,
          controlRest, clientVars, executorVars, Typed, ThreadTyped,
          SchedulerTyped, InHand, Hand
    <2> QED
        BY <2>1, <2>2, <2>3 DEF Typed, ThreadTyped
<1>51. CASE Mark
    BY <1>51, JobSets, SlotFields DEF Mark, Nobody, Goto, controlRest,
      clientVars, executorVars, Typed, ThreadTyped, Steps, Returns,
      SchedulerTyped, InHand, Hand
<1>52. CASE ClearJobs
    <2>1. UNCHANGED <<arg, live, online, inputs, lives, barred>>
        BY <1>52 DEF ClearJobs, CancelAll, StartCancel, Goto, controlRest,
          clientVars, executorVars, mapRest
    <2>2. at' \in [Threads -> Steps]
        BY <1>52 DEF ClearJobs, CancelAll, StartCancel, Goto, controlRest,
          clientVars, executorVars, mapRest, Typed, ThreadTyped, Steps, Returns
    <2>3. todo' \in [Threads -> Jobs]
        BY <1>52, JobSets, SlotFields DEF ClearJobs, CancelAll, StartCancel,
          Goto, controlRest, clientVars, executorVars, mapRest, Typed,
          ThreadTyped, SchedulerTyped, InHand, Hand
    <2>4. next' \in [Threads -> Returns]
        BY <1>52 DEF ClearJobs, CancelAll, StartCancel, Goto, controlRest,
          clientVars, executorVars, mapRest, Typed, ThreadTyped, Steps, Returns
    <2> QED
        BY <2>1, <2>2, <2>3, <2>4 DEF Typed, ThreadTyped
<1>53. CASE Shutdown
    <2>1. UNCHANGED <<arg, live, online, inputs, lives, barred>>
        BY <1>53 DEF Shutdown, controlRest, mapRest
    <2>2. CASE StartCancel("control", "joinLoop")
      <3>1. slot.job \in Jobs
          BY <2>2, JobSets, SlotFields DEF StartCancel, Typed, SchedulerTyped
      <3>2. /\ todo' = [todo EXCEPT !["control"] = slot.job]
            /\ next' = [next EXCEPT !["control"] = "joinLoop"]
            /\ at' = [at EXCEPT !["control"] = "settle"]
          BY <2>2 DEF StartCancel, Goto
      <3> QED
          BY <2>1, <3>1, <3>2 DEF Typed, ThreadTyped, Steps, Returns
    <2>3. CASE at' = [at EXCEPT !["control"] = "joinLoop"] /\ UNCHANGED <<todo, next>>
        BY <2>1, <2>3 DEF Typed, ThreadTyped, Steps, Returns
    <2> QED
        BY <1>53, <2>2, <2>3 DEF Shutdown, CancelAll, Goto
<1>54. CASE JoinLoop
    BY <1>54 DEF JoinLoop, Goto, controlRest, clientVars, executorVars, mapRest,
      Typed, ThreadTyped, Steps, Returns
<1>55. CASE Await
    BY <1>55 DEF Await, controlRest, clientVars, executorVars, mapRest, Typed,
      ThreadTyped, Steps, Returns
<1> QED
    BY <1>1, <1>2, <1>3, <1>4, <1>5, <1>6, <1>7, <1>8, <1>9, <1>10, <1>11,
      <1>12, <1>13, <1>14, <1>15, <1>16, <1>17, <1>18, <1>19, <1>20, <1>21,
      <1>22, <1>23, <1>24, <1>25, <1>26, <1>27, <1>28, <1>29, <1>30, <1>31,
      <1>32, <1>33, <1>34, <1>35, <1>36, <1>37, <1>38, <1>39, <1>40, <1>41,
      <1>42, <1>43, <1>44, <1>45, <1>46, <1>47, <1>48, <1>49, <1>50, <1>51,
      <1>52, <1>53, <1>54, <1>55, AnyStep DEF Actions

LEMMA SchedulerKeepsTypes ==
    ASSUME Typed, Next
    PROVE  SchedulerTyped'
<1>1. ASSUME NEW t \in Cancelers, Settle(t) PROVE SchedulerTyped'
    BY <1>1, JobSets DEF Settle, BarrierFree, Goto, clientVars, executorVars,
      peerVars, lifeVars, boundVars, Typed, SchedulerTyped, InHand, Hand
<1>2. ASSUME NEW t \in Cancelers, Complete(t) PROVE SchedulerTyped'
    BY <1>2, JobSets, SlotFields, WaitingSlot DEF Complete, Take, Erased, Home,
      Goto, clientVars, executorVars, lifeVars, boundVars, Typed,
      SchedulerTyped, InHand, Hand
<1>3. ASSUME NEW t \in Offerers, OfferRefused(t) PROVE SchedulerTyped'
    BY <1>3 DEF OfferRefused, OfferReturns, Goto, Free, Nobody, clientVars,
      schedulerVars, executorVars, lifeVars, boundVars, Typed, SchedulerTyped
<1>4. ASSUME NEW t \in Offerers, OfferReserve(t) PROVE SchedulerTyped'
    BY <1>4 DEF OfferReserve, NoTransport, Goto, clientVars, schedulerVars,
      executorVars, lifeVars, boundVars, Typed, SchedulerTyped
<1>5. ASSUME NEW t \in Offerers, OfferReset(t) PROVE SchedulerTyped'
    BY <1>5 DEF OfferReset, clientVars, Goto, ResetRefused, DispatchFree,
      ResetPeerConnection, SwapIn, NoTransport, Sections, Kinds, gateVars,
      schedulerVars, executorVars, peerVars, lifeVars, boundVars, Typed,
      SchedulerTyped
<1>6. ASSUME NEW t \in Offerers, OfferAdopt(t) PROVE SchedulerTyped'
    BY <1>6 DEF OfferAdopt, Goto, clientVars, schedulerVars, executorVars,
      lifeVars, boundVars, Typed, SchedulerTyped
<1>7. ASSUME NEW t \in Offerers, OfferCreate(t) PROVE SchedulerTyped'
    BY <1>7 DEF OfferCreate, CreateOffer, DispatchFree, NoTransport, clientVars,
      OfferReturns, Goto, Free, Nobody, schedulerVars, executorVars, lifeVars,
      boundVars, Typed, SchedulerTyped
<1>8. ASSUME NEW t \in Offerers, OfferFailed(t) PROVE SchedulerTyped'
    BY <1>8 DEF OfferFailed, OfferReturns, Goto, Free, Nobody, clientVars,
      schedulerVars, executorVars, lifeVars, boundVars, Typed, SchedulerTyped
<1>9. ASSUME NEW t \in Removers, MarkRemoved(t) PROVE SchedulerTyped'
    BY <1>9 DEF MarkRemoved, Goto, Nobody, LetGo, Free, clientVars,
      schedulerVars, executorVars, lifeVars, boundVars, Typed, SchedulerTyped
<1>10. ASSUME NEW t \in Removers, CancelOne(t) PROVE SchedulerTyped'
    BY <1>10, JobSets, SlotFields, WaitingSlot DEF CancelOne, StartCancel, Goto,
      clientVars, executorVars, peerVars, lifeVars, boundVars, Typed,
      SchedulerTyped, InHand, Hand
<1>11. ASSUME NEW t \in Removers, Erase(t) PROVE SchedulerTyped'
    BY <1>11 DEF Erase, Nobody, LetGo, Free, Goto, clientVars, schedulerVars,
      executorVars, boundVars, Typed, SchedulerTyped
<1>12. ASSUME NEW p \in Clients, ReaperStep(p) PROVE SchedulerTyped'
    BY <1>12 DEF ReaperStep, Suppress, bundleVars, ReaperGoes, Quiet,
      clientVars, Free, ShutdownSwap, NoTransport, gateVars, schedulerVars,
      executorVars, threadVars, boundVars, Typed, SchedulerTyped
<1>13. CASE Request
    BY <1>13 DEF Request, Input, Goto, requestRest, clientVars, schedulerVars,
      executorVars, lifeVars, Typed, SchedulerTyped
<1>14. CASE OfferRequest
    BY <1>14 DEF OfferRequest, Nobody, Goto, lookupRest, requestRest,
      clientVars, schedulerVars, executorVars, lifeVars, Typed, SchedulerTyped
<1>15. CASE KnownRequest
    BY <1>15 DEF KnownRequest, Nobody, Goto, lookupRest, requestRest,
      clientVars, schedulerVars, executorVars, lifeVars, Typed, SchedulerTyped
<1>16. CASE UnknownRequest
    BY <1>16 DEF UnknownRequest, Nobody, Goto, lookupRest, requestRest,
      clientVars, schedulerVars, executorVars, lifeVars, Typed, SchedulerTyped
<1>17. CASE InitLock
    BY <1>17 DEF InitLock, Free, Withdrawn, Goto, Nobody, clientVars, Suppress,
      bundleVars, signalRest, schedulerVars, executorVars, lifeVars, boundVars,
      Typed, SchedulerTyped
<1>18. CASE InitBuild
    BY <1>18 DEF InitBuild, InitializeSwap, Quiet, SwapIn, NoTransport,
      Sections, Kinds, gateVars, Goto, signalRest, schedulerVars, executorVars,
      lifeVars, boundVars, Typed, SchedulerTyped
<1>19. CASE InitResume
    BY <1>19 DEF InitResume, Resume, bundleVars, Goto, signalRest,
      schedulerVars, executorVars, lifeVars, boundVars, Typed, SchedulerTyped
<1>20. CASE InitInstall
    BY <1>20 DEF InitInstall, Free, Goto, signalRest, schedulerVars,
      executorVars, lifeVars, boundVars, clientVars, Typed, SchedulerTyped
<1>21. CASE OfferLock
    BY <1>21 DEF OfferLock, Free, Goto, signalRest, schedulerVars, executorVars,
      lifeVars, boundVars, clientVars, Typed, SchedulerTyped
<1>22. CASE Duplicate
    BY <1>22 DEF Duplicate, Free, Settled, Goto, Nobody, Dead, signalRest,
      schedulerVars, executorVars, lifeVars, boundVars, clientVars, Typed,
      SchedulerTyped
<1>23. CASE Capture
    BY <1>23 DEF Capture, NoTransport, Dismiss, Goto, Free, Nobody, clientVars,
      schedulerVars, executorVars, lifeVars, boundVars, Typed, SchedulerTyped
<1>24. CASE InsertNothing
    BY <1>24 DEF InsertNothing, Admitting, SameTransport, Dismiss, Goto, Free,
      Nobody, insertRest, clientVars, executorVars, lifeVars, boundVars, Typed,
      SchedulerTyped
<1>25. CASE Insert
    <2>1. UNCHANGED <<running, stopping, accepting, verdict, barrier, queue,
      posted>>
        BY <1>25 DEF Insert, Admitting, Dismiss, Goto, Free, Nobody, insertRest,
          clientVars, executorVars, lifeVars, boundVars
    <2>2. slot' \in Slots \cup {NoSlot}
        <3>1. Hand("signaling") /\ at["signaling"] = "insert"
            BY <1>25 DEF Insert, Typed, InHand, Threads
        <3>2. serial < MaxJobs /\ todo["signaling"] \in Captured
            BY <3>1 DEF Hand, MayInsert
        <3>3. serial \in 0 .. MaxJobs
            BY DEF Typed, SchedulerTyped
        <3>4. serial + 1 \in 0 .. MaxJobs /\ serial + 1 \in Serials
            BY <3>2, <3>3, RecheckAssumption DEF Serials
        <3> DEFINE j == [todo["signaling"] EXCEPT !.serial = serial + 1]
        <3>5. j \in RealJobs /\ slot' = [job |-> j, state |-> "waiting"]
            BY <1>25, <3>2, <3>4, NumberedJob DEF Insert
        <3> HIDE DEF j
        <3> QED
            BY <3>5, WaitingSlot DEF Typed, SchedulerTyped
    <2>3. serial' \in 0 .. MaxJobs
        <3>1. Hand("signaling") /\ at["signaling"] = "insert"
            BY <1>25 DEF Insert, Typed, InHand, Threads
        <3>2. serial < MaxJobs /\ todo["signaling"] \in Captured
            BY <3>1 DEF Hand, MayInsert
        <3>3. serial \in 0 .. MaxJobs
            BY DEF Typed, SchedulerTyped
        <3>4. serial + 1 \in 0 .. MaxJobs /\ serial + 1 \in Serials
            BY <3>2, <3>3, RecheckAssumption DEF Serials
        <3> QED
            BY <1>25, <3>4 DEF Insert
    <2> QED
        BY <2>1, <2>2, <2>3 DEF Typed, SchedulerTyped
<1>26. CASE Supersede
    BY <1>26, JobSets, SlotFields, WaitingSlot DEF Supersede, Admitting,
      SameTransport, StartCancel, Goto, insertRest, clientVars, executorVars,
      lifeVars, boundVars, Typed, SchedulerTyped, InHand, Hand
<1>27. CASE Dispatch
    BY <1>27, JobSets, SlotFields, WaitingSlot DEF Dispatch, Goto, loopRest,
      clientVars, peerVars, lifeVars, boundVars, executorVars, Typed,
      SchedulerTyped, InHand, Hand
<1>28. CASE Enqueue
    <2>1. UNCHANGED <<running, stopping, accepting, slot, serial, verdict,
      barrier, posted>>
        BY <1>28 DEF Enqueue, Goto, loopRest, clientVars, peerVars, lifeVars,
          boundVars
    <2>2. queue' \in SUBSET RealJobs
        <3>1. at["loop"] = "enqueue" /\ Hand("loop")
            BY <1>28 DEF Enqueue, Typed, InHand, Threads
        <3>2. todo["loop"] \in RealJobs
            BY <3>1 DEF Hand
        <3> QED
            BY <1>28, <3>2 DEF Enqueue, Typed, SchedulerTyped
    <2> QED
        BY <2>1, <2>2 DEF Typed, SchedulerTyped
<1>29. CASE LoopEnds
    BY <1>29 DEF LoopEnds, Goto, loopRest, clientVars, peerVars, lifeVars,
      boundVars, executorVars, Typed, SchedulerTyped
<1>30. CASE Drop
    BY <1>30, JobSets DEF Drop, Goto, clientVars, schedulerVars, peerVars,
      lifeVars, boundVars, Typed, SchedulerTyped, InHand, Hand
<1>31. CASE TakeJob
    BY <1>31, JobSets DEF TakeJob, Dispatched, Admitting, Goto, workRest,
      schedulerVars, lifeVars, boundVars, clientVars, Typed, SchedulerTyped,
      InHand, Hand
<1>32. ASSUME NEW p \in Clients, TakeState(p) PROVE SchedulerTyped'
    BY <1>32, Silence DEF TakeState, Free, workRest, schedulerVars, lifeVars,
      boundVars, clientVars, Typed, SchedulerTyped, ClientTyped
<1>33. CASE RunLate
    BY <1>33 DEF RunLate, Dispatched, Admitting, WorkerIdle, Goto, Nobody,
      runRest, clientVars, executorVars, lifeVars, boundVars, Typed,
      SchedulerTyped
<1>34. CASE RunLock
    BY <1>34 DEF RunLock, Dispatched, Admitting, Free, Goto, runRest,
      clientVars, executorVars, lifeVars, boundVars, Typed, SchedulerTyped
<1>35. CASE RunAdmit
    <2>1. UNCHANGED <<running, stopping, accepting, slot, serial, queue,
      posted>>
        BY <1>35 DEF RunAdmit, Leave, Free, Goto, Dispatched, Admitting,
          runRest, clientVars, executorVars, lifeVars, boundVars
    <2>2. verdict' \in [Serials -> {"none", "canceled", "stale", "connected", "rebuilt", "failed"}]
        BY <1>35, JobSets DEF RunAdmit, Leave, Free, Goto, Dispatched,
          Admitting, runRest, clientVars, executorVars, lifeVars, boundVars,
          Typed, SchedulerTyped, InHand, Hand
    <2>3. barrier' \in Serials \cup {0}
        <3>1. at["worker"] = "admit" /\ Hand("worker")
            BY <1>35 DEF RunAdmit, Typed, InHand, Threads
        <3>2. todo["worker"].serial \in Serials
            BY <3>1, JobSets DEF Hand
        <3> QED
            BY <1>35, <3>2 DEF RunAdmit, Typed, SchedulerTyped
    <2> QED
        BY <2>1, <2>2, <2>3 DEF Typed, SchedulerTyped
<1>36. CASE RunDecide
    BY <1>36, JobSets DEF RunDecide, Exact, Judged, Leave, Free, Goto, runRest,
      clientVars, executorVars, lifeVars, boundVars, Typed, SchedulerTyped,
      InHand, Hand
<1>37. CASE RunJudge
    BY <1>37, JobSets DEF RunJudge, Judged, Leave, Free, Goto, runRest,
      clientVars, executorVars, lifeVars, boundVars, Typed, SchedulerTyped,
      InHand, Hand
<1>38. CASE RunFinish
    BY <1>38, JobSets, SlotFields, WaitingSlot DEF RunFinish, Take, Erased,
      WorkerIdle, Goto, Nobody, runRest, clientVars, executorVars, lifeVars,
      boundVars, Typed, SchedulerTyped, InHand, Hand
<1>39. ASSUME NEW p \in Clients, Report(p) PROVE SchedulerTyped'
    BY <1>39 DEF Report, Input, RtcEvent, Callback, NoTransport, eventRest,
       schedulerVars, peerVars, threadVars, lifeVars, Typed, SchedulerTyped
<1>40. ASSUME NEW p \in Clients, Gate(p) PROVE SchedulerTyped'
    BY <1>40 DEF Gate, Admit, DispatchFree, Admissible, bundleVars, eventRest,
      schedulerVars, peerVars, threadVars, lifeVars, Typed, SchedulerTyped
<1>41. ASSUME NEW p \in Clients, CallbackReturns(p) PROVE SchedulerTyped'
    BY <1>41, Silence DEF CallbackReturns, Release, bundleVars, eventRest,
      schedulerVars, peerVars, threadVars, lifeVars, Typed, SchedulerTyped,
      ClientTyped
<1>42. ASSUME NEW p \in Clients, MediaPlan(p) PROVE SchedulerTyped'
    BY <1>42 DEF MediaPlan, Input, Free, EnsureMediaTracks, Kinds, NoTransport,
      gateVars, eventRest, schedulerVars, peerVars, threadVars, lifeVars, Typed,
      SchedulerTyped
<1>43. CASE Prune
    BY <1>43 DEF Prune, Nobody, Goto, pruneRest, clientVars, schedulerVars,
      executorVars, peerVars, lifeVars, boundVars, Typed, SchedulerTyped
<1>44. CASE PruneLook
    BY <1>44 DEF PruneLook, Goto, Nobody, pruneRest, clientVars, schedulerVars,
      executorVars, peerVars, lifeVars, boundVars, Typed, SchedulerTyped
<1>45. CASE Initialize
    BY <1>45, JobSets, SlotFields, WaitingSlot DEF Initialize, controlRest,
      clientVars, executorVars, mapRest, Typed, SchedulerTyped, InHand, Hand
<1>46. CASE GoLive
    BY <1>46, JobSets, SlotFields, WaitingSlot DEF GoLive, CancelAll,
      StartCancel, Goto, controlRest, clientVars, executorVars, mapRest, Typed,
      SchedulerTyped, InHand, Hand
<1>47. CASE Reopen
    BY <1>47 DEF Reopen, Goto, controlRest, clientVars, executorVars, mapRest,
      Typed, SchedulerTyped
<1>48. CASE StopLive
    BY <1>48, JobSets, SlotFields, WaitingSlot DEF StopLive, CancelAll,
      StartCancel, Goto, controlRest, clientVars, executorVars, mapRest, Typed,
      SchedulerTyped, InHand, Hand
<1>49. CASE StopJoins
    BY <1>49 DEF StopJoins, Goto, controlRest, clientVars, executorVars,
      mapRest, Typed, SchedulerTyped
<1>50. CASE Clear
    BY <1>50 DEF Clear, Nobody, controlRest, clientVars, executorVars, Typed,
      SchedulerTyped
<1>51. CASE Mark
    BY <1>51 DEF Mark, Nobody, Goto, controlRest, clientVars, executorVars,
      Typed, SchedulerTyped
<1>52. CASE ClearJobs
    BY <1>52, JobSets, SlotFields, WaitingSlot DEF ClearJobs, CancelAll,
      StartCancel, Goto, controlRest, clientVars, executorVars, mapRest, Typed,
      SchedulerTyped, InHand, Hand
<1>53. CASE Shutdown
    BY <1>53, JobSets, SlotFields, WaitingSlot DEF Shutdown, CancelAll,
      StartCancel, Goto, controlRest, clientVars, executorVars, mapRest, Typed,
      SchedulerTyped, InHand, Hand
<1>54. CASE JoinLoop
    BY <1>54 DEF JoinLoop, Goto, controlRest, clientVars, executorVars, mapRest,
      Typed, SchedulerTyped
<1>55. CASE Await
    BY <1>55 DEF Await, controlRest, clientVars, executorVars, mapRest, Typed,
      SchedulerTyped
<1> QED
    BY <1>1, <1>2, <1>3, <1>4, <1>5, <1>6, <1>7, <1>8, <1>9, <1>10, <1>11,
      <1>12, <1>13, <1>14, <1>15, <1>16, <1>17, <1>18, <1>19, <1>20, <1>21,
      <1>22, <1>23, <1>24, <1>25, <1>26, <1>27, <1>28, <1>29, <1>30, <1>31,
      <1>32, <1>33, <1>34, <1>35, <1>36, <1>37, <1>38, <1>39, <1>40, <1>41,
      <1>42, <1>43, <1>44, <1>45, <1>46, <1>47, <1>48, <1>49, <1>50, <1>51,
      <1>52, <1>53, <1>54, <1>55, AnyStep DEF Actions

LEMMA PeersKeepTypes ==
    ASSUME Typed, Next
    PROVE  PeerTyped'
<1>1. ASSUME NEW t \in Cancelers, Settle(t) PROVE PeerTyped'
    BY <1>1 DEF Settle, BarrierFree, Goto, clientVars, executorVars, peerVars,
      lifeVars, boundVars, Typed, PeerTyped
<1>2. ASSUME NEW t \in Cancelers, Complete(t) PROVE PeerTyped'
    BY <1>2 DEF Complete, Take, Erased, Home, Goto, clientVars, executorVars,
      lifeVars, boundVars, Typed, PeerTyped
<1>3. ASSUME NEW t \in Offerers, OfferRefused(t) PROVE PeerTyped'
    BY <1>3 DEF OfferRefused, OfferReturns, Goto, Free, Nobody, clientVars,
      schedulerVars, executorVars, lifeVars, boundVars, Typed, PeerTyped,
      InHand, Hand, Threads
<1>4. ASSUME NEW t \in Offerers, OfferReserve(t) PROVE PeerTyped'
    <2>1. UNCHANGED <<admitted, mapped, removed, initializing, pending, held,
      reaper>>
        BY <1>4 DEF OfferReserve, NoTransport, Goto, clientVars, schedulerVars,
          executorVars, lifeVars, boundVars
    <2>2. retired' \in [Clients -> BOOLEAN]
        BY <1>4 DEF OfferReserve, NoTransport, Goto, clientVars, schedulerVars,
          executorVars, lifeVars, boundVars, Typed, PeerTyped, Offerers, Threads
    <2>3. stale' \in [Clients -> BOOLEAN]
        BY <1>4 DEF OfferReserve, NoTransport, Goto, clientVars, schedulerVars,
          executorVars, lifeVars, boundVars, Typed, PeerTyped, Offerers, Threads
    <2>4. wireGen' \in [Clients -> Nat]
        BY <1>4, OffererHasASession DEF OfferReserve, NoTransport, Goto,
          clientVars, schedulerVars, executorVars, lifeVars, boundVars, Typed,
          PeerTyped, InHand, Hand, Offerers, Threads
    <2>5. clientGen' \in [Clients -> Nat]
        BY <1>4 DEF OfferReserve, NoTransport, Goto, clientVars, schedulerVars,
          executorVars, lifeVars, boundVars, Typed, PeerTyped, InHand, Hand,
          ClientTyped, Offerers, Threads
    <2> QED
        BY <2>1, <2>2, <2>3, <2>4, <2>5 DEF Typed, PeerTyped
<1>5. ASSUME NEW t \in Offerers, OfferReset(t) PROVE PeerTyped'
    BY <1>5 DEF OfferReset, clientVars, Goto, ResetRefused, DispatchFree,
      ResetPeerConnection, SwapIn, NoTransport, Sections, Kinds, gateVars,
      schedulerVars, executorVars, peerVars, lifeVars, boundVars, Typed,
      PeerTyped
<1>6. ASSUME NEW t \in Offerers, OfferAdopt(t) PROVE PeerTyped'
    BY <1>6 DEF OfferAdopt, Goto, clientVars, schedulerVars, executorVars,
      lifeVars, boundVars, Typed, PeerTyped, InHand, Hand, ClientTyped
<1>7. ASSUME NEW t \in Offerers, OfferCreate(t) PROVE PeerTyped'
    BY <1>7 DEF OfferCreate, CreateOffer, DispatchFree, NoTransport, clientVars,
      OfferReturns, Goto, Free, Nobody, schedulerVars, executorVars, lifeVars,
      boundVars, Typed, PeerTyped, InHand, Hand, Threads
<1>8. ASSUME NEW t \in Offerers, OfferFailed(t) PROVE PeerTyped'
    BY <1>8 DEF OfferFailed, OfferReturns, Goto, Free, Nobody, clientVars,
      schedulerVars, executorVars, lifeVars, boundVars, Typed, PeerTyped,
      InHand, Hand, Threads
<1>9. ASSUME NEW t \in Removers, MarkRemoved(t) PROVE PeerTyped'
    <2>1. UNCHANGED <<admitted, mapped, initializing, retired, stale, pending,
      wireGen, clientGen, reaper>>
        BY <1>9 DEF MarkRemoved, Goto, Nobody, LetGo, Free, clientVars,
          schedulerVars, executorVars, lifeVars, boundVars
    <2>2. removed' \in [Clients -> BOOLEAN]
        BY <1>9 DEF MarkRemoved, Goto, Nobody, LetGo, Free, clientVars,
          schedulerVars, executorVars, lifeVars, boundVars, Typed, PeerTyped,
          Removers, Threads
    <2>3. held' \in [Clients -> Threads \cup {Free, "reaper"}]
        BY <1>9 DEF MarkRemoved, Goto, Nobody, LetGo, Free, clientVars,
          schedulerVars, executorVars, lifeVars, boundVars, Typed, PeerTyped,
          InHand, Hand, Threads, Removers
    <2> QED
        BY <2>1, <2>2, <2>3 DEF Typed, PeerTyped
<1>10. ASSUME NEW t \in Removers, CancelOne(t) PROVE PeerTyped'
    BY <1>10 DEF CancelOne, StartCancel, Goto, clientVars, executorVars,
      peerVars, lifeVars, boundVars, Typed, PeerTyped
<1>11. ASSUME NEW t \in Removers, Erase(t) PROVE PeerTyped'
    <2>1. UNCHANGED <<admitted, removed, initializing, retired, stale, pending,
      wireGen, clientGen>>
        BY <1>11 DEF Erase, Nobody, LetGo, Free, Goto, clientVars,
          schedulerVars, executorVars, boundVars
    <2>2. mapped' \in 0 .. admitted'
        BY <1>11, MappedType DEF Erase, Nobody, LetGo, Free, Goto, clientVars,
          schedulerVars, executorVars, boundVars, Typed, PeerTyped, Removers,
          Threads
    <2>3. held' \in [Clients -> Threads \cup {Free, "reaper"}]
        BY <1>11 DEF Erase, Nobody, LetGo, Free, Goto, clientVars,
          schedulerVars, executorVars, boundVars, Typed, PeerTyped, InHand,
          Hand, Threads, Removers
    <2>4. reaper' \in [Clients -> ReaperSteps]
        BY <1>11 DEF Erase, Nobody, LetGo, Free, Goto, clientVars,
          schedulerVars, executorVars, boundVars, Typed, PeerTyped, ReaperSteps,
          Removers, Threads
    <2> QED
        BY <2>1, <2>2, <2>3, <2>4 DEF Typed, PeerTyped
<1>12. ASSUME NEW p \in Clients, ReaperStep(p) PROVE PeerTyped'
    BY <1>12 DEF ReaperStep, Suppress, bundleVars, ReaperGoes, Quiet,
      clientVars, Free, ShutdownSwap, NoTransport, gateVars, schedulerVars,
      executorVars, threadVars, boundVars, Typed, PeerTyped, InHand, Hand,
      Threads, ReaperSteps
<1>13. CASE Request
    BY <1>13 DEF Request, Input, Goto, requestRest, clientVars, schedulerVars,
      executorVars, lifeVars, Typed, PeerTyped
<1>14. CASE OfferRequest
    <2>1. UNCHANGED <<removed, initializing, retired, stale, pending, wireGen,
      clientGen, held, reaper>>
        BY <1>14 DEF OfferRequest, Nobody, Goto, lookupRest, requestRest,
          clientVars, schedulerVars, executorVars, lifeVars
    <2>2. admitted' \in 0 .. Cardinality(Clients)
        BY <1>14, MappedType DEF OfferRequest, Nobody, Goto, lookupRest,
          requestRest, clientVars, schedulerVars, executorVars, lifeVars, Typed,
          PeerTyped
    <2>3. mapped' \in 0 .. admitted'
        BY <1>14, MappedType DEF OfferRequest, Nobody, Goto, lookupRest,
          requestRest, clientVars, schedulerVars, executorVars, lifeVars, Typed,
          PeerTyped
    <2> QED
        BY <2>1, <2>2, <2>3 DEF Typed, PeerTyped
<1>15. CASE KnownRequest
    BY <1>15 DEF KnownRequest, Nobody, Goto, lookupRest, requestRest,
      clientVars, schedulerVars, executorVars, lifeVars, Typed, PeerTyped
<1>16. CASE UnknownRequest
    BY <1>16 DEF UnknownRequest, Nobody, Goto, lookupRest, requestRest,
      clientVars, schedulerVars, executorVars, lifeVars, Typed, PeerTyped
<1>17. CASE InitLock
    <2>1. UNCHANGED <<admitted, mapped, removed, initializing, retired, stale,
      pending, wireGen, clientGen, reaper>>
        BY <1>17 DEF InitLock, Free, Withdrawn, Goto, Nobody, clientVars,
          Suppress, bundleVars, signalRest, schedulerVars, executorVars,
          lifeVars, boundVars
    <2>2. held' \in [Clients -> Threads \cup {Free, "reaper"}]
        BY <1>17 DEF InitLock, Free, Withdrawn, Goto, Nobody, Suppress,
          clientVars, bundleVars, signalRest, schedulerVars, executorVars,
          lifeVars, boundVars, Typed, PeerTyped, InHand, Hand, Threads
    <2> QED
        BY <2>1, <2>2 DEF Typed, PeerTyped
<1>18. CASE InitBuild
    BY <1>18 DEF InitBuild, InitializeSwap, Quiet, SwapIn, NoTransport,
      Sections, Kinds, gateVars, Goto, signalRest, schedulerVars, executorVars,
      lifeVars, boundVars, Typed, PeerTyped
<1>19. CASE InitResume
    BY <1>19 DEF InitResume, Resume, bundleVars, Goto, signalRest,
      schedulerVars, executorVars, lifeVars, boundVars, Typed, PeerTyped
<1>20. CASE InitInstall
    BY <1>20 DEF InitInstall, Free, Goto, signalRest, schedulerVars,
      executorVars, lifeVars, boundVars, clientVars, Typed, PeerTyped, InHand,
      Hand, ClientTyped, Threads
<1>21. CASE OfferLock
    <2>1. UNCHANGED <<admitted, mapped, removed, initializing, retired, stale,
      pending, wireGen, clientGen, reaper>>
        BY <1>21 DEF OfferLock, Free, Goto, signalRest, schedulerVars,
          executorVars, lifeVars, boundVars, clientVars
    <2>2. held' \in [Clients -> Threads \cup {Free, "reaper"}]
        BY <1>21 DEF OfferLock, Free, Goto, signalRest, schedulerVars,
          executorVars, lifeVars, boundVars, clientVars, Typed, PeerTyped,
          InHand, Hand, Threads
    <2> QED
        BY <2>1, <2>2 DEF Typed, PeerTyped
<1>22. CASE Duplicate
    <2>1. UNCHANGED <<admitted, mapped, removed, initializing, retired, stale,
      pending, wireGen, clientGen, reaper>>
        BY <1>22 DEF Duplicate, Free, Settled, Goto, Nobody, Dead, signalRest,
          schedulerVars, executorVars, lifeVars, boundVars, clientVars
    <2>2. held' \in [Clients -> Threads \cup {Free, "reaper"}]
        BY <1>22 DEF Duplicate, Free, Settled, Goto, Nobody, Dead, signalRest,
          schedulerVars, executorVars, lifeVars, boundVars, clientVars, Typed,
          PeerTyped, InHand, Hand, Threads
    <2> QED
        BY <2>1, <2>2 DEF Typed, PeerTyped
<1>23. CASE Capture
    BY <1>23 DEF Capture, NoTransport, Dismiss, Goto, Free, Nobody, clientVars,
      schedulerVars, executorVars, lifeVars, boundVars, Typed, PeerTyped,
      InHand, Hand, Threads
<1>24. CASE InsertNothing
    BY <1>24 DEF InsertNothing, Admitting, SameTransport, Dismiss, Goto, Free,
      Nobody, insertRest, clientVars, executorVars, lifeVars, boundVars, Typed,
      PeerTyped, InHand, Hand, Threads
<1>25. CASE Insert
    BY <1>25 DEF Insert, Admitting, Dismiss, Goto, Free, Nobody, insertRest,
      clientVars, executorVars, lifeVars, boundVars, Typed, PeerTyped, InHand,
      Hand, Threads
<1>26. CASE Supersede
    BY <1>26 DEF Supersede, Admitting, SameTransport, StartCancel, Goto,
      insertRest, clientVars, executorVars, lifeVars, boundVars, Typed,
      PeerTyped
<1>27. CASE Dispatch
    BY <1>27 DEF Dispatch, Goto, loopRest, clientVars, peerVars, lifeVars,
      boundVars, executorVars, Typed, PeerTyped
<1>28. CASE Enqueue
    BY <1>28 DEF Enqueue, Goto, loopRest, clientVars, peerVars, lifeVars,
      boundVars, Typed, PeerTyped
<1>29. CASE LoopEnds
    BY <1>29 DEF LoopEnds, Goto, loopRest, clientVars, peerVars, lifeVars,
      boundVars, executorVars, Typed, PeerTyped
<1>30. CASE Drop
    BY <1>30 DEF Drop, Goto, clientVars, schedulerVars, peerVars, lifeVars,
      boundVars, Typed, PeerTyped
<1>31. CASE TakeJob
    BY <1>31 DEF TakeJob, Dispatched, Admitting, Goto, workRest, schedulerVars,
      lifeVars, boundVars, clientVars, Typed, PeerTyped
<1>32. ASSUME NEW p \in Clients, TakeState(p) PROVE PeerTyped'
    BY <1>32 DEF TakeState, Free, workRest, schedulerVars, lifeVars, boundVars,
      clientVars, Typed, PeerTyped
<1>33. CASE RunLate
    BY <1>33 DEF RunLate, Dispatched, Admitting, WorkerIdle, Goto, Nobody,
      runRest, clientVars, executorVars, lifeVars, boundVars, Typed, PeerTyped
<1>34. CASE RunLock
    <2>1. UNCHANGED <<admitted, mapped, removed, initializing, retired, stale,
      pending, wireGen, clientGen, reaper>>
        BY <1>34 DEF RunLock, Dispatched, Admitting, Free, Goto, runRest,
          clientVars, executorVars, lifeVars, boundVars
    <2>2. held' \in [Clients -> Threads \cup {Free, "reaper"}]
        BY <1>34 DEF RunLock, Dispatched, Admitting, Free, Goto, runRest,
          clientVars, executorVars, lifeVars, boundVars, Typed, PeerTyped,
          InHand, Hand, Threads
    <2> QED
        BY <2>1, <2>2 DEF Typed, PeerTyped
<1>35. CASE RunAdmit
    BY <1>35 DEF RunAdmit, Leave, Free, Goto, Dispatched, Admitting, runRest,
      clientVars, executorVars, lifeVars, boundVars, Typed, PeerTyped, InHand,
      Hand, Threads
<1>36. CASE RunDecide
    BY <1>36 DEF RunDecide, Exact, Judged, Leave, Free, Goto, runRest,
      clientVars, executorVars, lifeVars, boundVars, Typed, PeerTyped, InHand,
      Hand, Threads
<1>37. CASE RunJudge
    BY <1>37 DEF RunJudge, Judged, Leave, Free, Goto, runRest, clientVars,
      executorVars, lifeVars, boundVars, Typed, PeerTyped, InHand, Hand, Threads
<1>38. CASE RunFinish
    BY <1>38 DEF RunFinish, Take, Erased, WorkerIdle, Goto, Nobody, runRest,
      clientVars, executorVars, lifeVars, boundVars, Typed, PeerTyped
<1>39. ASSUME NEW p \in Clients, Report(p) PROVE PeerTyped'
    BY <1>39 DEF Report, Input, RtcEvent, Callback, NoTransport, eventRest,
       schedulerVars, peerVars, threadVars, lifeVars, Typed, PeerTyped
<1>40. ASSUME NEW p \in Clients, Gate(p) PROVE PeerTyped'
    BY <1>40 DEF Gate, Admit, DispatchFree, Admissible, bundleVars, eventRest,
      schedulerVars, peerVars, threadVars, lifeVars, Typed, PeerTyped
<1>41. ASSUME NEW p \in Clients, CallbackReturns(p) PROVE PeerTyped'
    BY <1>41 DEF CallbackReturns, Release, bundleVars, eventRest, schedulerVars,
      peerVars, threadVars, lifeVars, Typed, PeerTyped
<1>42. ASSUME NEW p \in Clients, MediaPlan(p) PROVE PeerTyped'
    BY <1>42 DEF MediaPlan, Input, Free, EnsureMediaTracks, Kinds, NoTransport,
      gateVars, eventRest, schedulerVars, peerVars, threadVars, lifeVars, Typed,
      PeerTyped
<1>43. CASE Prune
    BY <1>43 DEF Prune, Nobody, Goto, pruneRest, clientVars, schedulerVars,
      executorVars, peerVars, lifeVars, boundVars, Typed, PeerTyped
<1>44. CASE PruneLook
    BY <1>44 DEF PruneLook, Goto, Nobody, pruneRest, clientVars, schedulerVars,
      executorVars, peerVars, lifeVars, boundVars, Typed, PeerTyped
<1>45. CASE Initialize
    BY <1>45 DEF Initialize, controlRest, clientVars, executorVars, mapRest,
      Typed, PeerTyped
<1>46. CASE GoLive
    BY <1>46 DEF GoLive, CancelAll, StartCancel, Goto, controlRest, clientVars,
      executorVars, mapRest, Typed, PeerTyped
<1>47. CASE Reopen
    BY <1>47 DEF Reopen, Goto, controlRest, clientVars, executorVars, mapRest,
      Typed, PeerTyped
<1>48. CASE StopLive
    BY <1>48 DEF StopLive, CancelAll, StartCancel, Goto, controlRest,
      clientVars, executorVars, mapRest, Typed, PeerTyped
<1>49. CASE StopJoins
    BY <1>49 DEF StopJoins, Goto, controlRest, clientVars, executorVars,
      mapRest, Typed, PeerTyped
<1>50. CASE Clear
    BY <1>50, MappedType DEF Clear, Nobody, controlRest, clientVars,
      executorVars, Typed, PeerTyped
<1>51. CASE Mark
    BY <1>51 DEF Mark, Nobody, Goto, controlRest, clientVars, executorVars,
      Typed, PeerTyped, ReaperSteps
<1>52. CASE ClearJobs
    BY <1>52 DEF ClearJobs, CancelAll, StartCancel, Goto, controlRest,
      clientVars, executorVars, mapRest, Typed, PeerTyped
<1>53. CASE Shutdown
    BY <1>53 DEF Shutdown, CancelAll, StartCancel, Goto, controlRest,
      clientVars, executorVars, mapRest, Typed, PeerTyped
<1>54. CASE JoinLoop
    BY <1>54 DEF JoinLoop, Goto, controlRest, clientVars, executorVars, mapRest,
      Typed, PeerTyped
<1>55. CASE Await
    BY <1>55 DEF Await, controlRest, clientVars, executorVars, mapRest, Typed,
      PeerTyped
<1> QED
    BY <1>1, <1>2, <1>3, <1>4, <1>5, <1>6, <1>7, <1>8, <1>9, <1>10, <1>11,
      <1>12, <1>13, <1>14, <1>15, <1>16, <1>17, <1>18, <1>19, <1>20, <1>21,
      <1>22, <1>23, <1>24, <1>25, <1>26, <1>27, <1>28, <1>29, <1>30, <1>31,
      <1>32, <1>33, <1>34, <1>35, <1>36, <1>37, <1>38, <1>39, <1>40, <1>41,
      <1>42, <1>43, <1>44, <1>45, <1>46, <1>47, <1>48, <1>49, <1>50, <1>51,
      <1>52, <1>53, <1>54, <1>55, AnyStep DEF Actions

---------------------------------------------------------------------------
(* What the operations of the client do to its state.                      *)
ClientNext(c) ==
  \/ Suppress(c) \/ Resume(c) \/ ShutdownSwap(c) \/ Release(c)
  \/ \E want \in SUBSET Media, ok \in BOOLEAN :
       \/ ResetPeerConnection(c, want, ok)
       \/ /\ at["signaling"] = "build" /\ arg["signaling"] = c
          /\ InitializeSwap(c, want, ok)
  \/ \E want \in SUBSET Media : EnsureMediaTracks(c, want)
  \/ \E e \in Events : RtcEvent(c, e)
  \/ \E k \in parked[c] : Admit(c, k)

LEMMA WishesAreMedia == Wishes \subseteq SUBSET Media /\ {"video", "audio"} \in SUBSET Media
BY DEF Wishes, Media

LEMMA ClientMoves ==
    ASSUME Typed, Next
    PROVE  UNCHANGED clientVars \/ \E c \in Clients : ClientNext(c)
<1>1. ASSUME NEW t \in Cancelers, Settle(t) PROVE UNCHANGED clientVars
    BY <1>1 DEF executorVars, peerVars, lifeVars, boundVars, Settle
<1>2. ASSUME NEW t \in Cancelers, Complete(t) PROVE UNCHANGED clientVars
    BY <1>2 DEF executorVars, lifeVars, boundVars, Complete
<1>3. ASSUME NEW t \in Offerers, OfferRefused(t) PROVE UNCHANGED clientVars
    BY <1>3 DEF schedulerVars, executorVars, lifeVars, boundVars, OfferRefused
<1>4. ASSUME NEW t \in Offerers, OfferReserve(t) PROVE UNCHANGED clientVars
    BY <1>4 DEF schedulerVars, executorVars, lifeVars, boundVars, OfferReserve
<1>5. ASSUME NEW t \in Offerers, OfferReset(t)
      PROVE  UNCHANGED clientVars \/ \E c \in Clients : ClientNext(c)
    <2>1. arg[t] \in Clients
        BY <1>5, OffererHasASession DEF OfferReset, Offerers
    <2> QED
        BY <1>5, <2>1, WishesAreMedia DEF OfferReset, ResetRefused, ClientNext
<1>6. ASSUME NEW t \in Offerers, OfferAdopt(t) PROVE UNCHANGED clientVars
    BY <1>6 DEF schedulerVars, executorVars, lifeVars, boundVars, OfferAdopt
<1>7. ASSUME NEW t \in Offerers, OfferCreate(t) PROVE UNCHANGED clientVars
    BY <1>7 DEF schedulerVars, executorVars, lifeVars, boundVars, OfferCreate,
      CreateOffer
<1>8. ASSUME NEW t \in Offerers, OfferFailed(t) PROVE UNCHANGED clientVars
    BY <1>8 DEF schedulerVars, executorVars, lifeVars, boundVars, OfferFailed
<1>9. ASSUME NEW t \in Removers, MarkRemoved(t) PROVE UNCHANGED clientVars
    BY <1>9 DEF schedulerVars, executorVars, lifeVars, boundVars, MarkRemoved
<1>10. ASSUME NEW t \in Removers, CancelOne(t) PROVE UNCHANGED clientVars
    BY <1>10 DEF executorVars, peerVars, lifeVars, boundVars, CancelOne
<1>11. ASSUME NEW t \in Removers, Erase(t) PROVE UNCHANGED clientVars
    BY <1>11 DEF schedulerVars, executorVars, boundVars, Erase
<1>12. ASSUME NEW p \in Clients, ReaperStep(p)
      PROVE  UNCHANGED clientVars \/ \E c \in Clients : ClientNext(c)
    BY <1>12, WishesAreMedia DEF ReaperStep, ClientNext
<1>13. ASSUME Request PROVE UNCHANGED clientVars
    BY <1>13 DEF requestRest, schedulerVars, executorVars, lifeVars, Request
<1>14. ASSUME OfferRequest PROVE UNCHANGED clientVars
    BY <1>14 DEF lookupRest, requestRest, schedulerVars, executorVars, lifeVars,
      OfferRequest
<1>15. ASSUME KnownRequest PROVE UNCHANGED clientVars
    BY <1>15 DEF lookupRest, requestRest, schedulerVars, executorVars, lifeVars,
      KnownRequest
<1>16. ASSUME UnknownRequest PROVE UNCHANGED clientVars
    BY <1>16 DEF lookupRest, requestRest, schedulerVars, executorVars, lifeVars,
      UnknownRequest
<1>17. ASSUME InitLock PROVE UNCHANGED clientVars \/ \E c \in Clients : ClientNext(c)
    <2>1. arg["signaling"] \in Clients
        BY <1>17, OffererHasASession DEF InitLock
    <2> QED
        BY <1>17, <2>1, WishesAreMedia DEF InitLock, ClientNext
<1>18. ASSUME InitBuild PROVE \E c \in Clients : ClientNext(c)
    <2>1. arg["signaling"] \in Clients
        BY <1>18, OffererHasASession DEF InitBuild
    <2> QED
        BY <1>18, <2>1, WishesAreMedia DEF InitBuild, ClientNext
<1>19. ASSUME InitResume PROVE \E c \in Clients : ClientNext(c)
    <2>1. arg["signaling"] \in Clients
        BY <1>19, OffererHasASession DEF InitResume
    <2> QED
        BY <1>19, <2>1, WishesAreMedia DEF InitResume, ClientNext
<1>20. ASSUME InitInstall PROVE UNCHANGED clientVars
    BY <1>20 DEF signalRest, schedulerVars, executorVars, lifeVars, boundVars,
      InitInstall
<1>21. ASSUME OfferLock PROVE UNCHANGED clientVars
    BY <1>21 DEF signalRest, schedulerVars, executorVars, lifeVars, boundVars,
      OfferLock
<1>22. ASSUME Duplicate PROVE UNCHANGED clientVars
    BY <1>22 DEF signalRest, schedulerVars, executorVars, lifeVars, boundVars,
      Duplicate
<1>23. ASSUME Capture PROVE UNCHANGED clientVars
    BY <1>23 DEF schedulerVars, executorVars, lifeVars, boundVars, Capture
<1>24. ASSUME InsertNothing PROVE UNCHANGED clientVars
    BY <1>24 DEF insertRest, executorVars, lifeVars, boundVars, InsertNothing
<1>25. ASSUME Insert PROVE UNCHANGED clientVars
    BY <1>25 DEF insertRest, executorVars, lifeVars, boundVars, Insert
<1>26. ASSUME Supersede PROVE UNCHANGED clientVars
    BY <1>26 DEF insertRest, executorVars, lifeVars, boundVars, Supersede
<1>27. ASSUME Dispatch PROVE UNCHANGED clientVars
    BY <1>27 DEF loopRest, peerVars, lifeVars, boundVars, executorVars, Dispatch
<1>28. ASSUME Enqueue PROVE UNCHANGED clientVars
    BY <1>28 DEF loopRest, peerVars, lifeVars, boundVars, Enqueue
<1>29. ASSUME LoopEnds PROVE UNCHANGED clientVars
    BY <1>29 DEF loopRest, peerVars, lifeVars, boundVars, executorVars, LoopEnds
<1>30. ASSUME Drop PROVE UNCHANGED clientVars
    BY <1>30 DEF schedulerVars, peerVars, lifeVars, boundVars, Drop
<1>31. ASSUME TakeJob PROVE UNCHANGED clientVars
    BY <1>31 DEF workRest, schedulerVars, lifeVars, boundVars, TakeJob
<1>32. ASSUME NEW p \in Clients, TakeState(p) PROVE UNCHANGED clientVars
    BY <1>32 DEF workRest, schedulerVars, lifeVars, boundVars, TakeState
<1>33. ASSUME RunLate PROVE UNCHANGED clientVars
    BY <1>33 DEF runRest, executorVars, lifeVars, boundVars, RunLate
<1>34. ASSUME RunLock PROVE UNCHANGED clientVars
    BY <1>34 DEF runRest, executorVars, lifeVars, boundVars, RunLock
<1>35. ASSUME RunAdmit PROVE UNCHANGED clientVars
    BY <1>35 DEF runRest, executorVars, lifeVars, boundVars, RunAdmit
<1>36. ASSUME RunDecide PROVE UNCHANGED clientVars
    BY <1>36 DEF runRest, executorVars, lifeVars, boundVars, RunDecide
<1>37. ASSUME RunJudge PROVE UNCHANGED clientVars
    BY <1>37 DEF runRest, executorVars, lifeVars, boundVars, RunJudge
<1>38. ASSUME RunFinish PROVE UNCHANGED clientVars
    BY <1>38 DEF runRest, executorVars, lifeVars, boundVars, RunFinish
<1>39. ASSUME NEW p \in Clients, Report(p) PROVE \E c \in Clients : ClientNext(c)
    BY <1>39, WishesAreMedia DEF Report, ClientNext
<1>40. ASSUME NEW p \in Clients, Gate(p) PROVE \E c \in Clients : ClientNext(c)
    BY <1>40, WishesAreMedia DEF Gate, ClientNext
<1>41. ASSUME NEW p \in Clients, CallbackReturns(p) PROVE \E c \in Clients : ClientNext(c)
    BY <1>41, WishesAreMedia DEF CallbackReturns, ClientNext
<1>42. ASSUME NEW p \in Clients, MediaPlan(p) PROVE \E c \in Clients : ClientNext(c)
    BY <1>42, WishesAreMedia DEF MediaPlan, ClientNext
<1>43. ASSUME Prune PROVE UNCHANGED clientVars
    BY <1>43 DEF pruneRest, schedulerVars, executorVars, peerVars, lifeVars,
      boundVars, Prune
<1>44. ASSUME PruneLook PROVE UNCHANGED clientVars
    BY <1>44 DEF pruneRest, schedulerVars, executorVars, peerVars, lifeVars,
      boundVars, PruneLook
<1>45. ASSUME Initialize PROVE UNCHANGED clientVars
    BY <1>45 DEF controlRest, executorVars, mapRest, Initialize
<1>46. ASSUME GoLive PROVE UNCHANGED clientVars
    BY <1>46 DEF controlRest, executorVars, mapRest, GoLive
<1>47. ASSUME Reopen PROVE UNCHANGED clientVars
    BY <1>47 DEF controlRest, executorVars, mapRest, Reopen
<1>48. ASSUME StopLive PROVE UNCHANGED clientVars
    BY <1>48 DEF controlRest, executorVars, mapRest, StopLive
<1>49. ASSUME StopJoins PROVE UNCHANGED clientVars
    BY <1>49 DEF controlRest, executorVars, mapRest, StopJoins
<1>50. ASSUME Clear PROVE UNCHANGED clientVars
    BY <1>50 DEF controlRest, executorVars, Clear
<1>51. ASSUME Mark PROVE UNCHANGED clientVars
    BY <1>51 DEF controlRest, executorVars, Mark
<1>52. ASSUME ClearJobs PROVE UNCHANGED clientVars
    BY <1>52 DEF controlRest, executorVars, mapRest, ClearJobs
<1>53. ASSUME Shutdown PROVE UNCHANGED clientVars
    BY <1>53 DEF controlRest, executorVars, mapRest, Shutdown
<1>54. ASSUME JoinLoop PROVE UNCHANGED clientVars
    BY <1>54 DEF controlRest, executorVars, mapRest, JoinLoop
<1>55. ASSUME Await PROVE UNCHANGED clientVars
    BY <1>55 DEF controlRest, executorVars, mapRest, Await
<1> QED
    BY <1>1, <1>2, <1>3, <1>4, <1>5, <1>6, <1>7, <1>8, <1>9, <1>10, <1>11,
      <1>12, <1>13, <1>14, <1>15, <1>16, <1>17, <1>18, <1>19, <1>20, <1>21,
      <1>22, <1>23, <1>24, <1>25, <1>26, <1>27, <1>28, <1>29, <1>30, <1>31,
      <1>32, <1>33, <1>34, <1>35, <1>36, <1>37, <1>38, <1>39, <1>40, <1>41,
      <1>42, <1>43, <1>44, <1>45, <1>46, <1>47, <1>48, <1>49, <1>50, <1>51,
      <1>52, <1>53, <1>54, <1>55, AnyStep DEF Actions

(* The sections of some kinds, as a set.                                   *)
LEMMA SetOfConcat ==
    ASSUME NEW S, NEW s \in Seq(S), NEW t \in Seq(S)
    PROVE  s \o t \in Seq(S) /\ ToSet(s \o t) = ToSet(s) \cup ToSet(t)
<1>1. s \o t \in Seq(S) /\ Len(s \o t) = Len(s) + Len(t)
    OBVIOUS
<1>2. ASSUME NEW x \in ToSet(s \o t) PROVE x \in ToSet(s) \cup ToSet(t)
    <2>1. PICK i \in 1 .. Len(s) + Len(t) : (s \o t)[i] = x
        BY <1>1, <1>2 DEF ToSet
    <2>2. CASE i <= Len(s)
        BY <2>1, <2>2 DEF ToSet
    <2>3. CASE i > Len(s)
        <3>1. i - Len(s) \in 1 .. Len(t) /\ (s \o t)[i] = t[i - Len(s)]
            BY <2>1, <2>3
        <3> QED
            BY <2>1, <3>1 DEF ToSet
    <2> QED
        BY <2>1, <2>2, <2>3
<1>3. ASSUME NEW x \in ToSet(s) PROVE x \in ToSet(s \o t)
    <2>1. PICK i \in 1 .. Len(s) : s[i] = x
        BY <1>3 DEF ToSet
    <2>2. i \in 1 .. Len(s) + Len(t) /\ (s \o t)[i] = x
        BY <2>1
    <2> QED
        BY <1>1, <2>2 DEF ToSet
<1>4. ASSUME NEW x \in ToSet(t) PROVE x \in ToSet(s \o t)
    <2>1. PICK i \in 1 .. Len(t) : t[i] = x
        BY <1>4 DEF ToSet
    <2>2. i + Len(s) \in 1 .. Len(s) + Len(t) /\ (s \o t)[i + Len(s)] = x
        BY <2>1
    <2> QED
        BY <1>1, <2>2 DEF ToSet
<1> QED
    BY <1>1, <1>2, <1>3, <1>4

LEMMA SetOfOne ==
    ASSUME NEW m \in Media, NEW kinds
    PROVE  Only(m, kinds) \in Seq(Media) /\ ToSet(Only(m, kinds)) = {m} \cap kinds
<1>1. CASE m \in kinds
    <2>1. Only(m, kinds) = <<m>>
        BY <1>1 DEF Only
    <2>2. <<m>> \in Seq(Media) /\ ToSet(<<m>>) = {m}
        BY DEF ToSet
    <2> QED
        BY <1>1, <2>1, <2>2
<1>2. CASE m \notin kinds
    <2>1. Only(m, kinds) = <<>>
        BY <1>2 DEF Only
    <2>2. <<>> \in Seq(Media) /\ ToSet(<<>>) = {}
        BY DEF ToSet
    <2> QED
        BY <1>2, <2>1, <2>2
<1> QED
    BY <1>1, <1>2

LEMMA SetOfInOrder ==
    ASSUME NEW kinds \in SUBSET Media
    PROVE  InOrder(kinds) \in Seq(Media) /\ ToSet(InOrder(kinds)) = kinds
<1> DEFINE v == Only("video", kinds)
           u == Only("audio", kinds)
           a == Only("alpha", kinds)
<1>1. /\ v \in Seq(Media) /\ ToSet(v) = {"video"} \cap kinds
      /\ u \in Seq(Media) /\ ToSet(u) = {"audio"} \cap kinds
      /\ a \in Seq(Media) /\ ToSet(a) = {"alpha"} \cap kinds
    BY SetOfOne DEF Media
<1> DEFINE w == v \o u
<1>2. InOrder(kinds) = w \o a
    BY DEF InOrder
<1> HIDE DEF v, u, a
<1>3. w \in Seq(Media) /\ ToSet(w) = ToSet(v) \cup ToSet(u)
    BY <1>1, SetOfConcat
<1> HIDE DEF w
<1>4. w \o a \in Seq(Media) /\ ToSet(w \o a) = ToSet(w) \cup ToSet(a)
    BY <1>1, <1>3, SetOfConcat
<1>5. kinds = ({"video"} \cap kinds) \cup ({"audio"} \cap kinds) \cup ({"alpha"} \cap kinds)
    BY DEF Media
<1> QED
    BY <1>1, <1>2, <1>3, <1>4, <1>5

LEMMA SectionsAreKinds ==
    ASSUME NEW want \in SUBSET Media, NEW known \in SUBSET Media
    PROVE  /\ Kinds(want, known) \in SUBSET Media
           /\ Sections(want, known) \in Seq(Media)
           /\ ToSet(Sections(want, known)) = Kinds(want, known)
           /\ "alpha" \in Kinds(want, known) => "video" \in Kinds(want, known)
<1>1. /\ Kinds(want, known) \in SUBSET Media
      /\ "alpha" \in Kinds(want, known) => "video" \in Kinds(want, known)
    BY DEF Kinds
<1> QED
    BY <1>1, SetOfInOrder DEF Sections

LEMMA NoSections == <<>> \in Seq(Media) /\ ToSet(<<>>) = {}
BY DEF ToSet

LEMMA ClientKeepsTypes ==
    ASSUME Typed, NEW c \in Clients, ClientNext(c)
    PROVE  ClientTyped'
<1>0. ClientTyped
    BY DEF Typed
<1>1. ASSUME NEW want \in SUBSET Media, NEW known \in SUBSET Media, NEW ok \in BOOLEAN,
             SwapIn(c, want, known, ok)
      PROVE  /\ transport' \in [Clients -> Nat] /\ built' \in [Clients -> Nat]
             /\ link' \in [Clients -> LinkStates]
             /\ sections' \in [Clients -> Seq(Media)]
             /\ negotiated' \in [Clients -> SUBSET Media]
    <2>1. /\ transport' \in [Clients -> Nat] /\ built' \in [Clients -> Nat]
          /\ link' \in [Clients -> LinkStates]
        BY <1>0, <1>1 DEF SwapIn, ClientTyped, NoTransport, LinkStates
    <2>2. sections' \in [Clients -> Seq(Media)]
        BY <1>0, <1>1, SectionsAreKinds, NoSections DEF SwapIn, ClientTyped
    <2> DEFINE all == known \cup (IF ok THEN ToSet(Sections(want, known)) ELSE {})
    <2>3. all \in SUBSET Media /\ negotiated' = [negotiated EXCEPT ![c] = all]
        BY <1>1, SectionsAreKinds DEF SwapIn
    <2> HIDE DEF all
    <2>4. negotiated' \in [Clients -> SUBSET Media]
        BY <1>0, <2>3 DEF ClientTyped
    <2> QED
        BY <2>1, <2>2, <2>4
<1>2. negotiated[c] \in SUBSET Media
    BY <1>0 DEF ClientTyped
<1>3. CASE Suppress(c) \/ Resume(c)
    BY <1>0, <1>3 DEF Suppress, Resume, ClientTyped, bundleVars
<1>4. CASE ShutdownSwap(c)
    BY <1>0, <1>4, NoSections DEF ShutdownSwap, ClientTyped, gateVars, NoTransport, LinkStates
<1>5. CASE Release(c)
    BY <1>0, <1>5, Silence DEF Release, ClientTyped, bundleVars
<1>6. ASSUME NEW want \in SUBSET Media, NEW ok \in BOOLEAN, ResetPeerConnection(c, want, ok)
      PROVE  ClientTyped'
    <2>1. SwapIn(c, want, negotiated[c], ok) /\ UNCHANGED <<down, suppressed, parked, body>>
        BY <1>6 DEF ResetPeerConnection, gateVars
    <2> QED
        BY <1>0, <1>1, <1>2, <2>1 DEF ClientTyped
<1>7. ASSUME NEW want \in SUBSET Media, NEW ok \in BOOLEAN, InitializeSwap(c, want, ok)
      PROVE  ClientTyped'
    <2>1. SwapIn(c, want, {}, ok) /\ UNCHANGED <<suppressed, parked, body>>
        BY <1>7 DEF InitializeSwap, gateVars
    <2>2. down' \in [Clients -> BOOLEAN]
        BY <1>0, <1>7 DEF InitializeSwap, ClientTyped
    <2> QED
        BY <1>0, <1>1, <2>1, <2>2 DEF ClientTyped
<1>8. ASSUME NEW want \in SUBSET Media, EnsureMediaTracks(c, want) PROVE ClientTyped'
    <2> DEFINE new == Kinds(want, {}) \ ToSet(sections[c])
               more == InOrder(new)
    <2>1. new \in SUBSET Media /\ more \in Seq(Media) /\ ToSet(more) = new
        <3>1. new \in SUBSET Media
            BY SectionsAreKinds
        <3> QED
            BY <3>1, SetOfInOrder
    <2>2. /\ sections' = [sections EXCEPT ![c] = @ \o more]
          /\ negotiated' = [negotiated EXCEPT ![c] = @ \cup ToSet(more)]
          /\ UNCHANGED <<transport, built, link, down, suppressed, parked, body>>
        BY <1>8 DEF EnsureMediaTracks, gateVars
    <2> HIDE DEF more, new
    <2>3. sections[c] \o more \in Seq(Media)
        BY <1>0, <2>1 DEF ClientTyped
    <2>4. sections' \in [Clients -> Seq(Media)]
        BY <1>0, <2>2, <2>3 DEF ClientTyped
    <2>5. negotiated' \in [Clients -> SUBSET Media]
        BY <1>0, <2>1, <2>2 DEF ClientTyped
    <2> QED
        BY <1>0, <2>2, <2>4, <2>5 DEF ClientTyped
<1>9. ASSUME NEW e \in Events, RtcEvent(c, e) PROVE ClientTyped'
    <2> DEFINE k == [gen |-> transport[c], event |-> e]
    <2>1. k \in Callbacks
        BY <1>0 DEF ClientTyped, Callbacks
    <2>2. /\ link' = [link EXCEPT ![c] = e] /\ parked' = [parked EXCEPT ![c] = @ \cup {k}]
          /\ UNCHANGED <<transport, built, sections, negotiated, down, suppressed, body>>
        BY <1>9 DEF RtcEvent, Callback
    <2> HIDE DEF k
    <2>3. parked' \in [Clients -> SUBSET Callbacks]
        BY <1>0, <2>1, <2>2 DEF ClientTyped
    <2>4. link' \in [Clients -> LinkStates]
        BY <1>0, <2>2 DEF ClientTyped, LinkStates
    <2> QED
        BY <1>0, <2>2, <2>3, <2>4 DEF ClientTyped
<1>10. ASSUME NEW k \in parked[c], Admit(c, k) PROVE ClientTyped'
    BY <1>0, <1>10, Silence DEF Admit, ClientTyped, bundleVars
<1> QED
    BY <1>3, <1>4, <1>5, <1>6, <1>7, <1>8, <1>9, <1>10 DEF ClientNext

---------------------------------------------------------------------------
(* What the threads have in hand.                                          *)
LEMMA HandsUntouched ==
    ASSUME InHand, UNCHANGED <<at, arg, todo, next, admitted, serial>>
    PROVE  InHand'
BY DEF InHand, Hand, MayInsert

LEMMA HandsKeep ==
    ASSUME Typed, ThreadTyped', SchedulerTyped', PeerTyped', Next
    PROVE  InHand'
<1>0. /\ ThreadTyped /\ SchedulerTyped /\ PeerTyped /\ InHand
      /\ admitted \in Nat /\ admitted' \in Nat /\ (admitted \in Nat => admitted + 1 >= admitted)
    BY MappedType DEF Typed, PeerTyped
<1>1. ASSUME NEW t \in Cancelers, Settle(t) PROVE InHand'
    <2>1. /\ t \in Threads /\ \A u \in Threads \ {t} : Keeps(u)
          /\ admitted' = admitted /\ serial' = serial
        BY <1>1, <1>0 DEF Settle, BarrierFree, Goto, executorVars, peerVars,
          lifeVars, boundVars, ThreadTyped, Keeps, Threads, Cancelers
    <2>2. /\ at[t] = "settle" /\ at'[t] = "complete" /\ arg'[t] = arg[t]
          /\ todo'[t] = todo[t] /\ next'[t] = next[t]
        BY <1>1, <1>0, <2>1 DEF Settle, BarrierFree, Goto, executorVars, peerVars,
          lifeVars, boundVars, ThreadTyped, SchedulerTyped
    <2>3. Hand(t)'
        <3>1. Hand(t) /\ next[t] \in Returns
            BY <1>0, <2>1 DEF InHand, ThreadTyped
        <3> QED
            BY <2>1, <2>2, <3>1 DEF Hand, MayInsert, Returns, Cancelers
    <2> QED
        BY <1>0, <2>1, <2>3, HandFrame
<1>2. ASSUME NEW t \in Cancelers, Complete(t) PROVE InHand'
    <2>1. /\ t \in Threads /\ \A u \in Threads \ {t} : Keeps(u)
          /\ admitted' = admitted /\ serial' = serial
        BY <1>2, <1>0 DEF Complete, Take, Erased, Home, Goto, executorVars,
          lifeVars, boundVars, ThreadTyped, Keeps, Threads, Cancelers
    <2>2. /\ at[t] = "complete" /\ at'[t] = next[t] /\ arg'[t] = arg[t]
          /\ next'[t] = Home(t)
        BY <1>2, <1>0, <2>1 DEF Complete, Take, Erased, Home, Goto, executorVars,
          lifeVars, boundVars, ThreadTyped, SchedulerTyped
    <2>3. Hand(t)'
        <3>1. Hand(t) /\ next[t] \in Returns
            BY <1>0, <2>1 DEF InHand, ThreadTyped
        <3> QED
            BY <2>1, <2>2, <3>1 DEF Hand, MayInsert, Returns, Home, Cancelers,
              Cancelers
    <2> QED
        BY <1>0, <2>1, <2>3, HandFrame
<1>3. ASSUME NEW t \in Offerers, OfferRefused(t) PROVE InHand'
    <2>1. /\ t \in Threads /\ \A u \in Threads \ {t} : Keeps(u)
          /\ admitted' = admitted /\ serial' = serial
        BY <1>3, <1>0 DEF OfferRefused, OfferReturns, Goto, Free, Nobody,
          schedulerVars, executorVars, lifeVars, boundVars, ThreadTyped, Keeps,
          Threads, Offerers
    <2>2. /\ at[t] \in {"rebuild", "bootstrap"}
          /\ \/ at'[t] \in {"judge"} /\ arg'[t] = arg[t]
             \/ t = "signaling" /\ at'[t] = "idle"
          /\ todo'[t] = todo[t] /\ next'[t] = next[t]
        <3>1. at[t] \in {"rebuild", "bootstrap"} /\ next' = next /\ todo' = todo
            BY <1>3 DEF OfferRefused, schedulerVars, executorVars, lifeVars,
              boundVars
        <3>2. PICK x \in {"judge", "idle"} :
                /\ at' = [at EXCEPT ![t] = x]
                /\ x # "idle" => arg' = arg
                /\ x = "idle" => t = "signaling"
            BY <1>3 DEF OfferRefused, OfferReturns, Goto, Free, Nobody,
              schedulerVars, executorVars, lifeVars, boundVars, Offerers
        <3>3. at'[t] = x
            BY <1>0, <2>1, <3>2 DEF ThreadTyped
        <3> QED
            BY <3>1, <3>2, <3>3
    <2>3. Hand(t)'
        <3>1. Hand(t) /\ next[t] \in Returns
            BY <1>0, <2>1 DEF InHand, ThreadTyped
        <3> QED
            BY <2>1, <2>2, <3>1 DEF Hand, MayInsert, Returns, Offerers
    <2> QED
        BY <1>0, <2>1, <2>3, HandFrame
<1>4. ASSUME NEW t \in Offerers, OfferReserve(t) PROVE InHand'
    <2>1. /\ t \in Threads /\ \A u \in Threads \ {t} : Keeps(u)
          /\ admitted' = admitted /\ serial' = serial
        BY <1>4, <1>0 DEF OfferReserve, NoTransport, Goto, schedulerVars,
          executorVars, lifeVars, boundVars, ThreadTyped, Keeps, Threads,
          Offerers
    <2>2. /\ at[t] \in {"rebuild", "bootstrap"}
          /\ \/ at'[t] \in {"reset", "create"} /\ arg'[t] = arg[t]
             \/ t = "signaling" /\ at'[t] = "idle"
          /\ todo'[t] = todo[t] /\ next'[t] = next[t]
        <3>1. at[t] \in {"rebuild", "bootstrap"} /\ next' = next /\ todo' = todo
            BY <1>4 DEF OfferReserve, schedulerVars, executorVars, lifeVars,
              boundVars
        <3>2. PICK x \in {"reset", "create"} :
                /\ at' = [at EXCEPT ![t] = x]
                /\ arg' = arg
            BY <1>4 DEF OfferReserve, NoTransport, Goto, schedulerVars,
              executorVars, lifeVars, boundVars, Offerers
        <3>3. at'[t] = x
            BY <1>0, <2>1, <3>2 DEF ThreadTyped
        <3> QED
            BY <3>1, <3>2, <3>3
    <2>3. Hand(t)'
        <3>1. Hand(t) /\ next[t] \in Returns
            BY <1>0, <2>1 DEF InHand, ThreadTyped
        <3> QED
            BY <2>1, <2>2, <3>1 DEF Hand, MayInsert, Returns, Offerers
    <2> QED
        BY <1>0, <2>1, <2>3, HandFrame
<1>5. ASSUME NEW t \in Offerers, OfferReset(t) PROVE InHand'
    <2>1. /\ t \in Threads /\ \A u \in Threads \ {t} : Keeps(u)
          /\ admitted' = admitted /\ serial' = serial
        BY <1>5, <1>0 DEF OfferReset, Goto, ResetRefused, DispatchFree,
          ResetPeerConnection, SwapIn, NoTransport, Sections, Kinds,
          schedulerVars, executorVars, peerVars, lifeVars, boundVars,
          ThreadTyped, Keeps, Threads, Offerers
    <2>2. /\ at[t] \in {"reset"}
          /\ \/ at'[t] \in {"adopt", "offerFailed"} /\ arg'[t] = arg[t]
             \/ t = "signaling" /\ at'[t] = "idle"
          /\ todo'[t] = todo[t] /\ next'[t] = next[t]
        <3>1. at[t] = "reset" /\ next' = next /\ todo' = todo
            BY <1>5 DEF OfferReset, schedulerVars, executorVars, peerVars,
              lifeVars, boundVars
        <3>2. PICK x \in {"adopt", "offerFailed"} :
                /\ at' = [at EXCEPT ![t] = x]
                /\ arg' = arg
            BY <1>5 DEF OfferReset, Goto, ResetRefused, DispatchFree,
              ResetPeerConnection, SwapIn, NoTransport, Sections, Kinds,
              schedulerVars, executorVars, peerVars, lifeVars, boundVars,
              Offerers
        <3>3. at'[t] = x
            BY <1>0, <2>1, <3>2 DEF ThreadTyped
        <3> QED
            BY <3>1, <3>2, <3>3
    <2>3. Hand(t)'
        <3>1. Hand(t) /\ next[t] \in Returns
            BY <1>0, <2>1 DEF InHand, ThreadTyped
        <3> QED
            BY <2>1, <2>2, <3>1 DEF Hand, MayInsert, Returns, Offerers
    <2> QED
        BY <1>0, <2>1, <2>3, HandFrame
<1>6. ASSUME NEW t \in Offerers, OfferAdopt(t) PROVE InHand'
    <2>1. /\ t \in Threads /\ \A u \in Threads \ {t} : Keeps(u)
          /\ admitted' = admitted /\ serial' = serial
        BY <1>6, <1>0 DEF OfferAdopt, Goto, schedulerVars, executorVars, lifeVars,
          boundVars, ThreadTyped, Keeps, Threads, Offerers
    <2>2. /\ at[t] \in {"adopt"}
          /\ \/ at'[t] \in {"create", "offerFailed"} /\ arg'[t] = arg[t]
             \/ t = "signaling" /\ at'[t] = "idle"
          /\ todo'[t] = todo[t] /\ next'[t] = next[t]
        <3>1. at[t] = "adopt" /\ next' = next /\ todo' = todo
            BY <1>6 DEF OfferAdopt, schedulerVars, executorVars, lifeVars,
              boundVars
        <3>2. PICK x \in {"create", "offerFailed"} :
                /\ at' = [at EXCEPT ![t] = x]
                /\ arg' = arg
            BY <1>6 DEF OfferAdopt, Goto, schedulerVars, executorVars, lifeVars,
              boundVars, Offerers
        <3>3. at'[t] = x
            BY <1>0, <2>1, <3>2 DEF ThreadTyped
        <3> QED
            BY <3>1, <3>2, <3>3
    <2>3. Hand(t)'
        <3>1. Hand(t) /\ next[t] \in Returns
            BY <1>0, <2>1 DEF InHand, ThreadTyped
        <3> QED
            BY <2>1, <2>2, <3>1 DEF Hand, MayInsert, Returns, Offerers
    <2> QED
        BY <1>0, <2>1, <2>3, HandFrame
<1>7. ASSUME NEW t \in Offerers, OfferCreate(t) PROVE InHand'
    <2>1. /\ t \in Threads /\ \A u \in Threads \ {t} : Keeps(u)
          /\ admitted' = admitted /\ serial' = serial
        BY <1>7, <1>0 DEF OfferCreate, CreateOffer, DispatchFree, NoTransport,
          OfferReturns, Goto, Free, Nobody, schedulerVars, executorVars,
          lifeVars, boundVars, ThreadTyped, Keeps, Threads, Offerers
    <2>2. /\ at[t] \in {"create"}
          /\ \/ at'[t] \in {"judge", "offerFailed"} /\ arg'[t] = arg[t]
             \/ t = "signaling" /\ at'[t] = "idle"
          /\ todo'[t] = todo[t] /\ next'[t] = next[t]
        <3>1. at[t] = "create" /\ next' = next /\ todo' = todo
            BY <1>7 DEF OfferCreate, schedulerVars, executorVars, lifeVars,
              boundVars
        <3>2. PICK x \in {"judge", "offerFailed", "idle"} :
                /\ at' = [at EXCEPT ![t] = x]
                /\ x # "idle" => arg' = arg
                /\ x = "idle" => t = "signaling"
            BY <1>7 DEF OfferCreate, CreateOffer, DispatchFree, NoTransport,
              OfferReturns, Goto, Free, Nobody, schedulerVars, executorVars,
              lifeVars, boundVars, Offerers
        <3>3. at'[t] = x
            BY <1>0, <2>1, <3>2 DEF ThreadTyped
        <3> QED
            BY <3>1, <3>2, <3>3
    <2>3. Hand(t)'
        <3>1. Hand(t) /\ next[t] \in Returns
            BY <1>0, <2>1 DEF InHand, ThreadTyped
        <3> QED
            BY <2>1, <2>2, <3>1 DEF Hand, MayInsert, Returns, Offerers
    <2> QED
        BY <1>0, <2>1, <2>3, HandFrame
<1>8. ASSUME NEW t \in Offerers, OfferFailed(t) PROVE InHand'
    <2>1. /\ t \in Threads /\ \A u \in Threads \ {t} : Keeps(u)
          /\ admitted' = admitted /\ serial' = serial
        BY <1>8, <1>0 DEF OfferFailed, OfferReturns, Goto, Free, Nobody,
          schedulerVars, executorVars, lifeVars, boundVars, ThreadTyped, Keeps,
          Threads, Offerers
    <2>2. /\ at[t] \in {"offerFailed"}
          /\ \/ at'[t] \in {"judge"} /\ arg'[t] = arg[t]
             \/ t = "signaling" /\ at'[t] = "idle"
          /\ todo'[t] = todo[t] /\ next'[t] = next[t]
        <3>1. at[t] = "offerFailed" /\ next' = next /\ todo' = todo
            BY <1>8 DEF OfferFailed, schedulerVars, executorVars, lifeVars,
              boundVars
        <3>2. PICK x \in {"judge", "idle"} :
                /\ at' = [at EXCEPT ![t] = x]
                /\ x # "idle" => arg' = arg
                /\ x = "idle" => t = "signaling"
            BY <1>8 DEF OfferFailed, OfferReturns, Goto, Free, Nobody,
              schedulerVars, executorVars, lifeVars, boundVars, Offerers
        <3>3. at'[t] = x
            BY <1>0, <2>1, <3>2 DEF ThreadTyped
        <3> QED
            BY <3>1, <3>2, <3>3
    <2>3. Hand(t)'
        <3>1. Hand(t) /\ next[t] \in Returns
            BY <1>0, <2>1 DEF InHand, ThreadTyped
        <3> QED
            BY <2>1, <2>2, <3>1 DEF Hand, MayInsert, Returns, Offerers
    <2> QED
        BY <1>0, <2>1, <2>3, HandFrame
<1>9. ASSUME NEW t \in Removers, MarkRemoved(t) PROVE InHand'
    <2>1. /\ t \in Threads /\ \A u \in Threads \ {t} : Keeps(u)
          /\ admitted' = admitted /\ serial' = serial
        BY <1>9, <1>0 DEF MarkRemoved, Goto, Nobody, LetGo, Free, schedulerVars,
          executorVars, lifeVars, boundVars, ThreadTyped, Keeps, Threads,
          Removers
    <2>2. /\ at[t] = "remove" /\ todo'[t] = todo[t] /\ next'[t] = next[t]
          /\ at'[t] = "idle" \/ (at'[t] = "cancelOne" /\ arg'[t] = arg[t])
        <3>1. at[t] = "remove" /\ next' = next /\ todo' = todo
            BY <1>9 DEF MarkRemoved, schedulerVars, executorVars, lifeVars,
              boundVars
        <3>2. PICK x \in {"cancelOne", "idle"} :
                /\ at' = [at EXCEPT ![t] = x]
                /\ x # "idle" => arg' = arg
            BY <1>9 DEF MarkRemoved, Goto, Nobody, LetGo, Free, schedulerVars,
              executorVars, lifeVars, boundVars, Removers
        <3>3. at'[t] = x
            BY <1>0, <2>1, <3>2 DEF ThreadTyped
        <3> QED
            BY <3>1, <3>2, <3>3
    <2>3. Hand(t)'
        <3>1. Hand(t) /\ next[t] \in Returns
            BY <1>0, <2>1 DEF InHand, ThreadTyped
        <3> QED
            BY <2>1, <2>2, <3>1 DEF Hand, MayInsert, Returns, Removers
    <2> QED
        BY <1>0, <2>1, <2>3, HandFrame
<1>10. ASSUME NEW t \in Removers, CancelOne(t) PROVE InHand'
    <2>1. /\ t \in Threads /\ \A u \in Threads \ {t} : Keeps(u)
          /\ admitted' = admitted /\ serial' = serial
        BY <1>10, <1>0 DEF CancelOne, StartCancel, Goto, executorVars, peerVars,
          lifeVars, boundVars, ThreadTyped, Keeps, Threads, Removers
    <2>2. /\ at[t] = "cancelOne" /\ arg'[t] = arg[t]
          /\ \/ at'[t] = "settle" /\ todo'[t] \in RealJobs /\ next'[t] = "erase"
             \/ at'[t] = "erase" /\ todo'[t] = todo[t] /\ next'[t] = next[t]
        BY <1>10, <1>0, <2>1, SlotFields DEF CancelOne, StartCancel, Goto,
          executorVars, peerVars, lifeVars, boundVars, ThreadTyped,
          SchedulerTyped
    <2>3. Hand(t)'
        <3>1. Hand(t) /\ next[t] \in Returns
            BY <1>0, <2>1 DEF InHand, ThreadTyped
        <3> QED
            BY <2>1, <2>2, <3>1 DEF Hand, MayInsert, Returns, Removers
    <2> QED
        BY <1>0, <2>1, <2>3, HandFrame
<1>11. ASSUME NEW t \in Removers, Erase(t) PROVE InHand'
    <2>1. /\ t \in Threads /\ \A u \in Threads \ {t} : Keeps(u)
          /\ admitted' = admitted /\ serial' = serial
        BY <1>11, <1>0 DEF Erase, Nobody, LetGo, Free, Goto, schedulerVars,
          executorVars, boundVars, ThreadTyped, Keeps, Threads, Removers
    <2>2. at'[t] = "idle" /\ todo'[t] = todo[t] /\ next'[t] = next[t]
        BY <1>11, <1>0, <2>1 DEF Erase, Nobody, LetGo, Free, Goto, schedulerVars,
          executorVars, boundVars, ThreadTyped, SchedulerTyped
    <2>3. Hand(t)'
        <3>1. Hand(t) /\ next[t] \in Returns
            BY <1>0, <2>1 DEF InHand, ThreadTyped
        <3> QED
            BY <2>1, <2>2, <3>1 DEF Hand, MayInsert, Returns, Removers
    <2> QED
        BY <1>0, <2>1, <2>3, HandFrame
<1>12. ASSUME NEW p \in Clients, ReaperStep(p) PROVE InHand'
    BY <1>0, <1>12, HandsUntouched DEF ReaperStep, schedulerVars, threadVars
<1>13. CASE Request
    BY <1>13, JobSets, SlotFields, MappedType, SMTT(20) DEF Request, Input, Goto,
      requestRest, schedulerVars, executorVars, lifeVars, Typed, ThreadTyped,
      SchedulerTyped, PeerTyped, InHand, MayInsert, Threads, Nobody, Hand
<1>14. CASE OfferRequest
    <2>1. /\ "signaling" \in Threads /\ \A u \in Threads \ {"signaling"} : Keeps(u)
          /\ admitted' = admitted + 1 /\ serial' = serial
        BY <1>14, <1>0 DEF OfferRequest, Nobody, Goto, lookupRest, requestRest,
          schedulerVars, executorVars, lifeVars, ThreadTyped, Keeps, Threads
    <2>2. /\ at'["signaling"] = "init" /\ arg'["signaling"] = admitted + 1
          /\ todo'["signaling"] = todo["signaling"]
          /\ next'["signaling"] = next["signaling"]
        BY <1>14, <1>0, <2>1 DEF OfferRequest, Nobody, Goto, lookupRest,
          requestRest, schedulerVars, executorVars, lifeVars, ThreadTyped,
          SchedulerTyped
    <2>3. Hand("signaling")'
        <3>1. Hand("signaling")
            BY <1>0, <2>1 DEF InHand
        <3> QED
            BY <2>1, <2>2, <3>1, MappedType DEF Hand, MayInsert
    <2> QED
        BY <1>0, <2>1, <2>3, HandFrame
<1>15. CASE KnownRequest
    <2>1. /\ "signaling" \in Threads /\ \A u \in Threads \ {"signaling"} : Keeps(u)
          /\ admitted' = admitted /\ serial' = serial
        BY <1>15, <1>0 DEF KnownRequest, Nobody, Goto, lookupRest, requestRest,
          schedulerVars, executorVars, lifeVars, ThreadTyped, Keeps, Threads
    <2>2. /\ at'["signaling"] \in {"duplicate", "restart", "remove"}
          /\ (at'["signaling"] = "duplicate" => serial < MaxJobs)
          /\ arg'["signaling"] = mapped /\ todo'["signaling"] = todo["signaling"]
          /\ next'["signaling"] = next["signaling"]
        BY <1>15, <1>0, <2>1 DEF KnownRequest, Nobody, Goto, lookupRest,
          requestRest, schedulerVars, executorVars, lifeVars, ThreadTyped,
          SchedulerTyped
    <2>3. Hand("signaling")'
        <3>1. Hand("signaling")
            BY <1>0, <2>1 DEF InHand
        <3> QED
            BY <1>15, <2>1, <2>2, <3>1, MappedType DEF Hand, MayInsert,
              KnownRequest, Nobody
    <2> QED
        BY <1>0, <2>1, <2>3, HandFrame
<1>16. CASE UnknownRequest
    BY <1>16, JobSets, SlotFields, MappedType, SMTT(20) DEF UnknownRequest, Nobody, Goto,
      lookupRest, requestRest, schedulerVars, executorVars, lifeVars, Typed,
      ThreadTyped, SchedulerTyped, PeerTyped, InHand, MayInsert, Threads, Hand
<1>17. CASE InitLock
    <2>1. /\ "signaling" \in Threads /\ \A u \in Threads \ {"signaling"} : Keeps(u)
          /\ admitted' = admitted /\ serial' = serial
        BY <1>17, <1>0 DEF InitLock, Free, Withdrawn, Goto, Nobody, Suppress,
          signalRest, schedulerVars, executorVars, lifeVars, boundVars,
          ThreadTyped, Keeps, Threads
    <2>2. /\ at["signaling"] = "init" /\ todo'["signaling"] = todo["signaling"]
          /\ next'["signaling"] = next["signaling"]
          /\ \/ at'["signaling"] = "idle"
             \/ at'["signaling"] = "build" /\ arg'["signaling"] = arg["signaling"]
        <3>1. at["signaling"] = "init" /\ next' = next /\ todo' = todo
            BY <1>17 DEF InitLock, signalRest, schedulerVars, executorVars,
              lifeVars, boundVars
        <3>2. PICK x \in {"build", "idle"} :
                /\ at' = [at EXCEPT !["signaling"] = x]
                /\ x # "idle" => arg' = arg
            BY <1>17 DEF InitLock, Free, Withdrawn, Goto, Nobody, Suppress,
              signalRest, schedulerVars, executorVars, lifeVars, boundVars
        <3>3. at'["signaling"] = x
            BY <1>0, <2>1, <3>2 DEF ThreadTyped
        <3> QED
            BY <3>1, <3>2, <3>3
    <2>3. Hand("signaling")'
        <3>1. Hand("signaling")
            BY <1>0, <2>1 DEF InHand
        <3> QED
            BY <2>1, <2>2, <3>1 DEF Hand, MayInsert
    <2> QED
        BY <1>0, <2>1, <2>3, HandFrame
<1>18. CASE InitBuild
    <2>1. /\ "signaling" \in Threads /\ \A u \in Threads \ {"signaling"} : Keeps(u)
          /\ admitted' = admitted /\ serial' = serial
        BY <1>18, <1>0 DEF InitBuild, InitializeSwap, Quiet, SwapIn, NoTransport,
          Sections, Kinds, Goto, signalRest, schedulerVars, executorVars,
          lifeVars, boundVars, ThreadTyped, Keeps, Threads
    <2>2. /\ at["signaling"] = "build" /\ todo'["signaling"] = todo["signaling"]
          /\ next'["signaling"] = next["signaling"]
          /\ at'["signaling"] \in {"resume", "remove"} /\ arg'["signaling"] = arg["signaling"]
        BY <1>18, <1>0, <2>1 DEF InitBuild, InitializeSwap, Quiet, SwapIn,
          NoTransport, Sections, Kinds, Goto, signalRest, schedulerVars,
          executorVars, lifeVars, boundVars, ThreadTyped, SchedulerTyped
    <2>3. Hand("signaling")'
        <3>1. Hand("signaling")
            BY <1>0, <2>1 DEF InHand
        <3> QED
            BY <2>1, <2>2, <3>1 DEF Hand, MayInsert
    <2> QED
        BY <1>0, <2>1, <2>3, HandFrame
<1>19. CASE InitResume
    <2>1. /\ "signaling" \in Threads /\ \A u \in Threads \ {"signaling"} : Keeps(u)
          /\ admitted' = admitted /\ serial' = serial
        BY <1>19, <1>0 DEF InitResume, Goto, signalRest, schedulerVars, ThreadTyped, Keeps,
          Threads
    <2>2. /\ at["signaling"] = "resume" /\ at'["signaling"] = "install"
          /\ arg'["signaling"] = arg["signaling"] /\ next'["signaling"] = next["signaling"]
        BY <1>19, <1>0, <2>1 DEF InitResume, Goto, signalRest, ThreadTyped
    <2>3. Hand("signaling")'
        BY <1>0, <2>1, <2>2 DEF InHand, Hand, MayInsert
    <2> QED
        BY <1>0, <2>1, <2>3, HandFrame
<1>20. CASE InitInstall
    <2>1. /\ "signaling" \in Threads /\ \A u \in Threads \ {"signaling"} : Keeps(u)
          /\ admitted' = admitted /\ serial' = serial
        BY <1>20, <1>0 DEF InitInstall, Goto, signalRest, schedulerVars, ThreadTyped, Keeps,
          Threads
    <2>2. /\ at["signaling"] = "install" /\ at'["signaling"] = "bootstrapLock"
          /\ arg'["signaling"] = arg["signaling"] /\ next'["signaling"] = next["signaling"]
        BY <1>20, <1>0, <2>1 DEF InitInstall, Goto, signalRest, ThreadTyped
    <2>3. Hand("signaling")'
        BY <1>0, <2>1, <2>2 DEF InHand, Hand, MayInsert
    <2> QED
        BY <1>0, <2>1, <2>3, HandFrame
<1>21. CASE OfferLock
    BY <1>21, JobSets, SlotFields, MappedType, SMTT(20) DEF OfferLock, Free, Goto,
      signalRest, schedulerVars, executorVars, lifeVars, boundVars, Typed,
      ThreadTyped, SchedulerTyped, PeerTyped, InHand, MayInsert, Threads,
      Nobody, Hand
<1>22. CASE Duplicate
    <2>1. /\ "signaling" \in Threads /\ \A u \in Threads \ {"signaling"} : Keeps(u)
          /\ admitted' = admitted /\ serial' = serial
        BY <1>22, <1>0 DEF Duplicate, Free, Settled, Goto, Nobody, Dead, signalRest,
          schedulerVars, executorVars, lifeVars, boundVars, ThreadTyped, Keeps,
          Threads
    <2>2. /\ at["signaling"] = "duplicate" /\ todo'["signaling"] = todo["signaling"]
          /\ next'["signaling"] = next["signaling"]
          /\ \/ at'["signaling"] = "idle"
             \/ at'["signaling"] \in {"rebuild", "capture"} /\ arg'["signaling"] = arg["signaling"]
        <3>1. at["signaling"] = "duplicate" /\ next' = next /\ todo' = todo
            BY <1>22 DEF Duplicate, signalRest, schedulerVars, executorVars,
              lifeVars, boundVars
        <3>2. PICK x \in {"rebuild", "capture", "idle"} :
                /\ at' = [at EXCEPT !["signaling"] = x]
                /\ x # "idle" => arg' = arg
            BY <1>22 DEF Duplicate, Free, Settled, Goto, Nobody, Dead, signalRest,
              schedulerVars, executorVars, lifeVars, boundVars
        <3>3. at'["signaling"] = x
            BY <1>0, <2>1, <3>2 DEF ThreadTyped
        <3> QED
            BY <3>1, <3>2, <3>3
    <2>3. Hand("signaling")'
        <3>1. Hand("signaling")
            BY <1>0, <2>1 DEF InHand
        <3> QED
            BY <2>1, <2>2, <3>1 DEF Hand, MayInsert
    <2> QED
        BY <1>0, <2>1, <2>3, HandFrame
<1>23. CASE Capture
    <2>1. /\ "signaling" \in Threads /\ \A u \in Threads \ {"signaling"} : Keeps(u)
          /\ admitted' = admitted /\ serial' = serial
        BY <1>23, <1>0 DEF Capture, NoTransport, Dismiss, Goto, Free, Nobody,
          schedulerVars, executorVars, lifeVars, boundVars, ThreadTyped, Keeps,
          Threads
    <2>2. /\ at["signaling"] = "capture" /\ next'["signaling"] = next["signaling"]
          /\ \/ at'["signaling"] = "idle"
             \/ /\ at'["signaling"] = "insert" /\ todo'["signaling"] \in Captured
                /\ arg'["signaling"] = arg["signaling"]
        <3>1. arg["signaling"] \in Clients
            BY <1>23, OffererHasASession DEF Capture
        <3> DEFINE p == arg["signaling"]
                   j == [serial |-> 0, peer |-> p, wire |-> wireGen[p], gen |-> clientGen[p]]
        <3>2. j \in Captured
            BY <1>0, <3>1, CapturedJob DEF PeerTyped
        <3>3. /\ at["signaling"] = "capture" /\ UNCHANGED next
              /\ \/ at' = [at EXCEPT !["signaling"] = "idle"]
                 \/ /\ at' = [at EXCEPT !["signaling"] = "insert"]
                    /\ todo' = [todo EXCEPT !["signaling"] = j]
                    /\ UNCHANGED arg
            BY <1>23 DEF Capture, Dismiss, Goto
        <3> HIDE DEF j
        <3> QED
            BY <1>0, <2>1, <3>2, <3>3 DEF ThreadTyped
    <2>3. Hand("signaling")'
        <3>1. Hand("signaling")
            BY <1>0, <2>1 DEF InHand
        <3> QED
            BY <2>1, <2>2, <3>1 DEF Hand, MayInsert
    <2> QED
        BY <1>0, <2>1, <2>3, HandFrame
<1>24. CASE InsertNothing
    <2>1. /\ "signaling" \in Threads /\ \A u \in Threads \ {"signaling"} : Keeps(u)
          /\ admitted' = admitted /\ serial' = serial
        BY <1>24, <1>0 DEF InsertNothing, Admitting, SameTransport, Dismiss, Goto,
          Free, Nobody, insertRest, executorVars, lifeVars, boundVars,
          ThreadTyped, Keeps, Threads
    <2>2. at'["signaling"] = "idle" /\ next'["signaling"] = next["signaling"]
        BY <1>24, <1>0, <2>1 DEF InsertNothing, Admitting, SameTransport, Dismiss,
          Goto, Free, Nobody, insertRest, executorVars, lifeVars, boundVars,
          ThreadTyped, SchedulerTyped
    <2>3. Hand("signaling")'
        <3>1. Hand("signaling")
            BY <1>0, <2>1 DEF InHand
        <3> QED
            BY <2>1, <2>2, <3>1 DEF Hand, MayInsert
    <2> QED
        BY <1>0, <2>1, <2>3, HandFrame
<1>25. CASE Insert
    <2>1. /\ "signaling" \in Threads /\ \A u \in Threads \ {"signaling"} : Keeps(u)
          /\ admitted' = admitted
        BY <1>25, <1>0 DEF Insert, Admitting, Dismiss, Goto, Free, Nobody,
          insertRest, executorVars, lifeVars, boundVars, ThreadTyped, Keeps,
          Threads
    <2>2. at'["signaling"] = "idle" /\ next'["signaling"] = next["signaling"]
        BY <1>25, <1>0, <2>1 DEF Insert, Admitting, Dismiss, Goto, Free, Nobody,
          insertRest, executorVars, lifeVars, boundVars, ThreadTyped,
          SchedulerTyped
    <2>3. Hand("signaling")'
        <3>1. Hand("signaling")
            BY <1>0, <2>1 DEF InHand
        <3> QED
            BY <2>1, <2>2, <3>1 DEF Hand, MayInsert
    <2> QED
        BY <1>0, <2>1, <2>3, HandFrame
<1>26. CASE Supersede
    <2>1. /\ "signaling" \in Threads /\ \A u \in Threads \ {"signaling"} : Keeps(u)
          /\ admitted' = admitted /\ serial' = serial
        BY <1>26, <1>0 DEF Supersede, Admitting, SameTransport, StartCancel, Goto,
          insertRest, executorVars, lifeVars, boundVars, ThreadTyped, Keeps,
          Threads
    <2>2. /\ at["signaling"] = "insert" /\ at'["signaling"] = "settle"
          /\ arg'["signaling"] = arg["signaling"]
          /\ todo'["signaling"] \in RealJobs /\ next'["signaling"] = "capture"
        BY <1>26, <1>0, <2>1, SlotFields DEF Supersede, Admitting, SameTransport,
          StartCancel, Goto, insertRest, executorVars, lifeVars, boundVars,
          ThreadTyped, SchedulerTyped
    <2>3. Hand("signaling")'
        <3>1. Hand("signaling")
            BY <1>0, <2>1 DEF InHand
        <3> QED
            BY <2>1, <2>2, <3>1 DEF Hand, MayInsert
    <2> QED
        BY <1>0, <2>1, <2>3, HandFrame
<1>27. CASE Dispatch
    <2>1. /\ "loop" \in Threads /\ \A u \in Threads \ {"loop"} : Keeps(u)
          /\ admitted' = admitted /\ serial' = serial
        BY <1>27, <1>0 DEF Dispatch, Goto, loopRest, peerVars, lifeVars, boundVars,
          executorVars, ThreadTyped, Keeps, Threads
    <2>2. at'["loop"] = "enqueue" /\ todo'["loop"] \in RealJobs
        BY <1>27, <1>0, <2>1, WaitingSlot, SlotFields DEF Dispatch, Goto, loopRest,
          peerVars, lifeVars, boundVars, executorVars, ThreadTyped,
          SchedulerTyped
    <2>3. Hand("loop")'
        <3>1. Hand("loop")
            BY <1>0, <2>1 DEF InHand
        <3> QED
            BY <2>1, <2>2, <3>1 DEF Hand, MayInsert
    <2> QED
        BY <1>0, <2>1, <2>3, HandFrame
<1>28. CASE Enqueue
    <2>1. /\ "loop" \in Threads /\ \A u \in Threads \ {"loop"} : Keeps(u)
          /\ admitted' = admitted /\ serial' = serial
        BY <1>28, <1>0 DEF Enqueue, Goto, loopRest, peerVars, lifeVars, boundVars,
          ThreadTyped, Keeps, Threads
    <2>2. /\ at["loop"] = "enqueue" /\ next'["loop"] = next["loop"]
          /\ at'["loop"] = "wait" \/ (at'["loop"] = "settle" /\ todo'["loop"] = todo["loop"])
        <3>1. at["loop"] = "enqueue" /\ next' = next
            BY <1>28 DEF Enqueue, loopRest, peerVars, lifeVars, boundVars
        <3>2. PICK x \in {"wait", "settle"} :
                /\ at' = [at EXCEPT !["loop"] = x]
                /\ x = "settle" => todo' = todo
            BY <1>28 DEF Enqueue, Goto, loopRest, peerVars, lifeVars, boundVars
        <3>3. at'["loop"] = x
            BY <1>0, <2>1, <3>2 DEF ThreadTyped
        <3> QED
            BY <3>1, <3>2, <3>3
    <2>3. Hand("loop")'
        <3>1. Hand("loop")
            BY <1>0, <2>1 DEF InHand
        <3> QED
            BY <2>1, <2>2, <3>1 DEF Hand, MayInsert
    <2> QED
        BY <1>0, <2>1, <2>3, HandFrame
<1>29. CASE LoopEnds
    BY <1>29, JobSets, SlotFields, MappedType, SMTT(20) DEF LoopEnds, Goto, loopRest,
      peerVars, lifeVars, boundVars, executorVars, Typed, ThreadTyped,
      SchedulerTyped, PeerTyped, InHand, MayInsert, Threads, Nobody, Hand
<1>30. CASE Drop
    <2>1. /\ "executor" \in Threads /\ \A u \in Threads \ {"executor"} : Keeps(u)
          /\ admitted' = admitted /\ serial' = serial
        BY <1>30, <1>0 DEF Drop, Goto, schedulerVars, peerVars, lifeVars, boundVars,
          ThreadTyped, Keeps, Threads
    <2>2. at'["executor"] = "settle" /\ todo'["executor"] \in RealJobs
        BY <1>30, <1>0, <2>1 DEF Drop, Goto, schedulerVars, peerVars, lifeVars,
          boundVars, ThreadTyped, SchedulerTyped
    <2>3. Hand("executor")'
        <3>1. Hand("executor")
            BY <1>0, <2>1 DEF InHand
        <3> QED
            BY <2>1, <2>2, <3>1 DEF Hand, MayInsert
    <2> QED
        BY <1>0, <2>1, <2>3, HandFrame
<1>31. CASE TakeJob
    <2>1. /\ "worker" \in Threads /\ \A u \in Threads \ {"worker"} : Keeps(u)
          /\ admitted' = admitted /\ serial' = serial
        BY <1>31, <1>0 DEF TakeJob, Dispatched, Admitting, Goto, workRest,
          schedulerVars, lifeVars, boundVars, ThreadTyped, Keeps, Threads
    <2>2. /\ at'["worker"] = "run" /\ todo'["worker"] \in RealJobs
          /\ arg'["worker"] = todo'["worker"].peer
        BY <1>31, <1>0, <2>1, JobSets DEF TakeJob, Dispatched, Admitting, Goto,
          workRest, schedulerVars, lifeVars, boundVars, ThreadTyped,
          SchedulerTyped
    <2>3. Hand("worker")'
        <3>1. Hand("worker")
            BY <1>0, <2>1 DEF InHand
        <3> QED
            BY <2>1, <2>2, <3>1 DEF Hand, MayInsert
    <2> QED
        BY <1>0, <2>1, <2>3, HandFrame
<1>32. ASSUME NEW p \in Clients, TakeState(p) PROVE InHand'
    BY <1>0, <1>32, HandsUntouched DEF TakeState, workRest, schedulerVars
<1>33. CASE RunLate
    <2>1. /\ "worker" \in Threads /\ \A u \in Threads \ {"worker"} : Keeps(u)
          /\ admitted' = admitted /\ serial' = serial
        BY <1>33, <1>0 DEF RunLate, Dispatched, Admitting, WorkerIdle, Goto, Nobody,
          runRest, executorVars, lifeVars, boundVars, ThreadTyped, Keeps,
          Threads
    <2>2. at'["worker"] = "idle"
        BY <1>33, <1>0, <2>1 DEF RunLate, Dispatched, Admitting, WorkerIdle, Goto,
          Nobody, runRest, executorVars, lifeVars, boundVars, ThreadTyped,
          SchedulerTyped
    <2>3. Hand("worker")'
        <3>1. Hand("worker")
            BY <1>0, <2>1 DEF InHand
        <3> QED
            BY <2>1, <2>2, <3>1 DEF Hand, MayInsert
    <2> QED
        BY <1>0, <2>1, <2>3, HandFrame
<1>34. CASE RunLock
    <2>1. /\ "worker" \in Threads /\ \A u \in Threads \ {"worker"} : Keeps(u)
          /\ admitted' = admitted /\ serial' = serial
        BY <1>34, <1>0 DEF RunLock, Dispatched, Admitting, Free, Goto, runRest,
          executorVars, lifeVars, boundVars, ThreadTyped, Keeps, Threads
    <2>2. /\ at["worker"] = "run" /\ at'["worker"] = "admit"
          /\ arg'["worker"] = arg["worker"] /\ todo'["worker"] = todo["worker"]
        BY <1>34, <1>0, <2>1 DEF RunLock, Dispatched, Admitting, Free, Goto,
          runRest, executorVars, lifeVars, boundVars, ThreadTyped,
          SchedulerTyped
    <2>3. Hand("worker")'
        <3>1. Hand("worker")
            BY <1>0, <2>1 DEF InHand
        <3> QED
            BY <2>1, <2>2, <3>1 DEF Hand, MayInsert
    <2> QED
        BY <1>0, <2>1, <2>3, HandFrame
<1>35. CASE RunAdmit
    <2>1. /\ "worker" \in Threads /\ \A u \in Threads \ {"worker"} : Keeps(u)
          /\ admitted' = admitted /\ serial' = serial
        BY <1>35, <1>0 DEF RunAdmit, Leave, Free, Goto, Dispatched, Admitting,
          runRest, executorVars, lifeVars, boundVars, ThreadTyped, Keeps,
          Threads
    <2>2. /\ at["worker"] = "admit" /\ at'["worker"] \in {"decide", "finish"}
          /\ arg'["worker"] = arg["worker"] /\ todo'["worker"] = todo["worker"]
        BY <1>35, <1>0, <2>1 DEF RunAdmit, Leave, Free, Goto, Dispatched, Admitting,
          runRest, executorVars, lifeVars, boundVars, ThreadTyped,
          SchedulerTyped
    <2>3. Hand("worker")'
        <3>1. Hand("worker")
            BY <1>0, <2>1 DEF InHand
        <3> QED
            BY <2>1, <2>2, <3>1 DEF Hand, MayInsert
    <2> QED
        BY <1>0, <2>1, <2>3, HandFrame
<1>36. CASE RunDecide
    <2>1. /\ "worker" \in Threads /\ \A u \in Threads \ {"worker"} : Keeps(u)
          /\ admitted' = admitted /\ serial' = serial
        BY <1>36, <1>0 DEF RunDecide, Exact, Judged, Leave, Free, Goto, runRest,
          executorVars, lifeVars, boundVars, ThreadTyped, Keeps, Threads
    <2>2. /\ at["worker"] = "decide" /\ at'["worker"] \in {"rebuild", "finish"}
          /\ arg'["worker"] = arg["worker"] /\ todo'["worker"] = todo["worker"]
        BY <1>36, <1>0, <2>1 DEF RunDecide, Exact, Judged, Leave, Free, Goto,
          runRest, executorVars, lifeVars, boundVars, ThreadTyped,
          SchedulerTyped
    <2>3. Hand("worker")'
        <3>1. Hand("worker")
            BY <1>0, <2>1 DEF InHand
        <3> QED
            BY <2>1, <2>2, <3>1 DEF Hand, MayInsert
    <2> QED
        BY <1>0, <2>1, <2>3, HandFrame
<1>37. CASE RunJudge
    <2>1. /\ "worker" \in Threads /\ \A u \in Threads \ {"worker"} : Keeps(u)
          /\ admitted' = admitted /\ serial' = serial
        BY <1>37, <1>0 DEF RunJudge, Judged, Leave, Free, Goto, runRest,
          executorVars, lifeVars, boundVars, ThreadTyped, Keeps, Threads
    <2>2. /\ at["worker"] = "judge" /\ at'["worker"] = "finish"
          /\ arg'["worker"] = arg["worker"] /\ todo'["worker"] = todo["worker"]
        BY <1>37, <1>0, <2>1 DEF RunJudge, Judged, Leave, Free, Goto, runRest,
          executorVars, lifeVars, boundVars, ThreadTyped, SchedulerTyped
    <2>3. Hand("worker")'
        <3>1. Hand("worker")
            BY <1>0, <2>1 DEF InHand
        <3> QED
            BY <2>1, <2>2, <3>1 DEF Hand, MayInsert
    <2> QED
        BY <1>0, <2>1, <2>3, HandFrame
<1>38. CASE RunFinish
    <2>1. /\ "worker" \in Threads /\ \A u \in Threads \ {"worker"} : Keeps(u)
          /\ admitted' = admitted /\ serial' = serial
        BY <1>38, <1>0 DEF RunFinish, Take, Erased, WorkerIdle, Goto, Nobody,
          runRest, executorVars, lifeVars, boundVars, ThreadTyped, Keeps,
          Threads
    <2>2. at'["worker"] = "idle"
        BY <1>38, <1>0, <2>1 DEF RunFinish, Take, Erased, WorkerIdle, Goto, Nobody,
          runRest, executorVars, lifeVars, boundVars, ThreadTyped,
          SchedulerTyped
    <2>3. Hand("worker")'
        <3>1. Hand("worker")
            BY <1>0, <2>1 DEF InHand
        <3> QED
            BY <2>1, <2>2, <3>1 DEF Hand, MayInsert
    <2> QED
        BY <1>0, <2>1, <2>3, HandFrame
<1>39. ASSUME NEW p \in Clients, Report(p) PROVE InHand'
    BY <1>0, <1>39, HandsUntouched DEF Report, eventRest, schedulerVars, peerVars,
      threadVars
<1>40. ASSUME NEW p \in Clients, Gate(p) PROVE InHand'
    BY <1>0, <1>40, HandsUntouched DEF Gate, eventRest, schedulerVars, peerVars,
      threadVars
<1>41. ASSUME NEW p \in Clients, CallbackReturns(p) PROVE InHand'
    BY <1>0, <1>41, HandsUntouched DEF CallbackReturns, eventRest, schedulerVars,
      peerVars, threadVars
<1>42. ASSUME NEW p \in Clients, MediaPlan(p) PROVE InHand'
    BY <1>0, <1>42, HandsUntouched DEF MediaPlan, eventRest, schedulerVars, peerVars,
      threadVars
<1>43. CASE Prune
    <2>1. /\ "maintenance" \in Threads /\ \A u \in Threads \ {"maintenance"} : Keeps(u)
          /\ admitted' = admitted /\ serial' = serial
        BY <1>43, <1>0 DEF Prune, Nobody, Goto, pruneRest, schedulerVars,
          executorVars, peerVars, lifeVars, boundVars, ThreadTyped, Keeps,
          Threads
    <2>2. /\ at'["maintenance"] = "look" /\ arg'["maintenance"] \in Clients
          /\ next'["maintenance"] = next["maintenance"]
        BY <1>43, <1>0, <2>1, MappedType DEF Prune, Nobody, Goto, pruneRest,
          schedulerVars, executorVars, peerVars, lifeVars, boundVars,
          ThreadTyped, SchedulerTyped
    <2>3. Hand("maintenance")'
        <3>1. Hand("maintenance")
            BY <1>0, <2>1 DEF InHand
        <3> QED
            BY <2>1, <2>2, <3>1 DEF Hand, MayInsert
    <2> QED
        BY <1>0, <2>1, <2>3, HandFrame
<1>44. CASE PruneLook
    <2>1. /\ "maintenance" \in Threads /\ \A u \in Threads \ {"maintenance"} : Keeps(u)
          /\ admitted' = admitted /\ serial' = serial
        BY <1>44, <1>0 DEF PruneLook, Goto, Nobody, pruneRest, schedulerVars,
          executorVars, peerVars, lifeVars, boundVars, ThreadTyped, Keeps,
          Threads
    <2>2. /\ at["maintenance"] = "look" /\ next'["maintenance"] = next["maintenance"]
          /\ \/ at'["maintenance"] = "idle"
             \/ at'["maintenance"] = "remove" /\ arg'["maintenance"] = arg["maintenance"]
        BY <1>44, <1>0, <2>1 DEF PruneLook, Goto, Nobody, pruneRest, schedulerVars,
          executorVars, peerVars, lifeVars, boundVars, ThreadTyped,
          SchedulerTyped
    <2>3. Hand("maintenance")'
        <3>1. Hand("maintenance")
            BY <1>0, <2>1 DEF InHand
        <3> QED
            BY <2>1, <2>2, <3>1 DEF Hand, MayInsert
    <2> QED
        BY <1>0, <2>1, <2>3, HandFrame
<1>45. CASE Initialize
    <2>1. /\ "loop" \in Threads /\ \A u \in Threads \ {"loop"} : Keeps(u)
          /\ admitted' = admitted /\ serial' = serial
        BY <1>45, <1>0 DEF Initialize, controlRest, executorVars, mapRest,
          ThreadTyped, Keeps, Threads
    <2>2. at'["loop"] = "wait"
        BY <1>45, <1>0, <2>1 DEF Initialize, controlRest, executorVars, mapRest,
          ThreadTyped, SchedulerTyped
    <2>3. Hand("loop")'
        <3>1. Hand("loop")
            BY <1>0, <2>1 DEF InHand
        <3> QED
            BY <2>1, <2>2, <3>1 DEF Hand, MayInsert
    <2> QED
        BY <1>0, <2>1, <2>3, HandFrame
<1>46. CASE GoLive
    <2>1. /\ "control" \in Threads /\ \A u \in Threads \ {"control"} : Keeps(u)
          /\ admitted' = admitted /\ serial' = serial
        BY <1>46, <1>0 DEF GoLive, CancelAll, StartCancel, Goto, controlRest,
          executorVars, mapRest, ThreadTyped, Keeps, Threads
    <2>2. /\ at'["control"] \in {"settle", "reopen"}
          /\ (at'["control"] = "settle" => todo'["control"] \in RealJobs)
        BY <1>46, <1>0, <2>1, SlotFields DEF GoLive, CancelAll, StartCancel, Goto,
          controlRest, executorVars, mapRest, ThreadTyped, SchedulerTyped
    <2>3. Hand("control")'
        <3>1. Hand("control")
            BY <1>0, <2>1 DEF InHand
        <3> QED
            BY <2>1, <2>2, <3>1 DEF Hand, MayInsert
    <2> QED
        BY <1>0, <2>1, <2>3, HandFrame
<1>47. CASE Reopen
    <2>1. /\ "control" \in Threads /\ \A u \in Threads \ {"control"} : Keeps(u)
          /\ admitted' = admitted /\ serial' = serial
        BY <1>47, <1>0 DEF Reopen, Goto, controlRest, executorVars, mapRest,
          ThreadTyped, Keeps, Threads
    <2>2. at'["control"] = "idle"
        BY <1>47, <1>0, <2>1 DEF Reopen, Goto, controlRest, executorVars, mapRest,
          ThreadTyped, SchedulerTyped
    <2>3. Hand("control")'
        <3>1. Hand("control")
            BY <1>0, <2>1 DEF InHand
        <3> QED
            BY <2>1, <2>2, <3>1 DEF Hand, MayInsert
    <2> QED
        BY <1>0, <2>1, <2>3, HandFrame
<1>48. CASE StopLive
    <2>1. /\ "control" \in Threads /\ \A u \in Threads \ {"control"} : Keeps(u)
          /\ admitted' = admitted /\ serial' = serial
        BY <1>48, <1>0 DEF StopLive, CancelAll, StartCancel, Goto, controlRest,
          executorVars, mapRest, ThreadTyped, Keeps, Threads
    <2>2. /\ at'["control"] \in {"settle", "joins"}
          /\ (at'["control"] = "settle" => todo'["control"] \in RealJobs)
        BY <1>48, <1>0, <2>1, SlotFields DEF StopLive, CancelAll, StartCancel, Goto,
          controlRest, executorVars, mapRest, ThreadTyped, SchedulerTyped
    <2>3. Hand("control")'
        <3>1. Hand("control")
            BY <1>0, <2>1 DEF InHand
        <3> QED
            BY <2>1, <2>2, <3>1 DEF Hand, MayInsert
    <2> QED
        BY <1>0, <2>1, <2>3, HandFrame
<1>49. CASE StopJoins
    <2>1. /\ "control" \in Threads /\ \A u \in Threads \ {"control"} : Keeps(u)
          /\ admitted' = admitted /\ serial' = serial
        BY <1>49, <1>0 DEF StopJoins, Goto, controlRest, executorVars, mapRest,
          ThreadTyped, Keeps, Threads
    <2>2. at'["control"] = "clear"
        BY <1>49, <1>0, <2>1 DEF StopJoins, Goto, controlRest, executorVars,
          mapRest, ThreadTyped, SchedulerTyped
    <2>3. Hand("control")'
        <3>1. Hand("control")
            BY <1>0, <2>1 DEF InHand
        <3> QED
            BY <2>1, <2>2, <3>1 DEF Hand, MayInsert
    <2> QED
        BY <1>0, <2>1, <2>3, HandFrame
<1>50. CASE Clear
    <2>1. /\ "control" \in Threads /\ \A u \in Threads \ {"control"} : Keeps(u)
          /\ admitted' = admitted /\ serial' = serial
        BY <1>50, <1>0 DEF Clear, Nobody, controlRest, executorVars, ThreadTyped,
          Keeps, Threads
    <2>2. at'["control"] = "mark"
        BY <1>50, <1>0, <2>1 DEF Clear, Nobody, controlRest, executorVars,
          ThreadTyped, SchedulerTyped
    <2>3. Hand("control")'
        <3>1. Hand("control")
            BY <1>0, <2>1 DEF InHand
        <3> QED
            BY <2>1, <2>2, <3>1 DEF Hand, MayInsert
    <2> QED
        BY <1>0, <2>1, <2>3, HandFrame
<1>51. CASE Mark
    <2>1. /\ "control" \in Threads /\ \A u \in Threads \ {"control"} : Keeps(u)
          /\ admitted' = admitted /\ serial' = serial
        BY <1>51, <1>0 DEF Mark, Nobody, Goto, controlRest, executorVars,
          ThreadTyped, Keeps, Threads
    <2>2. at'["control"] = "clearJobs"
        BY <1>51, <1>0, <2>1 DEF Mark, Nobody, Goto, controlRest, executorVars,
          ThreadTyped, SchedulerTyped
    <2>3. Hand("control")'
        <3>1. Hand("control")
            BY <1>0, <2>1 DEF InHand
        <3> QED
            BY <2>1, <2>2, <3>1 DEF Hand, MayInsert
    <2> QED
        BY <1>0, <2>1, <2>3, HandFrame
<1>52. CASE ClearJobs
    <2>1. /\ "control" \in Threads /\ \A u \in Threads \ {"control"} : Keeps(u)
          /\ admitted' = admitted /\ serial' = serial
        BY <1>52, <1>0 DEF ClearJobs, CancelAll, StartCancel, Goto, controlRest,
          executorVars, mapRest, ThreadTyped, Keeps, Threads
    <2>2. /\ at'["control"] \in {"settle", "idle", "await"}
          /\ (at'["control"] = "settle" => todo'["control"] \in RealJobs)
        BY <1>52, <1>0, <2>1, SlotFields DEF ClearJobs, CancelAll, StartCancel,
          Goto, controlRest, executorVars, mapRest, ThreadTyped, SchedulerTyped
    <2>3. Hand("control")'
        <3>1. Hand("control")
            BY <1>0, <2>1 DEF InHand
        <3> QED
            BY <2>1, <2>2, <3>1 DEF Hand, MayInsert
    <2> QED
        BY <1>0, <2>1, <2>3, HandFrame
<1>53. CASE Shutdown
    <2>1. /\ "control" \in Threads /\ \A u \in Threads \ {"control"} : Keeps(u)
          /\ admitted' = admitted /\ serial' = serial
        BY <1>53, <1>0 DEF Shutdown, CancelAll, StartCancel, Goto, controlRest,
          executorVars, mapRest, ThreadTyped, Keeps, Threads
    <2>2. /\ at'["control"] \in {"settle", "joinLoop"}
          /\ (at'["control"] = "settle" => todo'["control"] \in RealJobs)
        BY <1>53, <1>0, <2>1, SlotFields DEF Shutdown, CancelAll, StartCancel, Goto,
          controlRest, executorVars, mapRest, ThreadTyped, SchedulerTyped
    <2>3. Hand("control")'
        <3>1. Hand("control")
            BY <1>0, <2>1 DEF InHand
        <3> QED
            BY <2>1, <2>2, <3>1 DEF Hand, MayInsert
    <2> QED
        BY <1>0, <2>1, <2>3, HandFrame
<1>54. CASE JoinLoop
    <2>1. /\ "control" \in Threads /\ \A u \in Threads \ {"control"} : Keeps(u)
          /\ admitted' = admitted /\ serial' = serial
        BY <1>54, <1>0 DEF JoinLoop, Goto, controlRest, executorVars, mapRest,
          ThreadTyped, Keeps, Threads
    <2>2. at'["control"] = "stopped"
        BY <1>54, <1>0, <2>1 DEF JoinLoop, Goto, controlRest, executorVars, mapRest,
          ThreadTyped, SchedulerTyped
    <2>3. Hand("control")'
        <3>1. Hand("control")
            BY <1>0, <2>1 DEF InHand
        <3> QED
            BY <2>1, <2>2, <3>1 DEF Hand, MayInsert
    <2> QED
        BY <1>0, <2>1, <2>3, HandFrame
<1>55. CASE Await
    <2>1. /\ "control" \in Threads /\ serial' = serial /\ admitted' = admitted
          /\ at' = [at EXCEPT !["worker"] = "off", !["control"] = "off"]
          /\ UNCHANGED <<arg, todo, next>>
        BY <1>55 DEF Await, controlRest, Threads
    <2>2. ASSUME NEW u \in Threads
          PROVE  at'[u] = at[u] \/ (at'[u] = "off" /\ u \in {"worker", "control"})
        <3>1. at \in [Threads -> Steps]
            BY <1>0 DEF ThreadTyped
        <3>2. CASE u = "worker"
            BY <2>1, <3>1, <3>2 DEF Threads
        <3>3. CASE u = "control"
            BY <2>1, <3>1, <3>3 DEF Threads
        <3>4. CASE u \notin {"worker", "control"}
            BY <2>1, <3>1, <3>4
        <3> QED
            BY <3>2, <3>3, <3>4
    <2>3. \A u \in Threads : Hand(u)'
        BY <1>0, <2>1, <2>2 DEF InHand, Hand, MayInsert, Threads
    <2> QED
        BY <2>3 DEF InHand
<1> QED
    BY <1>1, <1>2, <1>3, <1>4, <1>5, <1>6, <1>7, <1>8, <1>9, <1>10, <1>11,
      <1>12, <1>13, <1>14, <1>15, <1>16, <1>17, <1>18, <1>19, <1>20, <1>21,
      <1>22, <1>23, <1>24, <1>25, <1>26, <1>27, <1>28, <1>29, <1>30, <1>31,
      <1>32, <1>33, <1>34, <1>35, <1>36, <1>37, <1>38, <1>39, <1>40, <1>41,
      <1>42, <1>43, <1>44, <1>45, <1>46, <1>47, <1>48, <1>49, <1>50, <1>51,
      <1>52, <1>53, <1>54, <1>55, AnyStep DEF Actions

---------------------------------------------------------------------------
(* Locks, the barrier, initialization, removal and the gate.               *)
LEMMA LocksStep ==
    ASSUME Typed, Locked, Next
    PROVE  Locked'
<1>1. ASSUME NEW t \in Cancelers, Settle(t) PROVE Locked'
    BY <1>1, JobSets DEF Settle, BarrierFree, Goto, executorVars, peerVars,
      lifeVars, boundVars, Typed, ThreadTyped, PeerTyped, Locked, WorkerLocked,
      SignalingLocked, InHand, Hand, Threads, Cancelers
<1>2. ASSUME NEW t \in Cancelers, Complete(t) PROVE Locked'
    BY <1>2, JobSets DEF Complete, Take, Erased, Home, Goto, executorVars,
      lifeVars, boundVars, Typed, ThreadTyped, PeerTyped, Locked, WorkerLocked,
      SignalingLocked, InHand, Hand, Threads, Cancelers
<1>3. ASSUME NEW t \in Offerers, OfferRefused(t) PROVE Locked'
    BY <1>3, JobSets DEF OfferRefused, OfferReturns, Goto, Free, Nobody,
      schedulerVars, executorVars, lifeVars, boundVars, Typed, ThreadTyped,
      PeerTyped, Locked, WorkerLocked, SignalingLocked, InHand, Hand, Threads,
      Offerers
<1>4. ASSUME NEW t \in Offerers, OfferReserve(t) PROVE Locked'
    BY <1>4, JobSets DEF OfferReserve, NoTransport, Goto, schedulerVars,
      executorVars, lifeVars, boundVars, Typed, ThreadTyped, PeerTyped, Locked,
      WorkerLocked, SignalingLocked, InHand, Hand, Threads, Offerers
<1>5. ASSUME NEW t \in Offerers, OfferReset(t) PROVE Locked'
    BY <1>5, JobSets DEF OfferReset, Goto, schedulerVars, executorVars,
      peerVars, lifeVars, boundVars, Typed, ThreadTyped, PeerTyped, Locked,
      WorkerLocked, SignalingLocked, InHand, Hand, Threads, Offerers
<1>6. ASSUME NEW t \in Offerers, OfferAdopt(t) PROVE Locked'
    BY <1>6, JobSets DEF OfferAdopt, Goto, schedulerVars, executorVars,
      lifeVars, boundVars, Typed, ThreadTyped, PeerTyped, Locked, WorkerLocked,
      SignalingLocked, InHand, Hand, Threads, Offerers
<1>7. ASSUME NEW t \in Offerers, OfferCreate(t) PROVE Locked'
    BY <1>7, JobSets DEF OfferCreate, OfferReturns, Goto, Free, Nobody,
      schedulerVars, executorVars, lifeVars, boundVars, Typed, ThreadTyped,
      PeerTyped, Locked, WorkerLocked, SignalingLocked, InHand, Hand, Threads,
      Offerers
<1>8. ASSUME NEW t \in Offerers, OfferFailed(t) PROVE Locked'
    BY <1>8, JobSets DEF OfferFailed, OfferReturns, Goto, Free, Nobody,
      schedulerVars, executorVars, lifeVars, boundVars, Typed, ThreadTyped,
      PeerTyped, Locked, WorkerLocked, SignalingLocked, InHand, Hand, Threads,
      Offerers
<1>9. ASSUME NEW t \in Removers, MarkRemoved(t) PROVE Locked'
    BY <1>9, JobSets DEF MarkRemoved, Goto, Nobody, LetGo, Free, schedulerVars,
      executorVars, lifeVars, boundVars, Typed, ThreadTyped, PeerTyped, Locked,
      WorkerLocked, SignalingLocked, InHand, Hand, Threads, Removers
<1>10. ASSUME NEW t \in Removers, CancelOne(t) PROVE Locked'
    BY <1>10, JobSets DEF CancelOne, StartCancel, Goto, executorVars, peerVars,
      lifeVars, boundVars, Typed, ThreadTyped, PeerTyped, Locked, WorkerLocked,
      SignalingLocked, InHand, Hand, Threads, Removers
<1>11. ASSUME NEW t \in Removers, Erase(t) PROVE Locked'
    BY <1>11, JobSets DEF Erase, Nobody, LetGo, Free, Goto, schedulerVars,
      executorVars, boundVars, Typed, ThreadTyped, PeerTyped, Locked,
      WorkerLocked, SignalingLocked, InHand, Hand, Threads, Removers
<1>12. ASSUME NEW p \in Clients, ReaperStep(p) PROVE Locked'
    <2>1. UNCHANGED <<at, arg, next>>
        BY <1>12 DEF ReaperStep, threadVars
    <2>2. CASE UNCHANGED held /\ \E x \in {"drain", "lock", "done"} : ReaperGoes(p, x)
        BY <2>1, <2>2 DEF ReaperGoes, Typed, PeerTyped, Locked, WorkerLocked, SignalingLocked
    <2>3. CASE UNCHANGED held /\ reaper[p] = "close" /\ ReaperGoes(p, "shutdown")
        BY <2>1, <2>3 DEF ReaperGoes, Typed, PeerTyped, Locked, WorkerLocked, SignalingLocked
    <2>4. CASE /\ held[p] = Free
               /\ held' = [held EXCEPT ![p] = "reaper"]
               /\ ReaperGoes(p, "close")
        BY <2>1, <2>4 DEF ReaperGoes, Typed, PeerTyped, Locked, WorkerLocked,
          SignalingLocked, Free
    <2>5. CASE /\ reaper[p] = "shutdown"
               /\ held' = [held EXCEPT ![p] = Free]
               /\ ReaperGoes(p, "done")
        BY <2>1, <2>5 DEF ReaperGoes, Typed, PeerTyped, Locked, WorkerLocked,
          SignalingLocked, Free
    <2> QED
        BY <1>12, <2>2, <2>3, <2>4, <2>5 DEF ReaperStep
<1>13. CASE Request
    BY <1>13, JobSets DEF Request, Input, Goto, requestRest, schedulerVars,
      executorVars, lifeVars, Typed, ThreadTyped, PeerTyped, Locked,
      WorkerLocked, SignalingLocked, InHand, Hand, Threads
<1>14. CASE OfferRequest
    BY <1>14, JobSets DEF OfferRequest, Nobody, Goto, lookupRest, requestRest,
      schedulerVars, executorVars, lifeVars, Typed, ThreadTyped, PeerTyped,
      Locked, WorkerLocked, SignalingLocked, InHand, Hand, Threads
<1>15. CASE KnownRequest
    BY <1>15, JobSets DEF KnownRequest, Nobody, Goto, lookupRest, requestRest,
      schedulerVars, executorVars, lifeVars, Typed, ThreadTyped, PeerTyped,
      Locked, WorkerLocked, SignalingLocked, InHand, Hand, Threads
<1>16. CASE UnknownRequest
    BY <1>16, JobSets DEF UnknownRequest, Nobody, Goto, lookupRest, requestRest,
      schedulerVars, executorVars, lifeVars, Typed, ThreadTyped, PeerTyped,
      Locked, WorkerLocked, SignalingLocked, InHand, Hand, Threads
<1>17. CASE InitLock
    BY <1>17, JobSets DEF InitLock, Free, Withdrawn, Goto, Nobody, signalRest,
      schedulerVars, executorVars, lifeVars, boundVars, Typed, ThreadTyped,
      PeerTyped, Locked, WorkerLocked, SignalingLocked, InHand, Hand, Threads
<1>18. CASE InitBuild
    BY <1>18, JobSets DEF InitBuild, Goto, signalRest, schedulerVars,
      executorVars, lifeVars, boundVars, Typed, ThreadTyped, PeerTyped, Locked,
      WorkerLocked, SignalingLocked, InHand, Hand, Threads
<1>19. CASE InitResume
    BY <1>19, JobSets DEF InitResume, Goto, signalRest, schedulerVars,
      executorVars, lifeVars, boundVars, Typed, ThreadTyped, PeerTyped, Locked,
      WorkerLocked, SignalingLocked, InHand, Hand, Threads
<1>20. CASE InitInstall
    BY <1>20, JobSets DEF InitInstall, Free, Goto, signalRest, schedulerVars,
      executorVars, lifeVars, boundVars, Typed, ThreadTyped, PeerTyped, Locked,
      WorkerLocked, SignalingLocked, InHand, Hand, Threads
<1>21. CASE OfferLock
    <2>1. arg["signaling"] \in Clients
        BY <1>21, OffererHasASession DEF OfferLock
    <2>2. /\ UNCHANGED <<arg, next, reaper>>
          /\ held[arg["signaling"]] = Free
          /\ held' = [held EXCEPT ![arg["signaling"]] = "signaling"]
          /\ \E x \in {"rebuild", "bootstrap"} : at' = [at EXCEPT !["signaling"] = x]
        BY <1>21 DEF OfferLock, Goto, signalRest, lifeVars
    <2> QED
        BY <2>1, <2>2 DEF Typed, ThreadTyped, PeerTyped, Locked, WorkerLocked,
          SignalingLocked, Threads, Free
<1>22. CASE Duplicate
    BY <1>22, JobSets DEF Duplicate, Free, Settled, Goto, Nobody, Dead,
      signalRest, schedulerVars, executorVars, lifeVars, boundVars, Typed,
      ThreadTyped, PeerTyped, Locked, WorkerLocked, SignalingLocked, InHand,
      Hand, Threads
<1>23. CASE Capture
    BY <1>23, JobSets DEF Capture, NoTransport, Dismiss, Goto, Free, Nobody,
      schedulerVars, executorVars, lifeVars, boundVars, Typed, ThreadTyped,
      PeerTyped, Locked, WorkerLocked, SignalingLocked, InHand, Hand, Threads
<1>24. CASE InsertNothing
    BY <1>24, JobSets DEF InsertNothing, Admitting, SameTransport, Dismiss,
      Goto, Free, Nobody, insertRest, executorVars, lifeVars, boundVars, Typed,
      ThreadTyped, PeerTyped, Locked, WorkerLocked, SignalingLocked, InHand,
      Hand, Threads
<1>25. CASE Insert
    BY <1>25, JobSets DEF Insert, Admitting, Dismiss, Goto, Free, Nobody,
      insertRest, executorVars, lifeVars, boundVars, Typed, ThreadTyped,
      PeerTyped, Locked, WorkerLocked, SignalingLocked, InHand, Hand, Threads
<1>26. CASE Supersede
    BY <1>26, JobSets DEF Supersede, Admitting, SameTransport, StartCancel,
      Goto, insertRest, executorVars, lifeVars, boundVars, Typed, ThreadTyped,
      PeerTyped, Locked, WorkerLocked, SignalingLocked, InHand, Hand, Threads
<1>27. CASE Dispatch
    BY <1>27, JobSets DEF Dispatch, Goto, loopRest, peerVars, lifeVars,
      boundVars, executorVars, Typed, ThreadTyped, PeerTyped, Locked,
      WorkerLocked, SignalingLocked, InHand, Hand, Threads
<1>28. CASE Enqueue
    BY <1>28, JobSets DEF Enqueue, Goto, loopRest, peerVars, lifeVars,
      boundVars, Typed, ThreadTyped, PeerTyped, Locked, WorkerLocked,
      SignalingLocked, InHand, Hand, Threads
<1>29. CASE LoopEnds
    BY <1>29, JobSets DEF LoopEnds, Goto, loopRest, peerVars, lifeVars,
      boundVars, executorVars, Typed, ThreadTyped, PeerTyped, Locked,
      WorkerLocked, SignalingLocked, InHand, Hand, Threads
<1>30. CASE Drop
    BY <1>30, JobSets DEF Drop, Goto, schedulerVars, peerVars, lifeVars,
      boundVars, Typed, ThreadTyped, PeerTyped, Locked, WorkerLocked,
      SignalingLocked, InHand, Hand, Threads
<1>31. CASE TakeJob
    BY <1>31, JobSets DEF TakeJob, Dispatched, Admitting, Goto, workRest,
      schedulerVars, lifeVars, boundVars, Typed, ThreadTyped, PeerTyped, Locked,
      WorkerLocked, SignalingLocked, InHand, Hand, Threads
<1>32. ASSUME NEW p \in Clients, TakeState(p) PROVE Locked'
    BY <1>32, JobSets DEF TakeState, Free, workRest, schedulerVars, lifeVars,
      boundVars, Typed, ThreadTyped, PeerTyped, Locked, WorkerLocked,
      SignalingLocked, InHand, Hand, Threads
<1>33. CASE RunLate
    BY <1>33, JobSets DEF RunLate, Dispatched, Admitting, WorkerIdle, Goto,
      Nobody, runRest, executorVars, lifeVars, boundVars, Typed, ThreadTyped,
      PeerTyped, Locked, WorkerLocked, SignalingLocked, InHand, Hand, Threads
<1>34. CASE RunLock
    BY <1>34, JobSets DEF RunLock, Dispatched, Admitting, Free, Goto, runRest,
      executorVars, lifeVars, boundVars, Typed, ThreadTyped, PeerTyped, Locked,
      WorkerLocked, SignalingLocked, InHand, Hand, Threads
<1>35. CASE RunAdmit
    <2>1. "worker" \in Threads /\ Hand("worker") /\ arg["worker"] \in Clients
        BY <1>35, OffererHasASession DEF RunAdmit, Typed, InHand, Threads
    <2>2. arg["worker"] = todo["worker"].peer /\ held[arg["worker"]] = "worker"
        BY <1>35, <2>1 DEF RunAdmit, Hand, Locked, WorkerLocked
    <2>3. UNCHANGED <<arg, next, reaper>>
        BY <1>35 DEF RunAdmit, runRest, lifeVars, Leave, Goto
    <2>4. \/ /\ at' = [at EXCEPT !["worker"] = "finish"]
             /\ held' = [held EXCEPT ![arg["worker"]] = Free]
          \/ at' = [at EXCEPT !["worker"] = "decide"] /\ held' = held
        BY <1>35, <2>2 DEF RunAdmit, Leave, Goto, Free
    <2>5. CASE at' = [at EXCEPT !["worker"] = "decide"] /\ held' = held
        BY <2>2, <2>3, <2>5 DEF Typed, ThreadTyped, PeerTyped, Locked,
          WorkerLocked, SignalingLocked, Threads
    <2>6. CASE /\ at' = [at EXCEPT !["worker"] = "finish"]
               /\ held' = [held EXCEPT ![arg["worker"]] = Free]
        BY <2>1, <2>2, <2>3, <2>6 DEF Typed, ThreadTyped, PeerTyped, Locked,
          WorkerLocked, SignalingLocked, Threads, Free
    <2> QED
        BY <2>4, <2>5, <2>6
<1>36. CASE RunDecide
    <2>1. "worker" \in Threads /\ Hand("worker") /\ arg["worker"] \in Clients
        BY <1>36, OffererHasASession DEF RunDecide, Typed, InHand, Threads
    <2>2. arg["worker"] = todo["worker"].peer /\ held[arg["worker"]] = "worker"
        BY <1>36, <2>1 DEF RunDecide, Hand, Locked, WorkerLocked
    <2>3. UNCHANGED <<arg, next, reaper>>
        BY <1>36 DEF RunDecide, runRest, lifeVars, Judged, Leave, Goto
    <2>4. \/ /\ at' = [at EXCEPT !["worker"] = "finish"]
             /\ held' = [held EXCEPT ![arg["worker"]] = Free]
          \/ at' = [at EXCEPT !["worker"] = "rebuild"] /\ held' = held
        BY <1>36, <2>2 DEF RunDecide, Judged, Leave, Goto, Free
    <2>5. CASE at' = [at EXCEPT !["worker"] = "rebuild"] /\ held' = held
        BY <2>2, <2>3, <2>5 DEF Typed, ThreadTyped, PeerTyped, Locked,
          WorkerLocked, SignalingLocked, Threads
    <2>6. CASE /\ at' = [at EXCEPT !["worker"] = "finish"]
               /\ held' = [held EXCEPT ![arg["worker"]] = Free]
        BY <2>1, <2>2, <2>3, <2>6 DEF Typed, ThreadTyped, PeerTyped, Locked,
          WorkerLocked, SignalingLocked, Threads, Free
    <2> QED
        BY <2>4, <2>5, <2>6
<1>37. CASE RunJudge
    BY <1>37, JobSets DEF RunJudge, Judged, Leave, Free, Goto, runRest,
      executorVars, lifeVars, boundVars, Typed, ThreadTyped, PeerTyped, Locked,
      WorkerLocked, SignalingLocked, InHand, Hand, Threads
<1>38. CASE RunFinish
    BY <1>38, JobSets DEF RunFinish, Take, Erased, WorkerIdle, Goto, Nobody,
      runRest, executorVars, lifeVars, boundVars, Typed, ThreadTyped, PeerTyped,
      Locked, WorkerLocked, SignalingLocked, InHand, Hand, Threads
<1>39. ASSUME NEW p \in Clients, Report(p) PROVE Locked'
    BY <1>39, JobSets DEF Report, Input, eventRest, schedulerVars, peerVars,
      threadVars, lifeVars, Typed, ThreadTyped, PeerTyped, Locked, WorkerLocked,
      SignalingLocked, InHand, Hand, Threads
<1>40. ASSUME NEW p \in Clients, Gate(p) PROVE Locked'
    BY <1>40, JobSets DEF Gate, eventRest, schedulerVars, peerVars, threadVars,
      lifeVars, Typed, ThreadTyped, PeerTyped, Locked, WorkerLocked,
      SignalingLocked, InHand, Hand, Threads
<1>41. ASSUME NEW p \in Clients, CallbackReturns(p) PROVE Locked'
    BY <1>41, JobSets DEF CallbackReturns, eventRest, schedulerVars, peerVars,
      threadVars, lifeVars, Typed, ThreadTyped, PeerTyped, Locked, WorkerLocked,
      SignalingLocked, InHand, Hand, Threads
<1>42. ASSUME NEW p \in Clients, MediaPlan(p) PROVE Locked'
    BY <1>42, JobSets DEF MediaPlan, Input, Free, eventRest, schedulerVars,
      peerVars, threadVars, lifeVars, Typed, ThreadTyped, PeerTyped, Locked,
      WorkerLocked, SignalingLocked, InHand, Hand, Threads
<1>43. CASE Prune
    BY <1>43, JobSets DEF Prune, Nobody, Goto, pruneRest, schedulerVars,
      executorVars, peerVars, lifeVars, boundVars, Typed, ThreadTyped,
      PeerTyped, Locked, WorkerLocked, SignalingLocked, InHand, Hand, Threads
<1>44. CASE PruneLook
    BY <1>44, JobSets DEF PruneLook, Goto, Nobody, pruneRest, schedulerVars,
      executorVars, peerVars, lifeVars, boundVars, Typed, ThreadTyped,
      PeerTyped, Locked, WorkerLocked, SignalingLocked, InHand, Hand, Threads
<1>45. CASE Initialize
    BY <1>45, JobSets DEF Initialize, controlRest, executorVars, mapRest, Typed,
      ThreadTyped, PeerTyped, Locked, WorkerLocked, SignalingLocked, InHand,
      Hand, Threads
<1>46. CASE GoLive
    BY <1>46, JobSets DEF GoLive, CancelAll, StartCancel, Goto, controlRest,
      executorVars, mapRest, Typed, ThreadTyped, PeerTyped, Locked,
      WorkerLocked, SignalingLocked, InHand, Hand, Threads
<1>47. CASE Reopen
    BY <1>47, JobSets DEF Reopen, Goto, controlRest, executorVars, mapRest,
      Typed, ThreadTyped, PeerTyped, Locked, WorkerLocked, SignalingLocked,
      InHand, Hand, Threads
<1>48. CASE StopLive
    BY <1>48, JobSets DEF StopLive, CancelAll, StartCancel, Goto, controlRest,
      executorVars, mapRest, Typed, ThreadTyped, PeerTyped, Locked,
      WorkerLocked, SignalingLocked, InHand, Hand, Threads
<1>49. CASE StopJoins
    BY <1>49, JobSets DEF StopJoins, Goto, controlRest, executorVars, mapRest,
      Typed, ThreadTyped, PeerTyped, Locked, WorkerLocked, SignalingLocked,
      InHand, Hand, Threads
<1>50. CASE Clear
    BY <1>50, JobSets DEF Clear, Nobody, controlRest, executorVars, Typed,
      ThreadTyped, PeerTyped, Locked, WorkerLocked, SignalingLocked, InHand,
      Hand, Threads
<1>51. CASE Mark
    BY <1>51, JobSets DEF Mark, Nobody, Goto, controlRest, executorVars, Typed,
      ThreadTyped, PeerTyped, Locked, WorkerLocked, SignalingLocked, InHand,
      Hand, Threads
<1>52. CASE ClearJobs
    BY <1>52, JobSets DEF ClearJobs, CancelAll, StartCancel, Goto, controlRest,
      executorVars, mapRest, Typed, ThreadTyped, PeerTyped, Locked,
      WorkerLocked, SignalingLocked, InHand, Hand, Threads
<1>53. CASE Shutdown
    BY <1>53, JobSets DEF Shutdown, CancelAll, StartCancel, Goto, controlRest,
      executorVars, mapRest, Typed, ThreadTyped, PeerTyped, Locked,
      WorkerLocked, SignalingLocked, InHand, Hand, Threads
<1>54. CASE JoinLoop
    BY <1>54, JobSets DEF JoinLoop, Goto, controlRest, executorVars, mapRest,
      Typed, ThreadTyped, PeerTyped, Locked, WorkerLocked, SignalingLocked,
      InHand, Hand, Threads
<1>55. CASE Await
    BY <1>55, JobSets DEF Await, controlRest, executorVars, mapRest, Typed,
      ThreadTyped, PeerTyped, Locked, WorkerLocked, SignalingLocked, InHand,
      Hand, Threads
<1> QED
    BY <1>1, <1>2, <1>3, <1>4, <1>5, <1>6, <1>7, <1>8, <1>9, <1>10, <1>11,
      <1>12, <1>13, <1>14, <1>15, <1>16, <1>17, <1>18, <1>19, <1>20, <1>21,
      <1>22, <1>23, <1>24, <1>25, <1>26, <1>27, <1>28, <1>29, <1>30, <1>31,
      <1>32, <1>33, <1>34, <1>35, <1>36, <1>37, <1>38, <1>39, <1>40, <1>41,
      <1>42, <1>43, <1>44, <1>45, <1>46, <1>47, <1>48, <1>49, <1>50, <1>51,
      <1>52, <1>53, <1>54, <1>55, AnyStep DEF Actions

LEMMA BarrierStep ==
    ASSUME Typed, BarrierInv, Next
    PROVE  BarrierInv'
<1>1. ASSUME NEW t \in Cancelers, Settle(t) PROVE BarrierInv'
    BY <1>1, JobSets DEF Settle, BarrierFree, Goto, executorVars, peerVars,
      lifeVars, boundVars, Typed, ThreadTyped, SchedulerTyped, BarrierInv,
      Rebuilding, InHand, Hand, Threads, Cancelers
<1>2. ASSUME NEW t \in Cancelers, Complete(t) PROVE BarrierInv'
    <2>1. t \in Threads /\ Hand(t) /\ next[t] \in Returns
        BY DEF Typed, InHand, ThreadTyped, Cancelers, Threads
    <2>2. /\ at[t] = "complete" /\ at' = [at EXCEPT ![t] = next[t]]
          /\ todo' = [todo EXCEPT ![t] = NoJob]
          /\ barred' = barred \cup {todo[t].serial}
          /\ UNCHANGED <<barrier, verdict>>
        BY <1>2 DEF Complete, Goto
    <2>3. /\ at'["worker"] = at["worker"] /\ todo'["worker"] = todo["worker"]
        BY <2>1, <2>2 DEF Typed, ThreadTyped, Cancelers, Threads
    <2>4. verdict[todo[t].serial] # "none"
        BY <2>1, <2>2 DEF BarrierInv
    <2>5. ASSUME NEW u \in Threads, at'[u] = "complete"
          PROVE  at[u] = "complete" /\ todo'[u] = todo[u]
        BY <2>1, <2>2, <2>5 DEF Typed, ThreadTyped, Returns
    <2> QED
        BY <2>2, <2>3, <2>4, <2>5 DEF BarrierInv, Rebuilding
<1>3. ASSUME NEW t \in Offerers, OfferRefused(t) PROVE BarrierInv'
    <2>1. PICK x \in {"judge", "idle"} : at' = [at EXCEPT ![t] = x]
        BY <1>3 DEF OfferRefused, OfferReturns, Goto
    <2>2. at[t] \in {"rebuild", "bootstrap"} /\ UNCHANGED <<barrier, verdict, barred, todo>>
        BY <1>3 DEF OfferRefused, schedulerVars
    <2>3. t \in Threads
        BY DEF Offerers, Threads
    <2>4. t = "worker" => at[t] = "rebuild"
        BY <2>2, <2>3 DEF Typed, InHand, Hand
    <2>5. at'["worker"] \in Rebuilding \cup {"decide"}
            => at["worker"] \in Rebuilding \cup {"decide"}
        BY <2>1, <2>3, <2>4 DEF Rebuilding, Typed, ThreadTyped
    <2>6. ASSUME NEW u \in Threads, at'[u] = "complete" PROVE at[u] = "complete"
        BY <2>1, <2>3, <2>6 DEF Typed, ThreadTyped
    <2> QED
        BY <2>2, <2>5, <2>6 DEF BarrierInv
<1>4. ASSUME NEW t \in Offerers, OfferReserve(t) PROVE BarrierInv'
    <2>1. PICK x \in {"reset", "create"} : at' = [at EXCEPT ![t] = x]
        BY <1>4 DEF OfferReserve, Goto
    <2>2. at[t] \in {"rebuild", "bootstrap"} /\ UNCHANGED <<barrier, verdict, barred, todo>>
        BY <1>4 DEF OfferReserve, schedulerVars
    <2>3. t \in Threads
        BY DEF Offerers, Threads
    <2>4. t = "worker" => at[t] = "rebuild"
        BY <2>2, <2>3 DEF Typed, InHand, Hand
    <2>5. at'["worker"] \in Rebuilding \cup {"decide"}
            => at["worker"] \in Rebuilding \cup {"decide"}
        BY <2>1, <2>3, <2>4 DEF Rebuilding, Typed, ThreadTyped
    <2>6. ASSUME NEW u \in Threads, at'[u] = "complete" PROVE at[u] = "complete"
        BY <2>1, <2>3, <2>6 DEF Typed, ThreadTyped
    <2> QED
        BY <2>2, <2>5, <2>6 DEF BarrierInv
<1>5. ASSUME NEW t \in Offerers, OfferReset(t) PROVE BarrierInv'
    BY <1>5, JobSets DEF OfferReset, Goto, schedulerVars, executorVars,
      peerVars, lifeVars, boundVars, Typed, ThreadTyped, SchedulerTyped,
      BarrierInv, Rebuilding, InHand, Hand, Threads, Offerers
<1>6. ASSUME NEW t \in Offerers, OfferAdopt(t) PROVE BarrierInv'
    BY <1>6, JobSets DEF OfferAdopt, Goto, schedulerVars, executorVars,
      lifeVars, boundVars, Typed, ThreadTyped, SchedulerTyped, BarrierInv,
      Rebuilding, InHand, Hand, Threads, Offerers
<1>7. ASSUME NEW t \in Offerers, OfferCreate(t) PROVE BarrierInv'
    BY <1>7, JobSets DEF OfferCreate, OfferReturns, Goto, Free, Nobody,
      schedulerVars, executorVars, lifeVars, boundVars, Typed, ThreadTyped,
      SchedulerTyped, BarrierInv, Rebuilding, InHand, Hand, Threads, Offerers
<1>8. ASSUME NEW t \in Offerers, OfferFailed(t) PROVE BarrierInv'
    BY <1>8, JobSets DEF OfferFailed, OfferReturns, Goto, Free, Nobody,
      schedulerVars, executorVars, lifeVars, boundVars, Typed, ThreadTyped,
      SchedulerTyped, BarrierInv, Rebuilding, InHand, Hand, Threads, Offerers
<1>9. ASSUME NEW t \in Removers, MarkRemoved(t) PROVE BarrierInv'
    BY <1>9, JobSets DEF MarkRemoved, Goto, Nobody, LetGo, Free, schedulerVars,
      executorVars, lifeVars, boundVars, Typed, ThreadTyped, SchedulerTyped,
      BarrierInv, Rebuilding, InHand, Hand, Threads, Removers
<1>10. ASSUME NEW t \in Removers, CancelOne(t) PROVE BarrierInv'
    BY <1>10, JobSets DEF CancelOne, StartCancel, Goto, executorVars, peerVars,
      lifeVars, boundVars, Typed, ThreadTyped, SchedulerTyped, BarrierInv,
      Rebuilding, InHand, Hand, Threads, Removers
<1>11. ASSUME NEW t \in Removers, Erase(t) PROVE BarrierInv'
    BY <1>11, JobSets DEF Erase, Nobody, LetGo, Free, Goto, schedulerVars,
      executorVars, boundVars, Typed, ThreadTyped, SchedulerTyped, BarrierInv,
      Rebuilding, InHand, Hand, Threads, Removers
<1>12. ASSUME NEW p \in Clients, ReaperStep(p) PROVE BarrierInv'
    BY <1>12, JobSets DEF ReaperStep, ReaperGoes, Quiet, Free, schedulerVars,
      executorVars, threadVars, boundVars, Typed, ThreadTyped, SchedulerTyped,
      BarrierInv, Rebuilding, InHand, Hand, Threads
<1>13. CASE Request
    BY <1>13, JobSets DEF Request, Input, Goto, requestRest, schedulerVars,
      executorVars, lifeVars, Typed, ThreadTyped, SchedulerTyped, BarrierInv,
      Rebuilding, InHand, Hand, Threads
<1>14. CASE OfferRequest
    BY <1>14, JobSets DEF OfferRequest, Nobody, Goto, lookupRest, requestRest,
      schedulerVars, executorVars, lifeVars, Typed, ThreadTyped, SchedulerTyped,
      BarrierInv, Rebuilding, InHand, Hand, Threads
<1>15. CASE KnownRequest
    BY <1>15, JobSets DEF KnownRequest, Nobody, Goto, lookupRest, requestRest,
      schedulerVars, executorVars, lifeVars, Typed, ThreadTyped, SchedulerTyped,
      BarrierInv, Rebuilding, InHand, Hand, Threads
<1>16. CASE UnknownRequest
    BY <1>16, JobSets DEF UnknownRequest, Nobody, Goto, lookupRest, requestRest,
      schedulerVars, executorVars, lifeVars, Typed, ThreadTyped, SchedulerTyped,
      BarrierInv, Rebuilding, InHand, Hand, Threads
<1>17. CASE InitLock
    BY <1>17, JobSets DEF InitLock, Free, Withdrawn, Goto, Nobody, signalRest,
      schedulerVars, executorVars, lifeVars, boundVars, Typed, ThreadTyped,
      SchedulerTyped, BarrierInv, Rebuilding, InHand, Hand, Threads
<1>18. CASE InitBuild
    BY <1>18, JobSets DEF InitBuild, Goto, signalRest, schedulerVars,
      executorVars, lifeVars, boundVars, Typed, ThreadTyped, SchedulerTyped,
      BarrierInv, Rebuilding, InHand, Hand, Threads
<1>19. CASE InitResume
    BY <1>19, JobSets DEF InitResume, Goto, signalRest, schedulerVars,
      executorVars, lifeVars, boundVars, Typed, ThreadTyped, SchedulerTyped,
      BarrierInv, Rebuilding, InHand, Hand, Threads
<1>20. CASE InitInstall
    BY <1>20, JobSets DEF InitInstall, Free, Goto, signalRest, schedulerVars,
      executorVars, lifeVars, boundVars, Typed, ThreadTyped, SchedulerTyped,
      BarrierInv, Rebuilding, InHand, Hand, Threads
<1>21. CASE OfferLock
    BY <1>21, JobSets DEF OfferLock, Free, Goto, signalRest, schedulerVars,
      executorVars, lifeVars, boundVars, Typed, ThreadTyped, SchedulerTyped,
      BarrierInv, Rebuilding, InHand, Hand, Threads
<1>22. CASE Duplicate
    BY <1>22, JobSets DEF Duplicate, Free, Settled, Goto, Nobody, Dead,
      signalRest, schedulerVars, executorVars, lifeVars, boundVars, Typed,
      ThreadTyped, SchedulerTyped, BarrierInv, Rebuilding, InHand, Hand, Threads
<1>23. CASE Capture
    BY <1>23, JobSets DEF Capture, NoTransport, Dismiss, Goto, Free, Nobody,
      schedulerVars, executorVars, lifeVars, boundVars, Typed, ThreadTyped,
      SchedulerTyped, BarrierInv, Rebuilding, InHand, Hand, Threads
<1>24. CASE InsertNothing
    BY <1>24, JobSets DEF InsertNothing, Admitting, SameTransport, Dismiss,
      Goto, Free, Nobody, insertRest, executorVars, lifeVars, boundVars, Typed,
      ThreadTyped, SchedulerTyped, BarrierInv, Rebuilding, InHand, Hand, Threads
<1>25. CASE Insert
    BY <1>25, JobSets DEF Insert, Admitting, Dismiss, Goto, Free, Nobody,
      insertRest, executorVars, lifeVars, boundVars, Typed, ThreadTyped,
      SchedulerTyped, BarrierInv, Rebuilding, InHand, Hand, Threads
<1>26. CASE Supersede
    BY <1>26, JobSets DEF Supersede, Admitting, SameTransport, StartCancel,
      Goto, insertRest, executorVars, lifeVars, boundVars, Typed, ThreadTyped,
      SchedulerTyped, BarrierInv, Rebuilding, InHand, Hand, Threads
<1>27. CASE Dispatch
    BY <1>27, JobSets DEF Dispatch, Goto, loopRest, peerVars, lifeVars,
      boundVars, executorVars, Typed, ThreadTyped, SchedulerTyped, BarrierInv,
      Rebuilding, InHand, Hand, Threads
<1>28. CASE Enqueue
    BY <1>28, JobSets DEF Enqueue, Goto, loopRest, peerVars, lifeVars,
      boundVars, Typed, ThreadTyped, SchedulerTyped, BarrierInv, Rebuilding,
      InHand, Hand, Threads
<1>29. CASE LoopEnds
    BY <1>29, JobSets DEF LoopEnds, Goto, loopRest, peerVars, lifeVars,
      boundVars, executorVars, Typed, ThreadTyped, SchedulerTyped, BarrierInv,
      Rebuilding, InHand, Hand, Threads
<1>30. CASE Drop
    BY <1>30, JobSets DEF Drop, Goto, schedulerVars, peerVars, lifeVars,
      boundVars, Typed, ThreadTyped, SchedulerTyped, BarrierInv, Rebuilding,
      InHand, Hand, Threads
<1>31. CASE TakeJob
    BY <1>31, JobSets DEF TakeJob, Dispatched, Admitting, Goto, workRest,
      schedulerVars, lifeVars, boundVars, Typed, ThreadTyped, SchedulerTyped,
      BarrierInv, Rebuilding, InHand, Hand, Threads
<1>32. ASSUME NEW p \in Clients, TakeState(p) PROVE BarrierInv'
    BY <1>32, JobSets DEF TakeState, Free, workRest, schedulerVars, lifeVars,
      boundVars, Typed, ThreadTyped, SchedulerTyped, BarrierInv, Rebuilding,
      InHand, Hand, Threads
<1>33. CASE RunLate
    BY <1>33, JobSets DEF RunLate, Dispatched, Admitting, WorkerIdle, Goto,
      Nobody, runRest, executorVars, lifeVars, boundVars, Typed, ThreadTyped,
      SchedulerTyped, BarrierInv, Rebuilding, InHand, Hand, Threads
<1>34. CASE RunLock
    BY <1>34, JobSets DEF RunLock, Dispatched, Admitting, Free, Goto, runRest,
      executorVars, lifeVars, boundVars, Typed, ThreadTyped, SchedulerTyped,
      BarrierInv, Rebuilding, InHand, Hand, Threads
<1>35. CASE RunAdmit
    BY <1>35, JobSets DEF RunAdmit, Leave, Free, Goto, Dispatched, Admitting,
      runRest, executorVars, lifeVars, boundVars, Typed, ThreadTyped,
      SchedulerTyped, BarrierInv, Rebuilding, InHand, Hand, Threads
<1>36. CASE RunDecide
    BY <1>36, JobSets DEF RunDecide, Exact, Judged, Leave, Free, Goto, runRest,
      executorVars, lifeVars, boundVars, Typed, ThreadTyped, SchedulerTyped,
      BarrierInv, Rebuilding, InHand, Hand, Threads
<1>37. CASE RunJudge
    BY <1>37, JobSets DEF RunJudge, Judged, Leave, Free, Goto, runRest,
      executorVars, lifeVars, boundVars, Typed, ThreadTyped, SchedulerTyped,
      BarrierInv, Rebuilding, InHand, Hand, Threads
<1>38. CASE RunFinish
    BY <1>38, JobSets DEF RunFinish, Take, Erased, WorkerIdle, Goto, Nobody,
      runRest, executorVars, lifeVars, boundVars, Typed, ThreadTyped,
      SchedulerTyped, BarrierInv, Rebuilding, InHand, Hand, Threads
<1>39. ASSUME NEW p \in Clients, Report(p) PROVE BarrierInv'
    BY <1>39, JobSets DEF Report, Input, eventRest, schedulerVars, peerVars,
      threadVars, lifeVars, Typed, ThreadTyped, SchedulerTyped, BarrierInv,
      Rebuilding, InHand, Hand, Threads
<1>40. ASSUME NEW p \in Clients, Gate(p) PROVE BarrierInv'
    BY <1>40, JobSets DEF Gate, eventRest, schedulerVars, peerVars, threadVars,
      lifeVars, Typed, ThreadTyped, SchedulerTyped, BarrierInv, Rebuilding,
      InHand, Hand, Threads
<1>41. ASSUME NEW p \in Clients, CallbackReturns(p) PROVE BarrierInv'
    BY <1>41, JobSets DEF CallbackReturns, eventRest, schedulerVars, peerVars,
      threadVars, lifeVars, Typed, ThreadTyped, SchedulerTyped, BarrierInv,
      Rebuilding, InHand, Hand, Threads
<1>42. ASSUME NEW p \in Clients, MediaPlan(p) PROVE BarrierInv'
    BY <1>42, JobSets DEF MediaPlan, Input, Free, eventRest, schedulerVars,
      peerVars, threadVars, lifeVars, Typed, ThreadTyped, SchedulerTyped,
      BarrierInv, Rebuilding, InHand, Hand, Threads
<1>43. CASE Prune
    BY <1>43, JobSets DEF Prune, Nobody, Goto, pruneRest, schedulerVars,
      executorVars, peerVars, lifeVars, boundVars, Typed, ThreadTyped,
      SchedulerTyped, BarrierInv, Rebuilding, InHand, Hand, Threads
<1>44. CASE PruneLook
    BY <1>44, JobSets DEF PruneLook, Goto, Nobody, pruneRest, schedulerVars,
      executorVars, peerVars, lifeVars, boundVars, Typed, ThreadTyped,
      SchedulerTyped, BarrierInv, Rebuilding, InHand, Hand, Threads
<1>45. CASE Initialize
    BY <1>45, JobSets DEF Initialize, controlRest, executorVars, mapRest, Typed,
      ThreadTyped, SchedulerTyped, BarrierInv, Rebuilding, InHand, Hand, Threads
<1>46. CASE GoLive
    BY <1>46, JobSets DEF GoLive, CancelAll, StartCancel, Goto, controlRest,
      executorVars, mapRest, Typed, ThreadTyped, SchedulerTyped, BarrierInv,
      Rebuilding, InHand, Hand, Threads
<1>47. CASE Reopen
    BY <1>47, JobSets DEF Reopen, Goto, controlRest, executorVars, mapRest,
      Typed, ThreadTyped, SchedulerTyped, BarrierInv, Rebuilding, InHand, Hand,
      Threads
<1>48. CASE StopLive
    BY <1>48, JobSets DEF StopLive, CancelAll, StartCancel, Goto, controlRest,
      executorVars, mapRest, Typed, ThreadTyped, SchedulerTyped, BarrierInv,
      Rebuilding, InHand, Hand, Threads
<1>49. CASE StopJoins
    BY <1>49, JobSets DEF StopJoins, Goto, controlRest, executorVars, mapRest,
      Typed, ThreadTyped, SchedulerTyped, BarrierInv, Rebuilding, InHand, Hand,
      Threads
<1>50. CASE Clear
    BY <1>50, JobSets DEF Clear, Nobody, controlRest, executorVars, Typed,
      ThreadTyped, SchedulerTyped, BarrierInv, Rebuilding, InHand, Hand, Threads
<1>51. CASE Mark
    BY <1>51, JobSets DEF Mark, Nobody, Goto, controlRest, executorVars, Typed,
      ThreadTyped, SchedulerTyped, BarrierInv, Rebuilding, InHand, Hand, Threads
<1>52. CASE ClearJobs
    BY <1>52, JobSets DEF ClearJobs, CancelAll, StartCancel, Goto, controlRest,
      executorVars, mapRest, Typed, ThreadTyped, SchedulerTyped, BarrierInv,
      Rebuilding, InHand, Hand, Threads
<1>53. CASE Shutdown
    BY <1>53, JobSets DEF Shutdown, CancelAll, StartCancel, Goto, controlRest,
      executorVars, mapRest, Typed, ThreadTyped, SchedulerTyped, BarrierInv,
      Rebuilding, InHand, Hand, Threads
<1>54. CASE JoinLoop
    BY <1>54, JobSets DEF JoinLoop, Goto, controlRest, executorVars, mapRest,
      Typed, ThreadTyped, SchedulerTyped, BarrierInv, Rebuilding, InHand, Hand,
      Threads
<1>55. CASE Await
    BY <1>55, JobSets DEF Await, controlRest, executorVars, mapRest, Typed,
      ThreadTyped, SchedulerTyped, BarrierInv, Rebuilding, InHand, Hand, Threads
<1> QED
    BY <1>1, <1>2, <1>3, <1>4, <1>5, <1>6, <1>7, <1>8, <1>9, <1>10, <1>11,
      <1>12, <1>13, <1>14, <1>15, <1>16, <1>17, <1>18, <1>19, <1>20, <1>21,
      <1>22, <1>23, <1>24, <1>25, <1>26, <1>27, <1>28, <1>29, <1>30, <1>31,
      <1>32, <1>33, <1>34, <1>35, <1>36, <1>37, <1>38, <1>39, <1>40, <1>41,
      <1>42, <1>43, <1>44, <1>45, <1>46, <1>47, <1>48, <1>49, <1>50, <1>51,
      <1>52, <1>53, <1>54, <1>55, AnyStep DEF Actions

LEMMA FreshStep ==
    ASSUME Typed, FreshInv, Next
    PROVE  FreshInv'
<1>1. ASSUME NEW t \in Cancelers, Settle(t) PROVE FreshInv'
    BY <1>1 DEF Settle, BarrierFree, Goto, clientVars, executorVars, peerVars,
      lifeVars, boundVars, Typed, ThreadTyped, PeerTyped, FreshInv, Threads,
      Cancelers
<1>2. ASSUME NEW t \in Cancelers, Complete(t) PROVE FreshInv'
    <2>1. t \in Threads /\ next[t] \in Returns
        BY DEF Typed, ThreadTyped, Cancelers, Threads
    <2>2. /\ at' = [at EXCEPT ![t] = next[t]]
          /\ UNCHANGED <<admitted, initializing, arg, transport>>
        BY <1>2 DEF Complete, Goto, clientVars, bundleVars, gateVars, lifeVars
    <2>3. \A u \in Threads : at'[u] = at[u] \/ at'[u] \in Returns
        BY <2>1, <2>2 DEF Typed, ThreadTyped
    <2>4. /\ at'["signaling"] = at["signaling"] \/ at["signaling"] = "complete"
          /\ at'["worker"] = at["worker"]
        BY <2>1, <2>2, <1>2 DEF Complete, Typed, ThreadTyped, Threads, Cancelers
    <2> QED
        BY <2>2, <2>3, <2>4 DEF FreshInv, Returns, Threads
<1>3. ASSUME NEW t \in Offerers, OfferRefused(t) PROVE FreshInv'
    BY <1>3 DEF OfferRefused, OfferReturns, Goto, Free, Nobody, clientVars,
      schedulerVars, executorVars, lifeVars, boundVars, Typed, ThreadTyped,
      PeerTyped, FreshInv, Threads, Offerers
<1>4. ASSUME NEW t \in Offerers, OfferReserve(t) PROVE FreshInv'
    BY <1>4 DEF OfferReserve, NoTransport, Goto, clientVars, schedulerVars,
      executorVars, lifeVars, boundVars, Typed, ThreadTyped, PeerTyped,
      FreshInv, Threads, Offerers
<1>5. ASSUME NEW t \in Offerers, OfferReset(t) PROVE FreshInv'
    <2>1. t \in Threads /\ arg[t] \in Clients
        BY <1>5, OffererHasASession DEF OfferReset, Offerers
    <2>2. PICK x \in {"offerFailed", "adopt"} : at' = [at EXCEPT ![t] = x]
        BY <1>5 DEF OfferReset, Goto
    <2>3. /\ at[t] = "reset"
          /\ UNCHANGED <<admitted, initializing, removed, reaper, arg>>
        BY <1>5 DEF OfferReset, peerVars, lifeVars
    <2>4. \/ UNCHANGED <<transport, body, suppressed, down>>
          \/ /\ ~down[arg[t]] /\ body[arg[t]] = NoBody
             /\ UNCHANGED <<body, suppressed, down>>
             /\ \E g \in Nat : transport' = [transport EXCEPT ![arg[t]] = g]
      <3>1. CASE UNCHANGED clientVars
          BY <3>1 DEF clientVars
      <3>2. ASSUME NEW want, NEW ok \in BOOLEAN, ResetPeerConnection(arg[t], want, ok)
            PROVE  /\ ~down[arg[t]] /\ body[arg[t]] = NoBody
                   /\ UNCHANGED <<body, suppressed, down>>
                   /\ \E g \in Nat : transport' = [transport EXCEPT ![arg[t]] = g]
        <4> DEFINE p == arg[t]
                   g == IF ok THEN built[p] + 1 ELSE NoTransport
        <4>1. g \in Nat
            BY <2>1 DEF Typed, ClientTyped, NoTransport
        <4>2. /\ ~down[p] /\ body[p] = NoBody /\ UNCHANGED <<body, suppressed, down>>
              /\ transport' = [transport EXCEPT ![p] = g]
            BY <3>2 DEF ResetPeerConnection, DispatchFree, SwapIn, gateVars
        <4> HIDE DEF g
        <4> QED
            BY <4>1, <4>2
      <3> QED
          BY <1>5, <3>1, <3>2 DEF OfferReset, ResetRefused
    <2>5. at'[t] \in {"offerFailed", "adopt"} /\ \A u \in Threads \ {t} : at'[u] = at[u]
        BY <2>1, <2>2 DEF Typed, ThreadTyped
    <2>6. CASE UNCHANGED <<transport, body, suppressed, down>>
        BY <2>1, <2>3, <2>5, <2>6 DEF FreshInv, Threads, Offerers
    <2>7. CASE /\ ~down[arg[t]] /\ body[arg[t]] = NoBody
               /\ UNCHANGED <<body, suppressed, down>>
               /\ \E g \in Nat : transport' = [transport EXCEPT ![arg[t]] = g]
      <3>1. PICK g \in Nat : transport' = [transport EXCEPT ![arg[t]] = g]
          BY <2>7
      <3>2. \A q \in Clients : q # arg[t] => transport'[q] = transport[q]
          BY <2>1, <3>1 DEF Typed, ClientTyped
      <3> QED
          BY <2>1, <2>3, <2>5, <2>7, <3>2 DEF FreshInv, Threads, Offerers
    <2> QED
        BY <2>4, <2>6, <2>7
<1>6. ASSUME NEW t \in Offerers, OfferAdopt(t) PROVE FreshInv'
    BY <1>6 DEF OfferAdopt, Goto, clientVars, schedulerVars, executorVars,
      lifeVars, boundVars, Typed, ThreadTyped, PeerTyped, FreshInv, Threads,
      Offerers
<1>7. ASSUME NEW t \in Offerers, OfferCreate(t) PROVE FreshInv'
    BY <1>7 DEF OfferCreate, CreateOffer, DispatchFree, NoTransport, clientVars,
      OfferReturns, Goto, Free, Nobody, schedulerVars, executorVars, lifeVars,
      boundVars, Typed, ThreadTyped, PeerTyped, FreshInv, Threads, Offerers
<1>8. ASSUME NEW t \in Offerers, OfferFailed(t) PROVE FreshInv'
    BY <1>8 DEF OfferFailed, OfferReturns, Goto, Free, Nobody, clientVars,
      schedulerVars, executorVars, lifeVars, boundVars, Typed, ThreadTyped,
      PeerTyped, FreshInv, Threads, Offerers
<1>9. ASSUME NEW t \in Removers, MarkRemoved(t) PROVE FreshInv'
    BY <1>9 DEF MarkRemoved, Goto, Nobody, LetGo, Free, clientVars,
      schedulerVars, executorVars, lifeVars, boundVars, Typed, ThreadTyped,
      PeerTyped, FreshInv, Threads, Removers
<1>10. ASSUME NEW t \in Removers, CancelOne(t) PROVE FreshInv'
    BY <1>10 DEF CancelOne, StartCancel, Goto, clientVars, executorVars,
      peerVars, lifeVars, boundVars, Typed, ThreadTyped, PeerTyped, FreshInv,
      Threads, Removers
<1>11. ASSUME NEW t \in Removers, Erase(t) PROVE FreshInv'
    BY <1>11 DEF Erase, Nobody, LetGo, Free, Goto, clientVars, schedulerVars,
      executorVars, boundVars, Typed, ThreadTyped, PeerTyped, FreshInv, Threads,
      Removers
<1>12. ASSUME NEW p \in Clients, ReaperStep(p) PROVE FreshInv'
    <2>1. UNCHANGED <<at, arg, admitted, initializing>>
        BY <1>12 DEF ReaperStep, threadVars
    <2>2. transport' = transport \/ transport' = [transport EXCEPT ![p] = NoTransport]
        BY <1>12 DEF ReaperStep, Suppress, ShutdownSwap, clientVars, bundleVars, gateVars
    <2>3. \A q \in Clients : transport'[q] = transport[q] \/ transport'[q] = NoTransport
        BY <2>2 DEF Typed, ClientTyped
    <2> QED
        BY <2>1, <2>3 DEF FreshInv
<1>13. CASE Request
    BY <1>13 DEF Request, Input, Goto, requestRest, clientVars, schedulerVars,
      executorVars, lifeVars, Typed, ThreadTyped, PeerTyped, FreshInv, Threads
<1>14. CASE OfferRequest
    <2>1. /\ at["signaling"] = "lookup"
          /\ admitted' = admitted + 1
          /\ admitted < Cardinality(Clients)
          /\ arg' = [arg EXCEPT !["signaling"] = admitted + 1]
          /\ at' = [at EXCEPT !["signaling"] = "init"]
          /\ UNCHANGED <<initializing, transport>>
        BY <1>14 DEF OfferRequest, Goto, lookupRest, requestRest, clientVars,
          bundleVars, gateVars
    <2>2. admitted \in Nat /\ admitted + 1 \in Clients /\ admitted + 1 > admitted
        BY <2>1, MappedType
    <2>3. \A p \in Clients : p > admitted + 1 => p > admitted
        BY <2>2, RecheckAssumption, ClientsAssumption, FS_CardinalityType
    <2>4. /\ at'["signaling"] = "init" /\ arg'["signaling"] = admitted + 1
          /\ at'["worker"] = at["worker"] /\ arg'["worker"] = arg["worker"]
        BY <2>1 DEF Typed, ThreadTyped, Threads
    <2> QED
        BY <2>1, <2>2, <2>3, <2>4 DEF FreshInv
<1>15. CASE KnownRequest
    BY <1>15 DEF KnownRequest, Nobody, Goto, lookupRest, requestRest,
      clientVars, schedulerVars, executorVars, lifeVars, Typed, ThreadTyped,
      PeerTyped, FreshInv, Threads
<1>16. CASE UnknownRequest
    BY <1>16 DEF UnknownRequest, Nobody, Goto, lookupRest, requestRest,
      clientVars, schedulerVars, executorVars, lifeVars, Typed, ThreadTyped,
      PeerTyped, FreshInv, Threads
<1>17. CASE InitLock
    BY <1>17 DEF InitLock, Free, Withdrawn, Goto, Nobody, clientVars, Suppress,
      bundleVars, signalRest, schedulerVars, executorVars, lifeVars, boundVars,
      Typed, ThreadTyped, PeerTyped, FreshInv, Threads
<1>18. CASE InitBuild
    BY <1>18, SMTT(20) DEF InitBuild, InitializeSwap, Quiet, SwapIn, NoTransport,
      gateVars, Goto, signalRest, schedulerVars, executorVars, lifeVars,
      boundVars, Typed, ThreadTyped, PeerTyped, FreshInv, Threads
<1>19. CASE InitResume
    BY <1>19 DEF InitResume, Resume, bundleVars, Goto, signalRest,
      schedulerVars, executorVars, lifeVars, boundVars, Typed, ThreadTyped,
      PeerTyped, FreshInv, Threads
<1>20. CASE InitInstall
    <2>1. /\ at["signaling"] = "install"
          /\ initializing' = [initializing EXCEPT ![arg["signaling"]] = FALSE]
          /\ at' = [at EXCEPT !["signaling"] = "bootstrapLock"]
          /\ UNCHANGED <<admitted, transport, arg>>
        BY <1>20 DEF InitInstall, Goto, signalRest, clientVars, bundleVars, gateVars
    <2>2. arg["signaling"] \in 1 .. admitted /\ arg["signaling"] \in Clients
        BY <2>1, OffererHasASession DEF Typed, InHand, Hand, Threads
    <2>3. /\ at'["signaling"] = "bootstrapLock" /\ at'["worker"] = at["worker"]
        BY <2>1 DEF Typed, ThreadTyped, Threads
    <2>4. /\ ~initializing'[arg["signaling"]]
          /\ \A q \in Clients : q # arg["signaling"] => initializing'[q] = initializing[q]
        BY <2>1, <2>2 DEF Typed, PeerTyped
    <2>5. ~(arg["signaling"] > admitted)
        BY <2>2, MappedType
    <2>6. at["worker"] = "reset" => arg["worker"] \in Clients
        BY OffererHasASession
    <2> QED
        BY <2>1, <2>2, <2>3, <2>4, <2>5, <2>6 DEF FreshInv
<1>21. CASE OfferLock
    BY <1>21 DEF OfferLock, Free, Goto, signalRest, schedulerVars, executorVars,
      lifeVars, boundVars, clientVars, Typed, ThreadTyped, PeerTyped, FreshInv,
      Threads
<1>22. CASE Duplicate
    BY <1>22 DEF Duplicate, Free, Goto, Nobody, signalRest, schedulerVars,
      executorVars, lifeVars, boundVars, clientVars, Typed, ThreadTyped,
      PeerTyped, FreshInv, Threads
<1>23. CASE Capture
    BY <1>23 DEF Capture, NoTransport, Dismiss, Goto, Free, Nobody, clientVars,
      schedulerVars, executorVars, lifeVars, boundVars, Typed, ThreadTyped,
      PeerTyped, FreshInv, Threads
<1>24. CASE InsertNothing
    BY <1>24 DEF InsertNothing, Dismiss, Goto, Free, Nobody, insertRest,
      clientVars, executorVars, lifeVars, boundVars, Typed, ThreadTyped,
      PeerTyped, FreshInv, Threads
<1>25. CASE Insert
    BY <1>25 DEF Insert, Dismiss, Goto, Free, Nobody, insertRest, clientVars,
      executorVars, lifeVars, boundVars, Typed, ThreadTyped, PeerTyped,
      FreshInv, Threads
<1>26. CASE Supersede
    BY <1>26 DEF Supersede, StartCancel, Goto, insertRest, clientVars,
      executorVars, lifeVars, boundVars, Typed, ThreadTyped, PeerTyped,
      FreshInv, Threads
<1>27. CASE Dispatch
    BY <1>27 DEF Dispatch, Goto, loopRest, clientVars, peerVars, lifeVars,
      boundVars, executorVars, Typed, ThreadTyped, PeerTyped, FreshInv, Threads
<1>28. CASE Enqueue
    BY <1>28 DEF Enqueue, Goto, loopRest, clientVars, peerVars, lifeVars,
      boundVars, Typed, ThreadTyped, PeerTyped, FreshInv, Threads
<1>29. CASE LoopEnds
    BY <1>29 DEF LoopEnds, Goto, loopRest, clientVars, peerVars, lifeVars,
      boundVars, executorVars, Typed, ThreadTyped, PeerTyped, FreshInv, Threads
<1>30. CASE Drop
    BY <1>30 DEF Drop, Goto, clientVars, schedulerVars, peerVars, lifeVars,
      boundVars, Typed, ThreadTyped, PeerTyped, FreshInv, Threads
<1>31. CASE TakeJob
    BY <1>31 DEF TakeJob, Goto, workRest, schedulerVars, lifeVars, boundVars,
      clientVars, Typed, ThreadTyped, PeerTyped, FreshInv, Threads
<1>32. ASSUME NEW p \in Clients, TakeState(p) PROVE FreshInv'
    BY <1>32 DEF TakeState, Free, workRest, schedulerVars, lifeVars, boundVars,
      clientVars, Typed, ThreadTyped, PeerTyped, FreshInv, Threads
<1>33. CASE RunLate
    BY <1>33 DEF RunLate, WorkerIdle, Goto, Nobody, runRest, clientVars,
      executorVars, lifeVars, boundVars, Typed, ThreadTyped, PeerTyped,
      FreshInv, Threads
<1>34. CASE RunLock
    BY <1>34 DEF RunLock, Free, Goto, runRest, clientVars, executorVars,
      lifeVars, boundVars, Typed, ThreadTyped, PeerTyped, FreshInv, Threads
<1>35. CASE RunAdmit
    BY <1>35 DEF RunAdmit, Leave, Free, Goto, runRest, clientVars, executorVars,
      lifeVars, boundVars, Typed, ThreadTyped, PeerTyped, FreshInv, Threads
<1>36. CASE RunDecide
    BY <1>36 DEF RunDecide, Judged, Leave, Free, Goto, runRest, clientVars,
      executorVars, lifeVars, boundVars, Typed, ThreadTyped, PeerTyped,
      FreshInv, Threads
<1>37. CASE RunJudge
    BY <1>37 DEF RunJudge, Judged, Leave, Free, Goto, runRest, clientVars,
      executorVars, lifeVars, boundVars, Typed, ThreadTyped, PeerTyped,
      FreshInv, Threads
<1>38. CASE RunFinish
    BY <1>38 DEF RunFinish, WorkerIdle, Goto, Nobody, runRest, clientVars,
      executorVars, lifeVars, boundVars, Typed, ThreadTyped, PeerTyped,
      FreshInv, Threads
<1>39. ASSUME NEW p \in Clients, Report(p) PROVE FreshInv'
    BY <1>39 DEF Report, Input, RtcEvent, Callback, NoTransport, eventRest,
       schedulerVars, peerVars, threadVars, lifeVars, Typed, ThreadTyped,
       PeerTyped, FreshInv, Threads
<1>40. ASSUME NEW p \in Clients, Gate(p) PROVE FreshInv'
    BY <1>40 DEF Gate, Admit, DispatchFree, Admissible, bundleVars, eventRest,
      schedulerVars, peerVars, threadVars, lifeVars, Typed, ThreadTyped,
      PeerTyped, FreshInv, Threads
<1>41. ASSUME NEW p \in Clients, CallbackReturns(p) PROVE FreshInv'
    BY <1>41 DEF CallbackReturns, Release, bundleVars, eventRest, schedulerVars,
      peerVars, threadVars, lifeVars, Typed, ThreadTyped, PeerTyped, FreshInv,
      Threads
<1>42. ASSUME NEW p \in Clients, MediaPlan(p) PROVE FreshInv'
    BY <1>42 DEF MediaPlan, Input, Free, EnsureMediaTracks, NoTransport,
      gateVars, eventRest, schedulerVars, peerVars, threadVars, lifeVars, Typed,
      ThreadTyped, PeerTyped, FreshInv, Threads
<1>43. CASE Prune
    BY <1>43 DEF Prune, Nobody, Goto, pruneRest, clientVars, schedulerVars,
      executorVars, peerVars, lifeVars, boundVars, Typed, ThreadTyped,
      PeerTyped, FreshInv, Threads
<1>44. CASE PruneLook
    BY <1>44 DEF PruneLook, Goto, Nobody, pruneRest, clientVars, schedulerVars,
      executorVars, peerVars, lifeVars, boundVars, Typed, ThreadTyped,
      PeerTyped, FreshInv, Threads
<1>45. CASE Initialize
    BY <1>45 DEF Initialize, controlRest, clientVars, executorVars, mapRest,
      Typed, ThreadTyped, PeerTyped, FreshInv, Threads
<1>46. CASE GoLive
    BY <1>46 DEF GoLive, CancelAll, StartCancel, Goto, controlRest, clientVars,
      executorVars, mapRest, Typed, ThreadTyped, PeerTyped, FreshInv, Threads
<1>47. CASE Reopen
    BY <1>47 DEF Reopen, Goto, controlRest, clientVars, executorVars, mapRest,
      Typed, ThreadTyped, PeerTyped, FreshInv, Threads
<1>48. CASE StopLive
    BY <1>48 DEF StopLive, CancelAll, StartCancel, Goto, controlRest,
      clientVars, executorVars, mapRest, Typed, ThreadTyped, PeerTyped,
      FreshInv, Threads
<1>49. CASE StopJoins
    BY <1>49 DEF StopJoins, Goto, controlRest, clientVars, executorVars,
      mapRest, Typed, ThreadTyped, PeerTyped, FreshInv, Threads
<1>50. CASE Clear
    BY <1>50 DEF Clear, Nobody, controlRest, clientVars, executorVars, Typed,
      ThreadTyped, PeerTyped, FreshInv, Threads
<1>51. CASE Mark
    BY <1>51 DEF Mark, Nobody, Goto, controlRest, clientVars, executorVars,
      Typed, ThreadTyped, PeerTyped, FreshInv, Threads
<1>52. CASE ClearJobs
    BY <1>52 DEF ClearJobs, CancelAll, StartCancel, Goto, controlRest,
      clientVars, executorVars, mapRest, Typed, ThreadTyped, PeerTyped,
      FreshInv, Threads
<1>53. CASE Shutdown
    BY <1>53 DEF Shutdown, CancelAll, StartCancel, Goto, controlRest,
      clientVars, executorVars, mapRest, Typed, ThreadTyped, PeerTyped,
      FreshInv, Threads
<1>54. CASE JoinLoop
    BY <1>54 DEF JoinLoop, Goto, controlRest, clientVars, executorVars, mapRest,
      Typed, ThreadTyped, PeerTyped, FreshInv, Threads
<1>55. CASE Await
    BY <1>55 DEF Await, controlRest, clientVars, executorVars, mapRest, Typed,
      ThreadTyped, PeerTyped, FreshInv, Threads
<1> QED
    BY <1>1, <1>2, <1>3, <1>4, <1>5, <1>6, <1>7, <1>8, <1>9, <1>10, <1>11,
      <1>12, <1>13, <1>14, <1>15, <1>16, <1>17, <1>18, <1>19, <1>20, <1>21,
      <1>22, <1>23, <1>24, <1>25, <1>26, <1>27, <1>28, <1>29, <1>30, <1>31,
      <1>32, <1>33, <1>34, <1>35, <1>36, <1>37, <1>38, <1>39, <1>40, <1>41,
      <1>42, <1>43, <1>44, <1>45, <1>46, <1>47, <1>48, <1>49, <1>50, <1>51,
      <1>52, <1>53, <1>54, <1>55, AnyStep DEF Actions

LEMMA GoneStep ==
    ASSUME Typed, GoneInv, Next
    PROVE  GoneInv'
<1>1. ASSUME NEW t \in Cancelers, Settle(t) PROVE GoneInv'
    BY <1>1 DEF Settle, BarrierFree, Goto, clientVars, executorVars, peerVars,
      lifeVars, boundVars, Typed, ThreadTyped, GoneInv, Gone, Threads, Removers,
      Cancelers
<1>2. ASSUME NEW t \in Cancelers, Complete(t) PROVE GoneInv'
    <2>1. /\ t \in Threads /\ at[t] = "complete"
          /\ at' = [at EXCEPT ![t] = next[t]]
          /\ next' = [next EXCEPT ![t] = Home(t)]
          /\ UNCHANGED <<arg, removed>>
        BY <1>2 DEF Complete, Goto, Cancelers, Threads
    <2>2. at'[t] = next[t] /\ at'[t] \notin {"settle", "complete", "cancelOne"}
        BY <2>1 DEF Typed, ThreadTyped, Returns
    <2>3. \A u \in Threads \ {t} : at'[u] = at[u] /\ next'[u] = next[u]
        BY <2>1 DEF Typed, ThreadTyped
    <2>4. SUFFICES ASSUME NEW u \in Removers PROVE Gone(u)'
        BY DEF GoneInv
    <2>5. u \in Threads /\ Gone(u)
        BY DEF Removers, Threads, GoneInv
    <2>6. CASE u = t
        BY <2>1, <2>2, <2>5, <2>6 DEF Gone
    <2>7. CASE u # t
        BY <2>1, <2>3, <2>5, <2>7 DEF Gone
    <2> QED
        BY <2>6, <2>7
<1>3. ASSUME NEW t \in Offerers, OfferRefused(t) PROVE GoneInv'
    BY <1>3 DEF OfferRefused, OfferReturns, Goto, Free, Nobody, clientVars,
      schedulerVars, executorVars, lifeVars, boundVars, Typed, ThreadTyped,
      GoneInv, Gone, Threads, Removers, Offerers
<1>4. ASSUME NEW t \in Offerers, OfferReserve(t) PROVE GoneInv'
    BY <1>4 DEF OfferReserve, NoTransport, Goto, clientVars, schedulerVars,
      executorVars, lifeVars, boundVars, Typed, ThreadTyped, GoneInv, Gone,
      Threads, Removers, Offerers
<1>5. ASSUME NEW t \in Offerers, OfferReset(t) PROVE GoneInv'
    BY <1>5 DEF OfferReset, clientVars, Goto, ResetRefused, DispatchFree,
      ResetPeerConnection, SwapIn, NoTransport, gateVars, schedulerVars,
      executorVars, peerVars, lifeVars, boundVars, Typed, ThreadTyped, GoneInv,
      Gone, Threads, Removers, Offerers
<1>6. ASSUME NEW t \in Offerers, OfferAdopt(t) PROVE GoneInv'
    BY <1>6 DEF OfferAdopt, Goto, clientVars, schedulerVars, executorVars,
      lifeVars, boundVars, Typed, ThreadTyped, GoneInv, Gone, Threads, Removers,
      Offerers
<1>7. ASSUME NEW t \in Offerers, OfferCreate(t) PROVE GoneInv'
    BY <1>7 DEF OfferCreate, CreateOffer, DispatchFree, NoTransport, clientVars,
      OfferReturns, Goto, Free, Nobody, schedulerVars, executorVars, lifeVars,
      boundVars, Typed, ThreadTyped, GoneInv, Gone, Threads, Removers, Offerers
<1>8. ASSUME NEW t \in Offerers, OfferFailed(t) PROVE GoneInv'
    BY <1>8 DEF OfferFailed, OfferReturns, Goto, Free, Nobody, clientVars,
      schedulerVars, executorVars, lifeVars, boundVars, Typed, ThreadTyped,
      GoneInv, Gone, Threads, Removers, Offerers
<1>9. ASSUME NEW t \in Removers, MarkRemoved(t) PROVE GoneInv'
    <2>1. t \in Threads /\ UNCHANGED <<next>>
        BY <1>9 DEF MarkRemoved, Removers, Threads
    <2>2. arg[t] \in Clients
        BY <1>9, <2>1, OffererHasASession DEF MarkRemoved, Removers, Typed, InHand, Hand
    <2>3. CASE /\ at' = [at EXCEPT ![t] = "idle"] /\ UNCHANGED removed
               /\ arg' = [arg EXCEPT ![t] = Nobody]
        BY <2>1, <2>3 DEF GoneInv, Gone, Removers, Typed, ThreadTyped, Threads
    <2>4. CASE /\ at' = [at EXCEPT ![t] = "cancelOne"] /\ UNCHANGED arg
               /\ removed' = [removed EXCEPT ![arg[t]] = TRUE]
      <3>1. removed'[arg[t]] /\ \A p : removed[p] => removed'[p]
          BY <2>2, <2>4 DEF Typed, PeerTyped
      <3> QED
          BY <2>1, <2>4, <3>1 DEF GoneInv, Gone, Removers, Typed, ThreadTyped, Threads
    <2> QED
        BY <1>9, <2>3, <2>4 DEF MarkRemoved, Goto
<1>10. ASSUME NEW t \in Removers, CancelOne(t) PROVE GoneInv'
    BY <1>10 DEF CancelOne, StartCancel, Goto, clientVars, executorVars,
      peerVars, lifeVars, boundVars, Typed, ThreadTyped, GoneInv, Gone, Threads,
      Removers
<1>11. ASSUME NEW t \in Removers, Erase(t) PROVE GoneInv'
    BY <1>11 DEF Erase, Nobody, LetGo, Free, Goto, clientVars, schedulerVars,
      executorVars, boundVars, Typed, ThreadTyped, GoneInv, Gone, Threads,
      Removers
<1>12. ASSUME NEW p \in Clients, ReaperStep(p) PROVE GoneInv'
    BY <1>12 DEF ReaperStep, Suppress, bundleVars, ReaperGoes, Quiet,
      clientVars, Free, ShutdownSwap, NoTransport, gateVars, schedulerVars,
      executorVars, threadVars, boundVars, Typed, ThreadTyped, GoneInv, Gone,
      Threads, Removers
<1>13. CASE Request
    BY <1>13 DEF Request, Input, Goto, requestRest, clientVars, schedulerVars,
      executorVars, lifeVars, Typed, ThreadTyped, GoneInv, Gone, Threads,
      Removers
<1>14. CASE OfferRequest
    BY <1>14 DEF OfferRequest, Nobody, Goto, lookupRest, requestRest,
      clientVars, schedulerVars, executorVars, lifeVars, Typed, ThreadTyped,
      GoneInv, Gone, Threads, Removers
<1>15. CASE KnownRequest
    BY <1>15 DEF KnownRequest, Nobody, Goto, lookupRest, requestRest,
      clientVars, schedulerVars, executorVars, lifeVars, Typed, ThreadTyped,
      GoneInv, Gone, Threads, Removers
<1>16. CASE UnknownRequest
    BY <1>16 DEF UnknownRequest, Nobody, Goto, lookupRest, requestRest,
      clientVars, schedulerVars, executorVars, lifeVars, Typed, ThreadTyped,
      GoneInv, Gone, Threads, Removers
<1>17. CASE InitLock
    BY <1>17 DEF InitLock, Free, Withdrawn, Goto, Nobody, clientVars, Suppress,
      bundleVars, signalRest, schedulerVars, executorVars, lifeVars, boundVars,
      Typed, ThreadTyped, GoneInv, Gone, Threads, Removers
<1>18. CASE InitBuild
    BY <1>18 DEF InitBuild, InitializeSwap, Quiet, SwapIn, NoTransport,
      gateVars, Goto, signalRest, schedulerVars, executorVars, lifeVars,
      boundVars, Typed, ThreadTyped, GoneInv, Gone, Threads, Removers
<1>19. CASE InitResume
    BY <1>19 DEF InitResume, Resume, bundleVars, Goto, signalRest,
      schedulerVars, executorVars, lifeVars, boundVars, Typed, ThreadTyped,
      GoneInv, Gone, Threads, Removers
<1>20. CASE InitInstall
    BY <1>20 DEF InitInstall, Free, Goto, signalRest, schedulerVars,
      executorVars, lifeVars, boundVars, clientVars, Typed, ThreadTyped,
      GoneInv, Gone, Threads, Removers
<1>21. CASE OfferLock
    BY <1>21 DEF OfferLock, Free, Goto, signalRest, schedulerVars, executorVars,
      lifeVars, boundVars, clientVars, Typed, ThreadTyped, GoneInv, Gone,
      Threads, Removers
<1>22. CASE Duplicate
    BY <1>22 DEF Duplicate, Free, Goto, Nobody, signalRest, schedulerVars,
      executorVars, lifeVars, boundVars, clientVars, Typed, ThreadTyped,
      GoneInv, Gone, Threads, Removers
<1>23. CASE Capture
    BY <1>23 DEF Capture, NoTransport, Dismiss, Goto, Free, Nobody, clientVars,
      schedulerVars, executorVars, lifeVars, boundVars, Typed, ThreadTyped,
      GoneInv, Gone, Threads, Removers
<1>24. CASE InsertNothing
    BY <1>24 DEF InsertNothing, Dismiss, Goto, Free, Nobody, insertRest,
      clientVars, executorVars, lifeVars, boundVars, Typed, ThreadTyped,
      GoneInv, Gone, Threads, Removers
<1>25. CASE Insert
    BY <1>25 DEF Insert, Dismiss, Goto, Free, Nobody, insertRest, clientVars,
      executorVars, lifeVars, boundVars, Typed, ThreadTyped, GoneInv, Gone,
      Threads, Removers
<1>26. CASE Supersede
    BY <1>26 DEF Supersede, StartCancel, Goto, insertRest, clientVars,
      executorVars, lifeVars, boundVars, Typed, ThreadTyped, GoneInv, Gone,
      Threads, Removers
<1>27. CASE Dispatch
    BY <1>27 DEF Dispatch, Goto, loopRest, clientVars, peerVars, lifeVars,
      boundVars, executorVars, Typed, ThreadTyped, GoneInv, Gone, Threads,
      Removers
<1>28. CASE Enqueue
    BY <1>28 DEF Enqueue, Goto, loopRest, clientVars, peerVars, lifeVars,
      boundVars, Typed, ThreadTyped, GoneInv, Gone, Threads, Removers
<1>29. CASE LoopEnds
    BY <1>29 DEF LoopEnds, Goto, loopRest, clientVars, peerVars, lifeVars,
      boundVars, executorVars, Typed, ThreadTyped, GoneInv, Gone, Threads,
      Removers
<1>30. CASE Drop
    BY <1>30 DEF Drop, Goto, clientVars, schedulerVars, peerVars, lifeVars,
      boundVars, Typed, ThreadTyped, GoneInv, Gone, Threads, Removers
<1>31. CASE TakeJob
    BY <1>31 DEF TakeJob, Goto, workRest, schedulerVars, lifeVars, boundVars,
      clientVars, Typed, ThreadTyped, GoneInv, Gone, Threads, Removers
<1>32. ASSUME NEW p \in Clients, TakeState(p) PROVE GoneInv'
    BY <1>32 DEF TakeState, Free, workRest, schedulerVars, lifeVars, boundVars,
      clientVars, Typed, ThreadTyped, GoneInv, Gone, Threads, Removers
<1>33. CASE RunLate
    BY <1>33 DEF RunLate, WorkerIdle, Goto, Nobody, runRest, clientVars,
      executorVars, lifeVars, boundVars, Typed, ThreadTyped, GoneInv, Gone,
      Threads, Removers
<1>34. CASE RunLock
    BY <1>34 DEF RunLock, Free, Goto, runRest, clientVars, executorVars,
      lifeVars, boundVars, Typed, ThreadTyped, GoneInv, Gone, Threads, Removers
<1>35. CASE RunAdmit
    BY <1>35 DEF RunAdmit, Leave, Free, Goto, runRest, clientVars, executorVars,
      lifeVars, boundVars, Typed, ThreadTyped, GoneInv, Gone, Threads, Removers
<1>36. CASE RunDecide
    BY <1>36 DEF RunDecide, Judged, Leave, Free, Goto, runRest, clientVars,
      executorVars, lifeVars, boundVars, Typed, ThreadTyped, GoneInv, Gone,
      Threads, Removers
<1>37. CASE RunJudge
    BY <1>37 DEF RunJudge, Judged, Leave, Free, Goto, runRest, clientVars,
      executorVars, lifeVars, boundVars, Typed, ThreadTyped, GoneInv, Gone,
      Threads, Removers
<1>38. CASE RunFinish
    BY <1>38 DEF RunFinish, WorkerIdle, Goto, Nobody, runRest, clientVars,
      executorVars, lifeVars, boundVars, Typed, ThreadTyped, GoneInv, Gone,
      Threads, Removers
<1>39. ASSUME NEW p \in Clients, Report(p) PROVE GoneInv'
    BY <1>39 DEF Report, Input, RtcEvent, Callback, NoTransport, eventRest,
       schedulerVars, peerVars, threadVars, lifeVars, Typed, ThreadTyped,
       GoneInv, Gone, Threads, Removers
<1>40. ASSUME NEW p \in Clients, Gate(p) PROVE GoneInv'
    BY <1>40 DEF Gate, Admit, DispatchFree, Admissible, bundleVars, eventRest,
      schedulerVars, peerVars, threadVars, lifeVars, Typed, ThreadTyped,
      GoneInv, Gone, Threads, Removers
<1>41. ASSUME NEW p \in Clients, CallbackReturns(p) PROVE GoneInv'
    BY <1>41 DEF CallbackReturns, Release, bundleVars, eventRest, schedulerVars,
      peerVars, threadVars, lifeVars, Typed, ThreadTyped, GoneInv, Gone,
      Threads, Removers
<1>42. ASSUME NEW p \in Clients, MediaPlan(p) PROVE GoneInv'
    BY <1>42 DEF MediaPlan, Input, Free, EnsureMediaTracks, NoTransport,
      gateVars, eventRest, schedulerVars, peerVars, threadVars, lifeVars, Typed,
      ThreadTyped, GoneInv, Gone, Threads, Removers
<1>43. CASE Prune
    BY <1>43 DEF Prune, Nobody, Goto, pruneRest, clientVars, schedulerVars,
      executorVars, peerVars, lifeVars, boundVars, Typed, ThreadTyped, GoneInv,
      Gone, Threads, Removers
<1>44. CASE PruneLook
    BY <1>44 DEF PruneLook, Goto, Nobody, pruneRest, clientVars, schedulerVars,
      executorVars, peerVars, lifeVars, boundVars, Typed, ThreadTyped, GoneInv,
      Gone, Threads, Removers
<1>45. CASE Initialize
    BY <1>45 DEF Initialize, controlRest, clientVars, executorVars, mapRest,
      Typed, ThreadTyped, GoneInv, Gone, Threads, Removers
<1>46. CASE GoLive
    BY <1>46 DEF GoLive, CancelAll, StartCancel, Goto, controlRest, clientVars,
      executorVars, mapRest, Typed, ThreadTyped, GoneInv, Gone, Threads,
      Removers
<1>47. CASE Reopen
    BY <1>47 DEF Reopen, Goto, controlRest, clientVars, executorVars, mapRest,
      Typed, ThreadTyped, GoneInv, Gone, Threads, Removers
<1>48. CASE StopLive
    BY <1>48 DEF StopLive, CancelAll, StartCancel, Goto, controlRest,
      clientVars, executorVars, mapRest, Typed, ThreadTyped, GoneInv, Gone,
      Threads, Removers
<1>49. CASE StopJoins
    BY <1>49 DEF StopJoins, Goto, controlRest, clientVars, executorVars,
      mapRest, Typed, ThreadTyped, GoneInv, Gone, Threads, Removers
<1>50. CASE Clear
    BY <1>50 DEF Clear, Nobody, controlRest, clientVars, executorVars, Typed,
      ThreadTyped, GoneInv, Gone, Threads, Removers
<1>51. CASE Mark
    <2> DEFINE p == todo["control"].peer
    <2>1. /\ at' = [at EXCEPT !["control"] = "clearJobs"]
          /\ UNCHANGED <<next, arg>>
        BY <1>51 DEF Mark, Goto, controlRest
    <2>2. removed' = removed \/ removed' = [removed EXCEPT ![p] = TRUE]
        BY <1>51 DEF Mark
    <2>3. \A q \in Clients : removed[q] => removed'[q]
        BY <2>2 DEF Typed, PeerTyped
    <2>4. SUFFICES ASSUME NEW u \in Removers PROVE Gone(u)'
        BY DEF GoneInv
    <2>5. Gone(u) /\ at'[u] = at[u]
        BY <2>1 DEF GoneInv, Removers, Typed, ThreadTyped, Threads
    <2> QED
        BY <2>1, <2>3, <2>5, OffererHasASession DEF Gone, Removers, Typed, InHand, Hand, Threads
<1>52. CASE ClearJobs
    BY <1>52 DEF ClearJobs, CancelAll, StartCancel, Goto, controlRest,
      clientVars, executorVars, mapRest, Typed, ThreadTyped, GoneInv, Gone,
      Threads, Removers
<1>53. CASE Shutdown
    BY <1>53 DEF Shutdown, CancelAll, StartCancel, Goto, controlRest,
      clientVars, executorVars, mapRest, Typed, ThreadTyped, GoneInv, Gone,
      Threads, Removers
<1>54. CASE JoinLoop
    BY <1>54 DEF JoinLoop, Goto, controlRest, clientVars, executorVars, mapRest,
      Typed, ThreadTyped, GoneInv, Gone, Threads, Removers
<1>55. CASE Await
    BY <1>55 DEF Await, controlRest, clientVars, executorVars, mapRest, Typed,
      ThreadTyped, GoneInv, Gone, Threads, Removers
<1> QED
    BY <1>1, <1>2, <1>3, <1>4, <1>5, <1>6, <1>7, <1>8, <1>9, <1>10, <1>11,
      <1>12, <1>13, <1>14, <1>15, <1>16, <1>17, <1>18, <1>19, <1>20, <1>21,
      <1>22, <1>23, <1>24, <1>25, <1>26, <1>27, <1>28, <1>29, <1>30, <1>31,
      <1>32, <1>33, <1>34, <1>35, <1>36, <1>37, <1>38, <1>39, <1>40, <1>41,
      <1>42, <1>43, <1>44, <1>45, <1>46, <1>47, <1>48, <1>49, <1>50, <1>51,
      <1>52, <1>53, <1>54, <1>55, AnyStep DEF Actions

LEMMA GateStep ==
    ASSUME Typed, Locked, GoneInv, GateInv, Next
    PROVE  GateInv'
<1>1. ASSUME NEW t \in Cancelers, Settle(t) PROVE GateInv'
    BY <1>1 DEF Settle, BarrierFree, Goto, clientVars, executorVars, peerVars,
      lifeVars, boundVars, Typed, ThreadTyped, GateInv, Threads, Cancelers
<1>2. ASSUME NEW t \in Cancelers, Complete(t) PROVE GateInv'
    <2>1. t \in Threads /\ next[t] \in Returns
        BY DEF Typed, ThreadTyped, Cancelers, Threads
    <2>2. /\ at' = [at EXCEPT ![t] = next[t]]
          /\ UNCHANGED <<arg, transport, body, removed, reaper, suppressed, down>>
        BY <1>2 DEF Complete, Goto, clientVars, bundleVars, gateVars, lifeVars
    <2>3. \A u \in Threads : at'[u] = at[u] \/ at'[u] \in Returns
        BY <2>1, <2>2 DEF Typed, ThreadTyped
    <2>4. /\ at'["signaling"] = at["signaling"] \/ at["signaling"] = "complete"
          /\ at'["worker"] = at["worker"]
        BY <2>1, <2>2, <1>2 DEF Complete, Typed, ThreadTyped, Threads, Cancelers
    <2> QED
        BY <2>2, <2>3, <2>4 DEF GateInv, Returns, Threads
<1>3. ASSUME NEW t \in Offerers, OfferRefused(t) PROVE GateInv'
    BY <1>3 DEF OfferRefused, OfferReturns, Goto, Free, Nobody, clientVars,
      schedulerVars, executorVars, lifeVars, boundVars, Typed, ThreadTyped,
      GateInv, Threads, Offerers
<1>4. ASSUME NEW t \in Offerers, OfferReserve(t) PROVE GateInv'
    BY <1>4 DEF OfferReserve, NoTransport, Goto, clientVars, schedulerVars,
      executorVars, lifeVars, boundVars, Typed, ThreadTyped, GateInv, Threads,
      Offerers
<1>5. ASSUME NEW t \in Offerers, OfferReset(t) PROVE GateInv'
    <2>1. t \in Threads /\ arg[t] \in Clients
        BY <1>5, OffererHasASession DEF OfferReset, Offerers
    <2>2. PICK x \in {"offerFailed", "adopt"} : at' = [at EXCEPT ![t] = x]
        BY <1>5 DEF OfferReset, Goto
    <2>3. /\ at[t] = "reset"
          /\ UNCHANGED <<admitted, initializing, removed, reaper, arg>>
        BY <1>5 DEF OfferReset, peerVars, lifeVars
    <2>4. \/ UNCHANGED <<transport, body, suppressed, down>>
          \/ /\ ~down[arg[t]] /\ body[arg[t]] = NoBody
             /\ UNCHANGED <<body, suppressed, down>>
             /\ \E g \in Nat : transport' = [transport EXCEPT ![arg[t]] = g]
      <3>1. CASE UNCHANGED clientVars
          BY <3>1 DEF clientVars
      <3>2. ASSUME NEW want, NEW ok \in BOOLEAN, ResetPeerConnection(arg[t], want, ok)
            PROVE  /\ ~down[arg[t]] /\ body[arg[t]] = NoBody
                   /\ UNCHANGED <<body, suppressed, down>>
                   /\ \E g \in Nat : transport' = [transport EXCEPT ![arg[t]] = g]
        <4> DEFINE p == arg[t]
                   g == IF ok THEN built[p] + 1 ELSE NoTransport
        <4>1. g \in Nat
            BY <2>1 DEF Typed, ClientTyped, NoTransport
        <4>2. /\ ~down[p] /\ body[p] = NoBody /\ UNCHANGED <<body, suppressed, down>>
              /\ transport' = [transport EXCEPT ![p] = g]
            BY <3>2 DEF ResetPeerConnection, DispatchFree, SwapIn, gateVars
        <4> HIDE DEF g
        <4> QED
            BY <4>1, <4>2
      <3> QED
          BY <1>5, <3>1, <3>2 DEF OfferReset, ResetRefused
    <2>5. at'[t] \in {"offerFailed", "adopt"} /\ \A u \in Threads \ {t} : at'[u] = at[u]
        BY <2>1, <2>2 DEF Typed, ThreadTyped
    <2>6. CASE UNCHANGED <<transport, body, suppressed, down>>
        BY <2>1, <2>3, <2>5, <2>6 DEF GateInv, Threads, Offerers
    <2>7. CASE /\ ~down[arg[t]] /\ body[arg[t]] = NoBody
               /\ UNCHANGED <<body, suppressed, down>>
               /\ \E g \in Nat : transport' = [transport EXCEPT ![arg[t]] = g]
      <3>1. PICK g \in Nat : transport' = [transport EXCEPT ![arg[t]] = g]
          BY <2>7
      <3>2. \A q \in Clients : q # arg[t] => transport'[q] = transport[q]
          BY <2>1, <3>1 DEF Typed, ClientTyped
      <3> QED
          BY <2>1, <2>3, <2>5, <2>7, <3>2 DEF GateInv, Threads, Offerers
    <2> QED
        BY <2>4, <2>6, <2>7
<1>6. ASSUME NEW t \in Offerers, OfferAdopt(t) PROVE GateInv'
    BY <1>6 DEF OfferAdopt, Goto, clientVars, schedulerVars, executorVars,
      lifeVars, boundVars, Typed, ThreadTyped, GateInv, Threads, Offerers
<1>7. ASSUME NEW t \in Offerers, OfferCreate(t) PROVE GateInv'
    BY <1>7 DEF OfferCreate, CreateOffer, DispatchFree, NoTransport, clientVars,
      OfferReturns, Goto, Free, Nobody, schedulerVars, executorVars, lifeVars,
      boundVars, Typed, ThreadTyped, GateInv, Threads, Offerers
<1>8. ASSUME NEW t \in Offerers, OfferFailed(t) PROVE GateInv'
    BY <1>8 DEF OfferFailed, OfferReturns, Goto, Free, Nobody, clientVars,
      schedulerVars, executorVars, lifeVars, boundVars, Typed, ThreadTyped,
      GateInv, Threads, Offerers
<1>9. ASSUME NEW t \in Removers, MarkRemoved(t) PROVE GateInv'
    <2>1. t \in Threads /\ UNCHANGED <<transport, body, reaper, suppressed, down>>
        BY <1>9 DEF MarkRemoved, clientVars, bundleVars, gateVars, lifeVars, Removers, Threads
    <2>2. removed' = removed \/ removed' = [removed EXCEPT ![arg[t]] = TRUE]
        BY <1>9 DEF MarkRemoved
    <2>3. \A p \in Clients : removed[p] => removed'[p]
        BY <2>2 DEF Typed, PeerTyped
    <2>4. PICK x \in {"idle", "cancelOne"} : at' = [at EXCEPT ![t] = x]
        BY <1>9 DEF MarkRemoved, Goto
    <2>5. arg' = arg \/ arg' = [arg EXCEPT ![t] = Nobody]
        BY <1>9 DEF MarkRemoved
    <2>6. at'["signaling"] \in {"idle", "cancelOne"} \/
            (at'["signaling"] = at["signaling"] /\ arg'["signaling"] = arg["signaling"])
        BY <2>1, <2>4, <2>5 DEF Typed, ThreadTyped, Threads
    <2> QED
        BY <2>1, <2>3, <2>6 DEF GateInv
<1>10. ASSUME NEW t \in Removers, CancelOne(t) PROVE GateInv'
    BY <1>10 DEF CancelOne, StartCancel, Goto, clientVars, executorVars,
      peerVars, lifeVars, boundVars, Typed, ThreadTyped, GateInv, Threads,
      Removers
<1>11. ASSUME NEW t \in Removers, Erase(t) PROVE GateInv'
    <2>1. t \in Threads /\ UNCHANGED <<transport, body, removed, suppressed, down>>
        BY <1>11 DEF Erase, clientVars, bundleVars, gateVars, Removers, Threads
    <2>2. removed[arg[t]]
        BY <1>11 DEF Erase, GoneInv, Gone
    <2>3. reaper' = reaper \/ reaper' = [reaper EXCEPT ![arg[t]] = "prepare"]
        BY <1>11 DEF Erase, Typed, PeerTyped
    <2>4. \A p \in Clients : reaper'[p] = reaper[p] \/ (reaper'[p] = "prepare" /\ removed[p])
        BY <2>2, <2>3 DEF Typed, PeerTyped
    <2>5. at' = [at EXCEPT ![t] = "idle"] /\ arg' = [arg EXCEPT ![t] = Nobody]
        BY <1>11 DEF Erase, Goto
    <2>6. at'["signaling"] = "idle" \/
            (at'["signaling"] = at["signaling"] /\ arg'["signaling"] = arg["signaling"])
        BY <2>1, <2>5 DEF Typed, ThreadTyped, Threads
    <2> QED
        BY <2>1, <2>4, <2>6 DEF GateInv
<1>12. ASSUME NEW p \in Clients, ReaperStep(p) PROVE GateInv'
    <2>1. UNCHANGED <<at, arg, removed>>
        BY <1>12 DEF ReaperStep, threadVars
    <2>2. CASE /\ reaper[p] = "prepare"
               /\ Suppress(p)
               /\ ReaperGoes(p, "drain")
        BY <2>1, <2>2 DEF GateInv, Suppress, ReaperGoes, bundleVars, Typed,
          ClientTyped, PeerTyped
    <2>3. CASE /\ reaper[p] = "close"
               /\ Suppress(p)
               /\ ReaperGoes(p, "shutdown")
        BY <2>1, <2>3 DEF GateInv, Suppress, ReaperGoes, bundleVars, Typed,
          ClientTyped, PeerTyped
    <2>4. CASE /\ reaper[p] \in {"drain", "lock"} /\ UNCHANGED clientVars
               /\ \E x \in {"lock", "close"} : ReaperGoes(p, x)
        BY <2>1, <2>4 DEF GateInv, ReaperGoes, clientVars, Typed, PeerTyped
    <2>5. CASE reaper[p] = "shutdown" /\ ShutdownSwap(p) /\ ReaperGoes(p, "done")
      <3>1. suppressed[p] /\ removed[p] /\ held[p] = "reaper"
          BY <2>5 DEF GateInv, Locked
      <3>2. ~(arg["signaling"] = p /\ at["signaling"] \in {"build", "resume"})
          BY <3>1 DEF Locked, SignalingLocked
      <3>3. /\ body[p] = NoBody
            /\ transport' = [transport EXCEPT ![p] = NoTransport]
            /\ down' = [down EXCEPT ![p] = TRUE]
            /\ UNCHANGED <<suppressed, body>>
            /\ reaper' = [reaper EXCEPT ![p] = "done"]
          BY <2>5 DEF ShutdownSwap, Quiet, gateVars, ReaperGoes
      <3>4. \A q \in Clients \ {p} : /\ transport'[q] = transport[q]
                                     /\ down'[q] = down[q]
                                     /\ reaper'[q] = reaper[q]
          BY <3>3 DEF Typed, ClientTyped, PeerTyped
      <3>5. transport'[p] = NoTransport /\ down'[p] /\ reaper'[p] = "done"
          BY <3>3 DEF Typed, ClientTyped, PeerTyped
      <3> QED
          BY <2>1, <3>1, <3>2, <3>3, <3>4, <3>5 DEF GateInv
    <2> QED
        BY <1>12, <2>2, <2>3, <2>4, <2>5 DEF ReaperStep
<1>13. CASE Request
    BY <1>13 DEF Request, Input, Goto, requestRest, clientVars, schedulerVars,
      executorVars, lifeVars, Typed, ThreadTyped, GateInv, Threads
<1>14. CASE OfferRequest
    BY <1>14 DEF OfferRequest, Nobody, Goto, lookupRest, requestRest,
      clientVars, schedulerVars, executorVars, lifeVars, Typed, ThreadTyped,
      GateInv, Threads
<1>15. CASE KnownRequest
    BY <1>15 DEF KnownRequest, Nobody, Goto, lookupRest, requestRest,
      clientVars, schedulerVars, executorVars, lifeVars, Typed, ThreadTyped,
      GateInv, Threads
<1>16. CASE UnknownRequest
    BY <1>16 DEF UnknownRequest, Nobody, Goto, lookupRest, requestRest,
      clientVars, schedulerVars, executorVars, lifeVars, Typed, ThreadTyped,
      GateInv, Threads
<1>17. CASE InitLock
    <2> DEFINE p == arg["signaling"]
    <2>1. UNCHANGED <<transport, body, removed, reaper, down>>
        BY <1>17 DEF InitLock, Suppress, bundleVars, clientVars, signalRest, lifeVars
    <2>2. CASE /\ UNCHANGED suppressed
               /\ at' = [at EXCEPT !["signaling"] = "idle"]
        BY <2>1, <2>2 DEF GateInv, Typed, ThreadTyped, Threads
    <2>3. CASE /\ ~removed[p] /\ Suppress(p)
               /\ at' = [at EXCEPT !["signaling"] = "build"]
               /\ UNCHANGED arg
      <3>1. p \in Clients
          BY <1>17, OffererHasASession DEF InitLock
      <3>2. reaper[p] = "none"
          BY <2>3, <3>1 DEF GateInv
      <3>3. \A q \in Clients : suppressed[q] => suppressed'[q]
          BY <2>3 DEF Suppress, Typed, ClientTyped
      <3> QED
          BY <2>1, <2>3, <3>1, <3>2, <3>3 DEF GateInv
    <2> QED
        BY <1>17, <2>2, <2>3 DEF InitLock, Withdrawn, Goto, clientVars
<1>18. CASE InitBuild
    BY <1>18 DEF InitBuild, InitializeSwap, Quiet, SwapIn, NoTransport,
      gateVars, Goto, signalRest, schedulerVars, executorVars, lifeVars,
      boundVars, Typed, ThreadTyped, GateInv, Threads
<1>19. CASE InitResume
    <2> DEFINE p == arg["signaling"]
    <2>1. /\ at["signaling"] = "resume"
          /\ UNCHANGED <<transport, body, removed, reaper, down, arg>>
          /\ suppressed' = [suppressed EXCEPT ![p] = FALSE]
          /\ at' = [at EXCEPT !["signaling"] = "install"]
        BY <1>19 DEF InitResume, Resume, bundleVars, signalRest, lifeVars, Goto
    <2>2. p \in Clients /\ held[p] = "signaling"
        BY <2>1, OffererHasASession DEF Locked, SignalingLocked
    <2>3. reaper[p] # "shutdown" /\ reaper[p] # "done"
        BY <2>1, <2>2 DEF Locked, GateInv
    <2>4. \A q \in Clients \ {p} : suppressed'[q] = suppressed[q]
        BY <2>1 DEF Typed, ClientTyped
    <2>5. at'["signaling"] = "install"
        BY <2>1 DEF Typed, ThreadTyped, Threads
    <2> QED
        BY <2>1, <2>2, <2>3, <2>4, <2>5 DEF GateInv
<1>20. CASE InitInstall
    BY <1>20 DEF InitInstall, Free, Goto, signalRest, schedulerVars,
      executorVars, lifeVars, boundVars, clientVars, Typed, ThreadTyped,
      GateInv, Threads
<1>21. CASE OfferLock
    BY <1>21 DEF OfferLock, Free, Goto, signalRest, schedulerVars, executorVars,
      lifeVars, boundVars, clientVars, Typed, ThreadTyped, GateInv, Threads
<1>22. CASE Duplicate
    BY <1>22 DEF Duplicate, Free, Goto, Nobody, signalRest, schedulerVars,
      executorVars, lifeVars, boundVars, clientVars, Typed, ThreadTyped,
      GateInv, Threads
<1>23. CASE Capture
    BY <1>23 DEF Capture, NoTransport, Dismiss, Goto, Free, Nobody, clientVars,
      schedulerVars, executorVars, lifeVars, boundVars, Typed, ThreadTyped,
      GateInv, Threads
<1>24. CASE InsertNothing
    BY <1>24 DEF InsertNothing, Dismiss, Goto, Free, Nobody, insertRest,
      clientVars, executorVars, lifeVars, boundVars, Typed, ThreadTyped,
      GateInv, Threads
<1>25. CASE Insert
    BY <1>25 DEF Insert, Dismiss, Goto, Free, Nobody, insertRest, clientVars,
      executorVars, lifeVars, boundVars, Typed, ThreadTyped, GateInv, Threads
<1>26. CASE Supersede
    BY <1>26 DEF Supersede, StartCancel, Goto, insertRest, clientVars,
      executorVars, lifeVars, boundVars, Typed, ThreadTyped, GateInv, Threads
<1>27. CASE Dispatch
    BY <1>27 DEF Dispatch, Goto, loopRest, clientVars, peerVars, lifeVars,
      boundVars, executorVars, Typed, ThreadTyped, GateInv, Threads
<1>28. CASE Enqueue
    BY <1>28 DEF Enqueue, Goto, loopRest, clientVars, peerVars, lifeVars,
      boundVars, Typed, ThreadTyped, GateInv, Threads
<1>29. CASE LoopEnds
    BY <1>29 DEF LoopEnds, Goto, loopRest, clientVars, peerVars, lifeVars,
      boundVars, executorVars, Typed, ThreadTyped, GateInv, Threads
<1>30. CASE Drop
    BY <1>30 DEF Drop, Goto, clientVars, schedulerVars, peerVars, lifeVars,
      boundVars, Typed, ThreadTyped, GateInv, Threads
<1>31. CASE TakeJob
    BY <1>31 DEF TakeJob, Goto, workRest, schedulerVars, lifeVars, boundVars,
      clientVars, Typed, ThreadTyped, GateInv, Threads
<1>32. ASSUME NEW p \in Clients, TakeState(p) PROVE GateInv'
    BY <1>32 DEF TakeState, Free, workRest, schedulerVars, lifeVars, boundVars,
      clientVars, Typed, ThreadTyped, GateInv, Threads
<1>33. CASE RunLate
    BY <1>33 DEF RunLate, WorkerIdle, Goto, Nobody, runRest, clientVars,
      executorVars, lifeVars, boundVars, Typed, ThreadTyped, GateInv, Threads
<1>34. CASE RunLock
    BY <1>34 DEF RunLock, Free, Goto, runRest, clientVars, executorVars,
      lifeVars, boundVars, Typed, ThreadTyped, GateInv, Threads
<1>35. CASE RunAdmit
    BY <1>35 DEF RunAdmit, Leave, Free, Goto, runRest, clientVars, executorVars,
      lifeVars, boundVars, Typed, ThreadTyped, GateInv, Threads
<1>36. CASE RunDecide
    BY <1>36 DEF RunDecide, Judged, Leave, Free, Goto, runRest, clientVars,
      executorVars, lifeVars, boundVars, Typed, ThreadTyped, GateInv, Threads
<1>37. CASE RunJudge
    BY <1>37 DEF RunJudge, Judged, Leave, Free, Goto, runRest, clientVars,
      executorVars, lifeVars, boundVars, Typed, ThreadTyped, GateInv, Threads
<1>38. CASE RunFinish
    BY <1>38 DEF RunFinish, WorkerIdle, Goto, Nobody, runRest, clientVars,
      executorVars, lifeVars, boundVars, Typed, ThreadTyped, GateInv, Threads
<1>39. ASSUME NEW p \in Clients, Report(p) PROVE GateInv'
    BY <1>39 DEF Report, Input, RtcEvent, Callback, NoTransport, eventRest,
       schedulerVars, peerVars, threadVars, lifeVars, Typed, ThreadTyped,
       GateInv, Threads
<1>40. ASSUME NEW p \in Clients, Gate(p) PROVE GateInv'
    BY <1>40 DEF Gate, Admit, DispatchFree, Admissible, bundleVars, eventRest,
      schedulerVars, peerVars, threadVars, lifeVars, Typed, ThreadTyped,
      GateInv, Threads
<1>41. ASSUME NEW p \in Clients, CallbackReturns(p) PROVE GateInv'
    BY <1>41 DEF CallbackReturns, Release, bundleVars, eventRest, schedulerVars,
      peerVars, threadVars, lifeVars, Typed, ThreadTyped, GateInv, Threads
<1>42. ASSUME NEW p \in Clients, MediaPlan(p) PROVE GateInv'
    BY <1>42 DEF MediaPlan, Input, Free, EnsureMediaTracks, NoTransport,
      gateVars, eventRest, schedulerVars, peerVars, threadVars, lifeVars, Typed,
      ThreadTyped, GateInv, Threads
<1>43. CASE Prune
    BY <1>43 DEF Prune, Nobody, Goto, pruneRest, clientVars, schedulerVars,
      executorVars, peerVars, lifeVars, boundVars, Typed, ThreadTyped, GateInv,
      Threads
<1>44. CASE PruneLook
    BY <1>44 DEF PruneLook, Goto, Nobody, pruneRest, clientVars, schedulerVars,
      executorVars, peerVars, lifeVars, boundVars, Typed, ThreadTyped, GateInv,
      Threads
<1>45. CASE Initialize
    BY <1>45 DEF Initialize, controlRest, clientVars, executorVars, mapRest,
      Typed, ThreadTyped, GateInv, Threads
<1>46. CASE GoLive
    BY <1>46 DEF GoLive, CancelAll, StartCancel, Goto, controlRest, clientVars,
      executorVars, mapRest, Typed, ThreadTyped, GateInv, Threads
<1>47. CASE Reopen
    BY <1>47 DEF Reopen, Goto, controlRest, clientVars, executorVars, mapRest,
      Typed, ThreadTyped, GateInv, Threads
<1>48. CASE StopLive
    BY <1>48 DEF StopLive, CancelAll, StartCancel, Goto, controlRest,
      clientVars, executorVars, mapRest, Typed, ThreadTyped, GateInv, Threads
<1>49. CASE StopJoins
    BY <1>49 DEF StopJoins, Goto, controlRest, clientVars, executorVars,
      mapRest, Typed, ThreadTyped, GateInv, Threads
<1>50. CASE Clear
    BY <1>50 DEF Clear, Nobody, controlRest, clientVars, executorVars, Typed,
      ThreadTyped, GateInv, Threads
<1>51. CASE Mark
    <2> DEFINE p == todo["control"].peer
    <2>1. /\ at' = [at EXCEPT !["control"] = "clearJobs"]
          /\ UNCHANGED <<transport, body, suppressed, down, arg>>
        BY <1>51 DEF Mark, Goto, controlRest, clientVars, bundleVars, gateVars
    <2>2. at'["signaling"] = at["signaling"]
        BY <2>1 DEF Typed, ThreadTyped, Threads
    <2>3. CASE UNCHANGED <<removed, reaper>>
        BY <2>1, <2>2, <2>3 DEF GateInv
    <2>4. CASE /\ removed' = [removed EXCEPT ![p] = TRUE]
               /\ reaper' = [reaper EXCEPT ![p] = "prepare"]
      <3>1. \A q \in Clients : /\ removed[q] => removed'[q]
                               /\ \/ reaper'[q] = reaper[q]
                                  \/ reaper'[q] = "prepare" /\ removed'[q]
          BY <2>4 DEF Typed, PeerTyped
      <3> QED
          BY <2>1, <2>2, <3>1 DEF GateInv
    <2> QED
        BY <1>51, <2>3, <2>4 DEF Mark
<1>52. CASE ClearJobs
    BY <1>52 DEF ClearJobs, CancelAll, StartCancel, Goto, controlRest,
      clientVars, executorVars, mapRest, Typed, ThreadTyped, GateInv, Threads
<1>53. CASE Shutdown
    BY <1>53 DEF Shutdown, CancelAll, StartCancel, Goto, controlRest,
      clientVars, executorVars, mapRest, Typed, ThreadTyped, GateInv, Threads
<1>54. CASE JoinLoop
    BY <1>54 DEF JoinLoop, Goto, controlRest, clientVars, executorVars, mapRest,
      Typed, ThreadTyped, GateInv, Threads
<1>55. CASE Await
    BY <1>55 DEF Await, controlRest, clientVars, executorVars, mapRest, Typed,
      ThreadTyped, GateInv, Threads
<1> QED
    BY <1>1, <1>2, <1>3, <1>4, <1>5, <1>6, <1>7, <1>8, <1>9, <1>10, <1>11,
      <1>12, <1>13, <1>14, <1>15, <1>16, <1>17, <1>18, <1>19, <1>20, <1>21,
      <1>22, <1>23, <1>24, <1>25, <1>26, <1>27, <1>28, <1>29, <1>30, <1>31,
      <1>32, <1>33, <1>34, <1>35, <1>36, <1>37, <1>38, <1>39, <1>40, <1>41,
      <1>42, <1>43, <1>44, <1>45, <1>46, <1>47, <1>48, <1>49, <1>50, <1>51,
      <1>52, <1>53, <1>54, <1>55, AnyStep DEF Actions

---------------------------------------------------------------------------
(* What a step of a client does to its sections.                           *)
Kept(c) ==
  transport'[c] > transport[c] /\ transport[c] # NoTransport
    => ToSet(sections[c]) \subseteq ToSet(sections'[c])

Whole(c) ==
  /\ ToSet(sections[c]) \subseteq negotiated[c]
  /\ "alpha" \in ToSet(sections[c]) => "video" \in ToSet(sections[c])

OthersKeep(c) ==
  \A q \in Clients \ {c} :
    /\ sections'[q] = sections[q]
    /\ negotiated'[q] = negotiated[q]
    /\ transport'[q] = transport[q]

LEMMA SectionTypes ==
    ASSUME ClientTyped, NEW c \in Clients
    PROVE  /\ transport[c] \in Nat /\ built[c] \in Nat
           /\ sections[c] \in Seq(Media) /\ negotiated[c] \in SUBSET Media
BY DEF ClientTyped

LEMMA SwapSections ==
    ASSUME ClientTyped, NEW c \in Clients, Whole(c), NEW want \in SUBSET Media,
           NEW known \in SUBSET Media, NEW ok \in BOOLEAN, SwapIn(c, want, known, ok),
           known = negotiated[c] \/ transport[c] = NoTransport
    PROVE  Whole(c)' /\ Kept(c)
<1> DEFINE new == IF ok THEN Sections(want, known) ELSE <<>>
           all == known \cup (IF ok THEN ToSet(Sections(want, known)) ELSE {})
<1>1. /\ sections' = [sections EXCEPT ![c] = new]
      /\ negotiated' = [negotiated EXCEPT ![c] = all]
      /\ transport' = [transport EXCEPT ![c] = IF ok THEN built[c] + 1 ELSE NoTransport]
    BY DEF SwapIn
<1>2. /\ ToSet(new) \subseteq all
      /\ "alpha" \in ToSet(new) => "video" \in ToSet(new)
      /\ ok => ToSet(new) = Kinds(want, known)
    BY SectionsAreKinds, NoSections
<1>3. /\ sections'[c] = new /\ negotiated'[c] = all
      /\ transport'[c] = IF ok THEN built[c] + 1 ELSE NoTransport
    BY <1>1 DEF ClientTyped
<1>4. Whole(c)'
    BY <1>2, <1>3 DEF Whole
<1>5. CASE ok /\ known = negotiated[c]
    <2>1. ToSet(sections[c]) \subseteq Kinds(want, known)
        BY <1>5 DEF Whole, Kinds
    <2> QED
        BY <1>2, <1>3, <1>4, <1>5, <2>1 DEF Kept
<1>6. CASE ~ok
    <2>1. ~(transport'[c] > transport[c])
        BY <1>3, <1>6, SectionTypes DEF NoTransport
    <2> QED
        BY <1>4, <2>1 DEF Kept
<1>7. CASE transport[c] = NoTransport
    BY <1>4, <1>7 DEF Kept
<1> QED
    BY <1>5, <1>6, <1>7

LEMMA SectionEffect ==
    ASSUME Typed, FreshInv, NEW c \in Clients, Whole(c), ClientNext(c)
    PROVE  Whole(c)' /\ Kept(c) /\ OthersKeep(c)
<1>0. ClientTyped
    BY DEF Typed
<1>1. ASSUME UNCHANGED <<sections, negotiated, transport>>
      PROVE  Whole(c)' /\ Kept(c) /\ OthersKeep(c)
    BY <1>0, <1>1, SectionTypes DEF Whole, Kept, OthersKeep
<1>2. ASSUME NEW want \in SUBSET Media, NEW known \in SUBSET Media, NEW ok \in BOOLEAN,
             SwapIn(c, want, known, ok)
      PROVE  OthersKeep(c)
    BY <1>0, <1>2 DEF SwapIn, ClientTyped, OthersKeep
<1>3. CASE Suppress(c) \/ Resume(c)
    BY <1>1, <1>3 DEF Suppress, Resume, bundleVars
<1>4. CASE Release(c)
    BY <1>1, <1>4 DEF Release, bundleVars
<1>5. CASE ShutdownSwap(c)
    <2>1. /\ transport' = [transport EXCEPT ![c] = NoTransport]
          /\ sections' = [sections EXCEPT ![c] = <<>>]
          /\ negotiated' = negotiated
        BY <1>5 DEF ShutdownSwap
    <2>2. transport'[c] = NoTransport /\ sections'[c] = <<>>
        BY <1>0, <2>1 DEF ClientTyped
    <2>3. Whole(c)'
        BY <2>1, <2>2, NoSections DEF Whole
    <2>4. Kept(c)
        BY <1>0, <2>2, SectionTypes DEF Kept, NoTransport
    <2> QED
        BY <1>0, <2>1, <2>3, <2>4 DEF ClientTyped, OthersKeep
<1>6. ASSUME NEW want \in SUBSET Media, NEW ok \in BOOLEAN, ResetPeerConnection(c, want, ok)
      PROVE  Whole(c)' /\ Kept(c) /\ SwapIn(c, want, negotiated[c], ok)
    <2>1. SwapIn(c, want, negotiated[c], ok)
        BY <1>6 DEF ResetPeerConnection
    <2> QED
        BY <1>0, <2>1, SectionTypes, SwapSections
<1>7. ASSUME NEW want \in SUBSET Media, NEW ok \in BOOLEAN, InitializeSwap(c, want, ok),
             at["signaling"] = "build", arg["signaling"] = c
      PROVE  Whole(c)' /\ Kept(c) /\ SwapIn(c, want, {}, ok)
    <2>1. SwapIn(c, want, {}, ok)
        BY <1>7 DEF InitializeSwap
    <2>2. transport[c] = NoTransport
        BY <1>7 DEF FreshInv
    <2> QED
        BY <1>0, <2>1, <2>2, SwapSections
<1>8. ASSUME NEW want \in SUBSET Media, EnsureMediaTracks(c, want)
      PROVE  Whole(c)' /\ Kept(c) /\ OthersKeep(c)
    <2> DEFINE new == Kinds(want, {}) \ ToSet(sections[c])
               more == InOrder(new)
    <2>1. new \in SUBSET Media /\ more \in Seq(Media) /\ ToSet(more) = new
        <3>1. new \in SUBSET Media
            BY SectionsAreKinds
        <3> QED
            BY <3>1, SetOfInOrder
    <2>2. "alpha" \in new => "video" \in new \cup ToSet(sections[c])
        BY SectionsAreKinds
    <2>3. /\ sections' = [sections EXCEPT ![c] = @ \o more]
          /\ negotiated' = [negotiated EXCEPT ![c] = @ \cup ToSet(more)]
          /\ transport' = transport
        BY <1>8 DEF EnsureMediaTracks
    <2> HIDE DEF more, new
    <2>4. sections'[c] = sections[c] \o more /\ negotiated'[c] = negotiated[c] \cup new
        BY <1>0, <2>1, <2>3 DEF ClientTyped
    <2>5. ToSet(sections'[c]) = ToSet(sections[c]) \cup new
        BY <1>0, <2>1, <2>4, SectionTypes, SetOfConcat
    <2>6. Whole(c)'
        BY <2>2, <2>4, <2>5 DEF Whole
    <2>7. Kept(c)
        BY <2>5 DEF Kept
    <2> QED
        BY <1>0, <2>3, <2>6, <2>7 DEF ClientTyped, OthersKeep
<1>9. ASSUME NEW e \in Events, RtcEvent(c, e)
      PROVE  UNCHANGED <<sections, negotiated, transport>>
    BY <1>9 DEF RtcEvent, Callback
<1>10. ASSUME NEW k \in parked[c], Admit(c, k)
      PROVE  UNCHANGED <<sections, negotiated, transport>>
    BY <1>10 DEF Admit, bundleVars
<1>11. {} \in SUBSET Media /\ negotiated[c] \in SUBSET Media
    BY <1>0, SectionTypes
<1> QED
    BY <1>1, <1>2, <1>3, <1>4, <1>5, <1>6, <1>7, <1>8, <1>9, <1>10, <1>11 DEF ClientNext

LEMMA SectionStep ==
    ASSUME Typed, FreshInv, SectionInv, Next
    PROVE  SectionInv' /\ \A c \in Clients : Kept(c)
<1>1. \A c \in Clients : Whole(c)
    BY DEF SectionInv, Whole
<1>2. CASE UNCHANGED clientVars
    <2>1. \A c \in Clients : Whole(c)' /\ Kept(c)
        BY <1>1, <1>2 DEF clientVars, Whole, Kept
    <2> QED
        BY <2>1 DEF SectionInv, Whole
<1>3. ASSUME NEW c \in Clients, ClientNext(c)
      PROVE  SectionInv' /\ \A q \in Clients : Kept(q)
    <2>1. \A q \in Clients : Whole(q)' /\ Kept(q)
      <3> SUFFICES ASSUME NEW q \in Clients PROVE Whole(q)' /\ Kept(q)
          OBVIOUS
      <3>1. CASE q = c
          BY <1>1, <1>3, <3>1, SectionEffect
      <3>2. CASE q # c
        <4>1. /\ sections'[q] = sections[q] /\ negotiated'[q] = negotiated[q]
              /\ transport'[q] = transport[q]
            BY <1>1, <1>3, <3>2, SectionEffect DEF OthersKeep
        <4>2. transport[q] \in Nat
            BY SectionTypes DEF Typed
        <4> QED
            BY <1>1, <4>1, <4>2 DEF Whole, Kept
      <3> QED
          BY <3>1, <3>2
    <2> QED
        BY <2>1 DEF SectionInv, Whole
<1> QED
    BY <1>2, <1>3, ClientMoves

---------------------------------------------------------------------------
(* The invariant as a whole.                                               *)
IInv ==
  Typed /\ Locked /\ BarrierInv /\ FreshInv /\ GoneInv /\ GateInv /\ SectionInv

LEMMA InitTyped ==
    ASSUME Init
    PROVE  Typed
<1>1. ClientTyped
    BY NoSections, Silence DEF Init, ClientInit, ClientTyped, NoTransport, LinkStates
<1>2. SchedulerTyped
    <2>1. posted \in [Clients -> Callbacks]
        BY Silence DEF Init
    <2>2. serial \in 0 .. MaxJobs
        BY RecheckAssumption DEF Init
    <2> QED
        BY <2>1, <2>2 DEF Init, SchedulerTyped
<1>3. PeerTyped
    <2>1. Cardinality(Clients) \in Nat
        BY ClientsAssumption, FS_CardinalityType
    <2>2. admitted \in 0 .. Cardinality(Clients) /\ mapped \in 0 .. admitted
        BY <2>1 DEF Init, Nobody
    <2> QED
        BY <2>2 DEF Init, PeerTyped, NoTransport, Free, ReaperSteps
<1>4. ThreadTyped
    <2>1. at \in [Threads -> Steps] /\ next \in [Threads -> Returns]
        BY DEF Init, Steps, Returns, Home
    <2>2. arg \in [Threads -> Clients \cup {Nobody}] /\ todo \in [Threads -> Jobs]
        BY JobSets DEF Init
    <2>3. inputs \in 0 .. MaxInputs /\ lives \in 0 .. MaxLives
        BY RecheckAssumption DEF Init
    <2> QED
        BY <2>1, <2>2, <2>3 DEF Init, ThreadTyped
<1>5. InHand
    BY DEF Init, InHand, Hand, MayInsert, Home, Threads
<1> QED
    BY <1>1, <1>2, <1>3, <1>4, <1>5 DEF Typed

LEMMA InitHolds ==
    ASSUME Init
    PROVE  IInv
<1>1. /\ at = [t \in Threads |-> IF t = "loop" THEN "off" ELSE "idle"]
      /\ \A t \in Threads : at[t] \in {"off", "idle"}
    BY DEF Init
<1>2. Locked
    BY <1>1 DEF Init, Locked, WorkerLocked, SignalingLocked, Threads
<1>3. BarrierInv
    BY <1>1 DEF Init, BarrierInv, Rebuilding, Threads
<1>4. FreshInv
    BY <1>1 DEF Init, ClientInit, FreshInv, Threads
<1>5. GoneInv
    BY <1>1 DEF GoneInv, Gone, Removers, Threads
<1>6. GateInv
    BY DEF Init, ClientInit, GateInv
<1>7. SectionInv
    BY NoSections DEF Init, ClientInit, SectionInv
<1> QED
    BY <1>2, <1>3, <1>4, <1>5, <1>6, <1>7, InitTyped DEF IInv

LEMMA TypedStep ==
    ASSUME Typed, Next
    PROVE  Typed'
<1>1. ClientTyped'
    <2>1. CASE UNCHANGED clientVars
        BY <2>1 DEF Typed, ClientTyped, clientVars
    <2> QED
        BY <2>1, ClientMoves, ClientKeepsTypes
<1>2. SchedulerTyped' /\ PeerTyped' /\ ThreadTyped'
    BY SchedulerKeepsTypes, PeersKeepTypes, ThreadsKeepTypes
<1> QED
    BY <1>1, <1>2, HandsKeep DEF Typed

LEMMA Stutter ==
    ASSUME IInv, UNCHANGED vars
    PROVE  IInv'
<1>1. /\ UNCHANGED <<transport, built, link, sections, negotiated, down, suppressed, parked, body>>
      /\ UNCHANGED <<running, stopping, accepting, slot, serial, verdict, barrier>>
      /\ UNCHANGED <<queue, posted, mapped, admitted, removed, initializing, retired, stale>>
      /\ UNCHANGED <<pending, wireGen, clientGen, held, at, arg, todo, next>>
      /\ UNCHANGED <<live, online, reaper, inputs, lives, barred>>
    BY DEF vars, clientVars, schedulerVars, executorVars, peerVars, threadVars, lifeVars,
      boundVars
<1>2. ClientTyped' /\ SchedulerTyped'
    BY <1>1 DEF IInv, Typed, ClientTyped, SchedulerTyped
<1>3. PeerTyped' /\ ThreadTyped'
    BY <1>1 DEF IInv, Typed, PeerTyped, ThreadTyped
<1>4. InHand'
    BY <1>1 DEF IInv, Typed, InHand, Hand, MayInsert
<1>5. Locked' /\ BarrierInv'
    BY <1>1 DEF IInv, Locked, BarrierInv
<1>6. FreshInv' /\ GoneInv'
    BY <1>1 DEF IInv, FreshInv, GoneInv, Gone
<1>7. GateInv' /\ SectionInv'
    BY <1>1 DEF IInv, GateInv, SectionInv
<1> QED
    BY <1>2, <1>3, <1>4, <1>5, <1>6, <1>7 DEF IInv, Typed

LEMMA StepHolds ==
    ASSUME IInv, [Next]_vars
    PROVE  IInv'
<1>1. CASE Next
    BY <1>1, TypedStep, LocksStep, BarrierStep, FreshStep, GoneStep, GateStep,
      SectionStep DEF IInv
<1> QED
    BY <1>1, Stutter

LEMMA Inductive == Spec => []IInv
<1>1. Init => IInv
    BY InitHolds
<1>2. IInv /\ [Next]_vars => IInv'
    BY StepHolds
<1> QED
    BY <1>1, <1>2, PTL DEF Spec

---------------------------------------------------------------------------
(* Every thread has in hand what its next step uses: a thread that settles *)
(* or completes a cancellation has a job the scheduler numbered, one that  *)
(* offers, rebuilds or removes has a session, and a signaling callback     *)
(* schedules only below the bound on jobs (cancelDuplicateOfferRecheckJob, *)
(* sendPeerOffer, removePeerSession, scheduleDuplicateOfferRecheck).       *)
THEOREM RechecksTyped == Spec => []Typed
<1>1. IInv => Typed
    BY DEF IInv
<1> QED
    BY <1>1, Inductive, PTL

(* A thread that works on a session's transport holds that session's       *)
(* callbackOperationMutex and clientOperationMutex, so no two of an offer, *)
(* an initialization, a recheck and the asynchronous shutdown are at one   *)
(* transport at once (sendPeerOffer, runDuplicateOfferRecheck,             *)
(* shutdownPeerClientAsync).                                               *)
THEOREM TransportsAreLocked == Spec => []Locked
<1>1. IInv => Locked
    BY DEF IInv
<1> QED
    BY <1>1, Inductive, PTL

(* A recheck whose cancellation returned is neither started nor continued: *)
(* while the worker rebuilds it holds the job's barrierMutex and the job   *)
(* has no disposition, which a cancellation that returned has given it     *)
(* (runDuplicateOfferRecheck, cancelDuplicateOfferRecheckJob).             *)
THEOREM CancelledIsNotRebuilt == Spec => []NoRebuildAfterCancel
<1>1. IInv => NoRebuildAfterCancel
    BY DEF IInv, BarrierInv, NoRebuildAfterCancel
<1> QED
    BY <1>1, Inductive, PTL

(* Application code runs only for the transport a client publishes, and    *)
(* for none once the session's asynchronous shutdown is done               *)
(* (CallbackLease, suppressCallbacksAndWait, shutdownPeerClientAsync).     *)
THEOREM NoCallbackIsLate == Spec => []NoLateCallback
<1>1. IInv => NoLateCallback
    BY DEF IInv, GateInv, NoLateCallback
<1> QED
    BY <1>1, Inductive, PTL

(* A rebuild keeps every media section the viewer's transport had: what    *)
(* was ever offered is remembered, and alpha is never without video        *)
(* (buildTransport, ensureMediaTracks).                                    *)
THEOREM RebuildsKeepSections == Spec => SectionsSurviveRebuild
<1>1. IInv /\ [Next]_vars =>
        [\A p \in Clients :
           transport'[p] > transport[p] /\ transport[p] # NoTransport
             => ToSet(sections[p]) \subseteq ToSet(sections'[p])]_vars
    <2> SUFFICES ASSUME IInv, [Next]_vars, ~UNCHANGED vars, NEW p \in Clients,
                        transport'[p] > transport[p], transport[p] # NoTransport
                 PROVE  ToSet(sections[p]) \subseteq ToSet(sections'[p])
        OBVIOUS
    <2>1. Kept(p)
        BY SectionStep DEF IInv
    <2> QED
        BY <2>1 DEF Kept
<1> QED
    BY <1>1, Inductive, PTL DEF Spec, SectionsSurviveRebuild
=============================================================================
