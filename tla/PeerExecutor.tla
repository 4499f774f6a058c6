---------------------------- MODULE PeerExecutor ----------------------------
(***************************************************************************)
(* GenerationTaggedPeerOperationExecutor: the serialized boundary between  *)
(* transport callbacks and the application.  Callback threads enqueue      *)
(* operations tagged with the transport generation they belong to; one     *)
(* worker thread runs them, critical work first, and every submission is   *)
(* answered by one completion callback whatever happens to it (executed,   *)
(* superseded, evicted, rejected, stale, or dropped by stop()).            *)
(*                                                                         *)
(* A step is one critical section of mutex_, or one user callback          *)
(* (predicate, operation or completion) run outside it.  Threads are the   *)
(* Clients and the workers themselves: a callback on the worker may call   *)
(* back into enqueue, stop or start.                                       *)
(***************************************************************************)
EXTENDS Integers, Sequences, FiniteSets, SequencesExt

CONSTANTS
    Ops,          \* submissions; one may be submitted again once it is settled
    Peers,        \* peer keys
    Keys,         \* coalesce keys
    Clients,      \* threads other than the worker
    Owner,        \* the client that runs the destructor
    Requests,     \* the requests callers make
    NoOp, NoPeer, NoKey, Nobody,
    MaxQueued,               \* maxQueued_
    PerPeerFloor,            \* 4 in the constructor
    MaxConsecutiveCritical,  \* kMaxConsecutiveCritical, 8 in the code
    MaxGeneration,           \* bound: transport replacements per peer
    MaxEpoch                 \* bound: workers ever started

Replaceable == 0
State       == 1
Convergent  == 2
Criticality == Replaceable .. Convergent

Priority == {"Ordinary", "Critical"}
Epochs   == 1 .. MaxEpoch
Callers  == Clients \cup Epochs

Request == [peer : Peers, key : Keys \cup {NoKey}, priority : Priority,
            criticality : Criticality, generation : 1 .. MaxGeneration]

ASSUME ExecutorAssumption ==
    /\ MaxQueued \in Nat \ {0}
    /\ PerPeerFloor \in Nat \ {0}
    /\ MaxConsecutiveCritical \in Nat \ {0}
    /\ MaxGeneration \in Nat \ {0}
    /\ MaxEpoch \in Nat \ {0}
    /\ Owner \in Clients
    /\ Requests \subseteq Request
    /\ NoOp \notin Ops
    /\ NoPeer \notin Peers /\ Peers # {}
    /\ NoKey \notin Keys
    /\ Nobody \notin Callers
    /\ Clients \cap Epochs = {}

-----------------------------------------------------------------------------
\* The capacities the constructor derives from maxQueued.
Least(a, b)    == IF a < b THEN a ELSE b
Greatest(a, b) == IF a > b THEN a ELSE b

CriticalReserve ==
    IF MaxQueued > 1 THEN Least(MaxQueued - 1, Greatest(1, MaxQueued \div 8)) ELSE 0

OrdinaryCapacity == MaxQueued - CriticalReserve

PerPeerOrdinaryLimit ==
    Least(64, Greatest(1, Least(OrdinaryCapacity,
                                Greatest(PerPeerFloor, OrdinaryCapacity \div 4))))

-----------------------------------------------------------------------------
VARIABLES
    critical,       \* criticalQueue_
    ordinary,       \* ordinaryQueue_
    dropped,        \* droppedCompletionQueue_
    request,        \* what each submission asked for
    peerCount,      \* ordinaryQueuedByPeer_
    lastServed,     \* lastServedPeerKey_
    consecutive,    \* consecutiveCritical_, saturating at MaxConsecutiveCritical
    running, stopRequested, workerExited, inFlight,
    handle,         \* worker_: the epoch of the thread it holds, 0 = not joinable
    workerEpoch,    \* workerEpoch_
    lifecycle,      \* the owner of lifecycleMutex_
    worker,         \* the worker threads: program counter, item in hand, verdict
    call,           \* where each caller is inside stop(), the destructor or nowhere
    destroying,     \* the owner has entered the destructor
    hand,           \* the displaced or rejected item whose completion a caller owes
    generation,     \* the transport generation each peer is at (the predicates read it)
    completions     \* history: completions of an item since it was last submitted

queueVars  == <<critical, ordinary, dropped, request, peerCount>>
serveVars  == <<lastServed, consecutive>>
lifeVars   == <<running, stopRequested, workerExited, handle, workerEpoch, lifecycle>>
workerVars == <<worker, inFlight>>
callVars   == <<call, destroying, hand>>
envVars    == <<generation, completions>>
vars == <<queueVars, serveVars, lifeVars, workerVars, callVars, envVars>>

InCallback == {"check", "run", "complete"}
Reentrant  == {"run", "complete"}  \* the predicates only read the peer's state

TypeOK ==
    /\ critical \in Seq(Ops) /\ ordinary \in Seq(Ops) /\ dropped \in Seq(Ops)
    /\ request \in [Ops -> Request]
    /\ peerCount \in [Peers -> Nat]
    /\ lastServed \in Peers \cup {NoPeer}
    /\ consecutive \in 0 .. MaxConsecutiveCritical
    /\ running \in BOOLEAN /\ stopRequested \in BOOLEAN /\ workerExited \in BOOLEAN
    /\ inFlight \in Nat
    /\ handle \in 0 .. MaxEpoch /\ workerEpoch \in 0 .. MaxEpoch
    /\ lifecycle \in Callers \cup {Nobody}
    /\ worker \in [Epochs -> [pc : {"off", "wait", "release"} \cup InCallback,
                              op : Ops \cup {NoOp},
                              verdict : {"DroppedOnStop", "StaleGeneration",
                                         "OperationThrew", "Executed"}]]
    /\ call \in [Callers -> [pc : {"idle", "finalize", "join", "await", "gone"},
                             epoch : 0 .. MaxEpoch]]
    /\ destroying \in BOOLEAN
    /\ hand \in [Callers -> Ops \cup {NoOp}]
    /\ generation \in [Peers -> 1 .. MaxGeneration]
    /\ completions \in [Ops -> Nat]

Blank == CHOOSE r \in Request : TRUE  \* an item that is not in use

Init ==
    /\ critical = <<>> /\ ordinary = <<>> /\ dropped = <<>>
    /\ request = [o \in Ops |-> Blank]
    /\ peerCount = [p \in Peers |-> 0]
    /\ lastServed = NoPeer /\ consecutive = 0
    /\ running = FALSE /\ stopRequested = FALSE /\ workerExited = FALSE
    /\ inFlight = 0 /\ handle = 0 /\ workerEpoch = 0 /\ lifecycle = Nobody
    /\ worker = [e \in Epochs |-> [pc |-> "off", op |-> NoOp, verdict |-> "Executed"]]
    /\ call = [c \in Callers |-> [pc |-> "idle", epoch |-> 0]]
    /\ destroying = FALSE
    /\ hand = [c \in Callers |-> NoOp]
    /\ generation = [p \in Peers |-> 1]
    /\ completions = [o \in Ops |-> 1]

-----------------------------------------------------------------------------
PeerOf(o)        == request[o].peer
CriticalityOf(o) == request[o].criticality
Queued           == Len(critical) + Len(ordinary)

\* A caller may start a call: a client until destruction, a worker from inside
\* one of the callbacks it is running.
CanCall(c) ==
    /\ call[c].pc = "idle" /\ hand[c] = NoOp
    /\ IF c \in Clients THEN ~destroying
                        ELSE worker[c].pc \in Reentrant

\* Only a settled item is submitted (again).
Submit(o, r) ==
    /\ completions[o] = 1
    /\ completions' = [completions EXCEPT ![o] = 0]
    /\ request' = [request EXCEPT ![o] = r]

\* An item's completion is invoked and the item freed.
Settle(o) ==
    /\ completions' = [completions EXCEPT ![o] = @ + 1]
    /\ request' = [request EXCEPT ![o] = Blank]

\* Mutant: an item leaves the queue and stays counted.
UncountForgotten(p) == peerCount

\* decrement or erase the peer's entry of ordinaryQueuedByPeer_
Uncount(p) == [peerCount EXCEPT ![p] = IF @ > 1 THEN @ - 1 ELSE 0]

\* Mutant: the stop flag is not looked at.
AcceptingWhileStopping == running

Accepting == running /\ ~stopRequested

SameKey(o, r) == PeerOf(o) = r.peer /\ request[o].key = r.key

CoalescesCritical(r) ==
    /\ r.priority = "Critical" /\ r.key # NoKey
    /\ \E i \in DOMAIN critical : SameKey(critical[i], r)

CoalescesOrdinary(r) ==
    /\ r.priority = "Ordinary" /\ r.key # NoKey /\ ordinary # <<>>
    /\ SameKey(Last(ordinary), r) /\ request[Last(ordinary)].generation = r.generation

OrdinaryFull(p) ==
    \/ Len(ordinary) >= OrdinaryCapacity
    \/ Queued >= MaxQueued
    \/ peerCount[p] >= PerPeerOrdinaryLimit

\* Mutant: the oldest item goes, whatever it is worth.
IsOldest(i, r) == i = 1

\* The oldest of the least valuable critical items, if it is worth no more than r.
IsVictim(i, r) ==
    /\ CriticalityOf(critical[i]) <= r.criticality
    /\ \A j \in DOMAIN critical :
          \/ CriticalityOf(critical[i]) < CriticalityOf(critical[j])
          \/ CriticalityOf(critical[i]) = CriticalityOf(critical[j]) /\ i <= j

-----------------------------------------------------------------------------
(***************************************************************************)
(* enqueue(): one critical section, after which the caller still owes the  *)
(* completion of the item it displaced or of its own rejected item.        *)
(***************************************************************************)
Owe(c, o) == hand' = [hand EXCEPT ![c] = o]

\* Any Rejected... result: the item is never queued.
EnqueueRefused(c, o, r) ==
    /\ Submit(o, r)
    /\ Owe(c, o)
    /\ UNCHANGED <<critical, ordinary, dropped, peerCount>>

\* RejectedInvalid: no generation, peer, predicate or operation was given.
EnqueueInvalid(c, o, r) == EnqueueRefused(c, o, r)

EnqueueStopped(c, o, r) ==
    ~Accepting /\ EnqueueRefused(c, o, r)

EnqueueCoalescedCritical(c, o, r) ==
    /\ Accepting /\ CoalescesCritical(r)
    /\ \E i \in DOMAIN critical :
         /\ SameKey(critical[i], r)
         /\ \A j \in DOMAIN critical : SameKey(critical[j], r) => i <= j
         /\ critical' = [critical EXCEPT ![i] = o]
         /\ Owe(c, critical[i])
    /\ Submit(o, r)
    /\ UNCHANGED <<ordinary, dropped, peerCount>>

EnqueueCoalescedOrdinary(c, o, r) ==
    /\ Accepting /\ CoalescesOrdinary(r)
    /\ ordinary' = [ordinary EXCEPT ![Len(ordinary)] = o]
    /\ Owe(c, Last(ordinary))
    /\ Submit(o, r)
    /\ UNCHANGED <<critical, dropped, peerCount>>

EnqueueOrdinary(c, o, r) ==
    /\ Accepting /\ r.priority = "Ordinary" /\ ~CoalescesOrdinary(r)
    /\ IF OrdinaryFull(r.peer)
       THEN EnqueueRefused(c, o, r)
       ELSE /\ Submit(o, r)
            /\ ordinary' = Append(ordinary, o)
            /\ peerCount' = [peerCount EXCEPT ![r.peer] = @ + 1]
            /\ UNCHANGED <<critical, dropped, hand>>

EnqueueCritical(c, o, r) ==
    /\ Accepting /\ r.priority = "Critical" /\ ~CoalescesCritical(r)
    /\ Queued < MaxQueued
    /\ Submit(o, r)
    /\ critical' = Append(critical, o)
    /\ UNCHANGED <<ordinary, dropped, peerCount, hand>>

EnqueueEvictingOrdinary(c, o, r) ==
    /\ Accepting /\ r.priority = "Critical" /\ ~CoalescesCritical(r)
    /\ Queued >= MaxQueued /\ ordinary # <<>>
    /\ Submit(o, r)
    /\ Owe(c, Head(ordinary))
    /\ ordinary' = Tail(ordinary)
    /\ peerCount' = Uncount(PeerOf(Head(ordinary)))
    /\ critical' = Append(critical, o)
    /\ UNCHANGED dropped

EnqueueEvictingCritical(c, o, r) ==
    /\ Accepting /\ r.priority = "Critical" /\ ~CoalescesCritical(r)
    /\ Queued >= MaxQueued /\ ordinary = <<>>
    /\ IF \E i \in DOMAIN critical : IsVictim(i, r)
       THEN \E i \in DOMAIN critical :
              /\ IsVictim(i, r)
              /\ Submit(o, r)
              /\ Owe(c, critical[i])
              /\ critical' = Append(RemoveAt(critical, i), o)
              /\ UNCHANGED <<ordinary, dropped, peerCount>>
       ELSE EnqueueRefused(c, o, r)

Enqueue(c) ==
    /\ CanCall(c)
    /\ \E o \in Ops, r \in {q \in Requests : q.generation <= generation[q.peer]} :
         \/ EnqueueInvalid(c, o, r)
         \/ EnqueueStopped(c, o, r)
         \/ EnqueueCoalescedCritical(c, o, r)
         \/ EnqueueCoalescedOrdinary(c, o, r)
         \/ EnqueueOrdinary(c, o, r)
         \/ EnqueueCritical(c, o, r)
         \/ EnqueueEvictingOrdinary(c, o, r)
         \/ EnqueueEvictingCritical(c, o, r)
    /\ UNCHANGED <<serveVars, lifeVars, workerVars, call, destroying, generation>>

\* invokeCompletion for the displaced or rejected item, after the unlock
CompleteDisplaced(c) ==
    /\ hand[c] # NoOp
    /\ Settle(hand[c])
    /\ hand' = [hand EXCEPT ![c] = NoOp]
    /\ UNCHANGED <<critical, ordinary, dropped, peerCount, serveVars, lifeVars,
                   workerVars, call, destroying, generation>>

-----------------------------------------------------------------------------
(***************************************************************************)
(* stop(), the destructor and start().                                     *)
(***************************************************************************)
StoppableEpoch == IF running \/ handle # 0 THEN workerEpoch ELSE 0

\* The critical section of stop(): everything queued moves to the dropped
\* queue, critical items first; then the caller tries to finalize the worker
\* it stopped (no worker: nothing to finalize).
StopSection(c, next) ==
    /\ stopRequested' = (stopRequested \/ StoppableEpoch # 0)
    /\ dropped' = dropped \o critical \o ordinary
    /\ critical' = <<>> /\ ordinary' = <<>>
    /\ peerCount' = [p \in Peers |-> 0]
    /\ call' = [call EXCEPT ![c] = [pc |-> IF StoppableEpoch = 0 THEN next ELSE "finalize",
                                   epoch |-> StoppableEpoch]]
    /\ UNCHANGED <<request, serveVars, running, workerExited, handle, workerEpoch,
                   lifecycle, workerVars, hand, envVars>>

Stop(c) == CanCall(c) /\ StopSection(c, "idle") /\ UNCHANGED destroying

\* The owner destroys the executor once no other client is inside a call.
Destroy ==
    /\ CanCall(Owner)
    /\ \A c \in Clients \ {Owner} : call[c].pc = "idle" /\ hand[c] = NoOp
    /\ StopSection(Owner, "await")
    /\ destroying' = TRUE

\* Where stop() returns to: its caller, or the rest of the destructor.
Return(c) ==
    call' = [call EXCEPT ![c].pc = IF c = Owner /\ destroying THEN "await" ELSE "idle"]

\* Mutant: the thread is taken while it runs a callback.
TakesBusyThread(c, epoch) == handle # 0 /\ workerEpoch = epoch /\ handle # c

\* finalizeStoppedWorker after it has the lifecycle lock: does it take the thread?
TakesThread(c, epoch) ==
    /\ handle # 0 /\ workerEpoch = epoch
    /\ handle # c
    /\ (workerExited \/ inFlight = 0) /\ dropped = <<>>

BeginJoin(c, epoch) ==
    /\ lifecycle' = c
    /\ handle' = 0
    /\ call' = [call EXCEPT ![c].pc = "join", ![c].epoch = epoch]

\* finalizeStoppedWorker(false, epoch): try_lock, and leave when it fails or
\* when the worker is not quiescent.
Finalize(c) ==
    /\ call[c].pc = "finalize"
    /\ IF lifecycle = Nobody /\ TakesThread(c, call[c].epoch)
       THEN BeginJoin(c, call[c].epoch)
       ELSE Return(c) /\ UNCHANGED <<handle, lifecycle>>
    /\ UNCHANGED <<queueVars, serveVars, running, stopRequested, workerExited,
                   workerEpoch, workerVars, destroying, hand, envVars>>

\* worker.join() returns when the thread has ended; then the lifecycle is reset.
Join(c) ==
    /\ call[c].pc = "join" /\ worker[call[c].epoch].pc = "off"
    /\ running' = FALSE /\ stopRequested' = FALSE /\ workerExited' = FALSE
    /\ inFlight' = 0
    /\ consecutive' = 0 /\ lastServed' = NoPeer
    /\ lifecycle' = Nobody
    /\ Return(c)
    /\ UNCHANGED <<queueVars, handle, workerEpoch, worker, destroying, hand, envVars>>

\* Mutant: the destructor leaves after stop(), joined or not.
AwaitNothing ==
    /\ call[Owner].pc = "await"
    /\ call' = [call EXCEPT ![Owner].pc = "gone"]
    /\ UNCHANGED <<queueVars, serveVars, lifeVars, workerVars, destroying, hand, envVars>>

\* The rest of the destructor: finalizeStoppedWorker(true, epoch) when a stop is
\* still pending.  It waits on idleCv_, then owns the lifecycle lock, then joins.
Await ==
    /\ call[Owner].pc = "await"
    /\ IF ~stopRequested \/ workerEpoch = 0
       THEN /\ call' = [call EXCEPT ![Owner].pc = "gone"]
            /\ UNCHANGED <<handle, lifecycle>>
       ELSE /\ \/ handle = 0
               \/ (workerExited \/ inFlight = 0) /\ dropped = <<>>
            /\ lifecycle = Nobody
            /\ IF TakesThread(Owner, workerEpoch)
               THEN BeginJoin(Owner, workerEpoch)
               ELSE /\ call' = [call EXCEPT ![Owner].pc = "gone"]
                    /\ UNCHANGED <<handle, lifecycle>>
    /\ UNCHANGED <<queueVars, serveVars, running, stopRequested, workerExited,
                   workerEpoch, workerVars, destroying, hand, envVars>>

\* A previous worker that has reported its exit is joined, and its lifecycle reset.
ResetForStart ==
    /\ stopRequested' = FALSE /\ workerExited' = FALSE
    /\ IF running
       THEN inFlight' = 0 /\ consecutive' = 0 /\ lastServed' = NoPeer
       ELSE UNCHANGED <<inFlight, consecutive, lastServed>>

\* Mutant: start() does not wait for the stopped worker to exit.
MayLaunchBehindWorker == running => stopRequested

\* start(): the calls that change something.  It is already running, or fails
\* closed behind a worker that has not exited, otherwise.
MayLaunch ==
    IF running THEN stopRequested /\ workerExited ELSE handle = 0 \/ workerExited

Start(c) ==
    /\ CanCall(c) /\ lifecycle = Nobody /\ MayLaunch
    /\ workerEpoch < MaxEpoch
    /\ ResetForStart
    /\ worker' = [worker EXCEPT ![workerEpoch + 1].pc = "wait"]
    /\ workerEpoch' = workerEpoch + 1
    /\ handle' = workerEpoch + 1
    /\ running' = TRUE
    /\ UNCHANGED <<queueVars, lifecycle, callVars, envVars>>

\* std::thread threw: the previous worker is gone and nothing runs.
StartFails(c) ==
    /\ CanCall(c) /\ lifecycle = Nobody /\ MayLaunch
    /\ ResetForStart
    /\ running' = FALSE /\ handle' = 0
    /\ UNCHANGED <<queueVars, workerEpoch, lifecycle, worker, callVars, envVars>>

-----------------------------------------------------------------------------
(***************************************************************************)
(* workerLoop() of worker w.                                               *)
(***************************************************************************)
Hold(w, o, pc, verdict) ==
    worker' = [worker EXCEPT ![w] = [pc |-> pc, op |-> o, verdict |-> verdict]]

\* Mutant: the newest item of another peer.
IsNewestPick(q, i) ==
    IF lastServed # NoPeer /\ \E j \in DOMAIN q : PeerOf(q[j]) # lastServed
    THEN /\ PeerOf(q[i]) # lastServed
         /\ \A j \in DOMAIN q : PeerOf(q[j]) # lastServed => i >= j
    ELSE i = 1

\* popFairLocked: the first item of a peer other than the one served last.
IsFairPick(q, i) ==
    IF lastServed # NoPeer /\ \E j \in DOMAIN q : PeerOf(q[j]) # lastServed
    THEN /\ PeerOf(q[i]) # lastServed
         /\ \A j \in DOMAIN q : PeerOf(q[j]) # lastServed => i <= j
    ELSE i = 1

Serve(w, o) ==
    /\ Hold(w, o, "check", "Executed")
    /\ lastServed' = PeerOf(o)
    /\ inFlight' = inFlight + 1

\* Mutant: critical work always goes first.
CriticalAlways == critical # <<>>

CriticalTurn ==
    critical # <<>> /\ (ordinary = <<>> \/ consecutive < MaxConsecutiveCritical)

TakeCritical(w) ==
    /\ worker[w].pc = "wait" /\ ~stopRequested /\ CriticalTurn
    /\ \E i \in DOMAIN critical :
         /\ IsFairPick(critical, i)
         /\ Serve(w, critical[i])
         /\ critical' = RemoveAt(critical, i)
    /\ consecutive' = Least(consecutive + 1, MaxConsecutiveCritical)
    /\ UNCHANGED <<ordinary, dropped, request, peerCount, lifeVars, callVars, envVars>>

TakeOrdinary(w) ==
    /\ worker[w].pc = "wait" /\ ~stopRequested /\ ~CriticalTurn
    /\ \E i \in DOMAIN ordinary :
         /\ IsFairPick(ordinary, i)
         /\ Serve(w, ordinary[i])
         /\ ordinary' = RemoveAt(ordinary, i)
         /\ peerCount' = Uncount(PeerOf(ordinary[i]))
    /\ consecutive' = 0
    /\ UNCHANGED <<critical, dropped, request, lifeVars, callVars, envVars>>

TakeDropped(w) ==
    /\ worker[w].pc = "wait" /\ stopRequested /\ dropped # <<>>
    /\ Hold(w, Head(dropped), "complete", "DroppedOnStop")
    /\ dropped' = Tail(dropped)
    /\ inFlight' = inFlight + 1
    /\ UNCHANGED <<critical, ordinary, request, peerCount, serveVars, lifeVars,
                   callVars, envVars>>

\* Mutant: the stopped worker leaves without draining the dropped queue.
ExitUndrained(w) ==
    /\ worker[w].pc = "wait" /\ stopRequested
    /\ workerExited' = TRUE
    /\ worker' = [worker EXCEPT ![w].pc = "off"]
    /\ UNCHANGED <<queueVars, serveVars, running, stopRequested, handle, workerEpoch,
                   lifecycle, inFlight, callVars, envVars>>

Exit(w) ==
    /\ worker[w].pc = "wait" /\ stopRequested /\ dropped = <<>>
    /\ workerExited' = TRUE
    /\ worker' = [worker EXCEPT ![w].pc = "off"]
    /\ UNCHANGED <<queueVars, serveVars, running, stopRequested, handle, workerEpoch,
                   lifecycle, inFlight, callVars, envVars>>

\* A callback returns only after the calls it made have returned.
Returned(w) == call[w].pc = "idle" /\ hand[w] = NoOp

\* The predicate: is the item's generation the peer's transport generation?
CheckGeneration(w) ==
    /\ worker[w].pc = "check" /\ Returned(w)
    /\ LET o == worker[w].op
           current == request[o].generation = generation[PeerOf(o)]
       IN  \/ current /\ Hold(w, o, "run", "Executed")
           \/ ~current /\ Hold(w, o, "complete", "StaleGeneration")
           \/ Hold(w, o, "complete", "OperationThrew")
    /\ UNCHANGED <<queueVars, serveVars, lifeVars, inFlight, callVars, envVars>>

RunOperation(w) ==
    /\ worker[w].pc = "run" /\ Returned(w)
    /\ \E verdict \in {"Executed", "OperationThrew"} :
          Hold(w, worker[w].op, "complete", verdict)
    /\ UNCHANGED <<queueVars, serveVars, lifeVars, inFlight, callVars, envVars>>

Complete(w) ==
    /\ worker[w].pc = "complete" /\ Returned(w)
    /\ Settle(worker[w].op)
    /\ Hold(w, NoOp, "release", "Executed")
    /\ UNCHANGED <<critical, ordinary, dropped, peerCount, serveVars, lifeVars,
                   inFlight, callVars, generation>>

Release(w) ==
    /\ worker[w].pc = "release"
    /\ worker' = [worker EXCEPT ![w].pc = "wait"]
    /\ inFlight' = inFlight - 1
    /\ UNCHANGED <<queueVars, serveVars, lifeVars, callVars, envVars>>

\* Outside the executor: a peer's transport is replaced.
ReplaceTransport(p) ==
    /\ generation[p] < MaxGeneration
    /\ generation' = [generation EXCEPT ![p] = @ + 1]
    /\ UNCHANGED <<queueVars, serveVars, lifeVars, workerVars, callVars, completions>>

-----------------------------------------------------------------------------
WorkerLoop(w) ==
    \/ TakeCritical(w) \/ TakeOrdinary(w) \/ TakeDropped(w) \/ Exit(w) \/ Release(w)

CallbackReturns(w) == CheckGeneration(w) \/ RunOperation(w) \/ Complete(w)

CallStep(c) == CompleteDisplaced(c) \/ Finalize(c) \/ Join(c)

Next ==
    \/ \E c \in Callers : Enqueue(c) \/ Stop(c) \/ Start(c) \/ StartFails(c)
    \/ \E c \in Callers : CallStep(c)
    \/ Destroy \/ Await
    \/ \E w \in Epochs : WorkerLoop(w) \/ CallbackReturns(w)
    \/ \E p \in Peers : ReplaceTransport(p)

Spec == Init /\ [][Next]_vars

\* The operating system runs every thread that can run, and every callback
\* returns: it makes finitely many calls back into the executor, so its return,
\* disabled during each of them, is strongly fair.  Nothing obliges a client to
\* make a call.
Fairness ==
    /\ \A w \in Epochs : WF_vars(WorkerLoop(w)) /\ SF_vars(CallbackReturns(w))
    /\ \A c \in Callers : WF_vars(CallStep(c))
    /\ WF_vars(Await)

FairSpec == Spec /\ Fairness

-----------------------------------------------------------------------------
(***************************************************************************)
(* Correctness.                                                            *)
(***************************************************************************)
\* The bounds of enqueue(): the total, the room kept for critical work, the
\* share of one peer, and ordinaryQueuedByPeer_ telling the truth about it.
CapacityRespected ==
    /\ Queued <= MaxQueued
    /\ Len(ordinary) <= OrdinaryCapacity
    /\ \A p \in Peers :
         /\ peerCount[p] = Cardinality({i \in DOMAIN ordinary : PeerOf(ordinary[i]) = p})
         /\ peerCount[p] <= PerPeerOrdinaryLimit

\* One worker thread at a time, so operations are serialized across restarts.
OneWorker ==
    \A v, w \in Epochs : worker[v].pc # "off" /\ worker[w].pc # "off" => v = w

\* "never joins while a worker callback is active" (peer_operation_executor.h):
\* the thread a finalizer waits for is between items, has no more items to
\* answer, and is the one whose stop it saw.
JoinNeverWaitsForACallback ==
    \A c \in Callers : call[c].pc = "join" =>
        /\ stopRequested /\ dropped = <<>>
        /\ \A w \in Epochs : worker[w].pc \in {"off", "wait"}
        /\ \A w \in Epochs : worker[w].pc = "wait" => w = call[c].epoch

\* Work the executor accepted has a worker that will answer it, and that worker
\* can still be joined: stop() leaves nothing queued behind it and nothing is
\* accepted after it.
AcceptedWorkHasAWorker ==
    /\ critical \o ordinary \o dropped # <<>> =>
         handle # 0 /\ worker[handle].pc # "off"
    /\ stopRequested => critical = <<>> /\ ordinary = <<>>

\* Work is serialized by one worker, and none is left without it.
WorkHasItsWorker == OneWorker /\ AcceptedWorkHasAWorker

\* "newer work may displace an older item of equal or lower value, but never a
\* more valuable one" (peer_operation_executor.h): a critical item that leaves
\* the queue for a new one either shares its coalesce key or is worth no more
\* than it and than everything left in the queue.
EvictionRespectsValue ==
    [][\A c \in Callers : \A i \in DOMAIN critical :
         hand[c] = NoOp /\ hand'[c] = critical[i] =>
             \E k \in DOMAIN critical' : LET new == critical'[k] IN
                 /\ completions[new] = 1
                 /\ \/ /\ PeerOf(critical[i]) = request'[new].peer
                       /\ request[critical[i]].key = request'[new].key
                       /\ request'[new].key # NoKey
                    \/ \A j \in DOMAIN critical' :
                          CriticalityOf(critical[i]) <= request'[critical'[j]].criticality
      ]_vars

\* Operations of one peer and one priority start in the order they were queued,
\* however popFairLocked rotates over the peers.
PerPeerOrder ==
    [][\A w \in Epochs : worker[w].pc = "wait" /\ worker'[w].pc = "check" =>
         \A q \in {critical, ordinary} : \A i, j \in DOMAIN q :
             i < j /\ worker'[w].op = q[j] => PeerOf(q[i]) # PeerOf(q[j])]_vars

\* Two promises in one: each submission is answered once and operations never
\* overlap.  The abstract executor sees only what is owed and what is running.
Running == {w \in Epochs : worker[w].pc = "run"}

Serial == INSTANCE SerialExecutor WITH
    owed   <- {o \in Ops : completions[o] = 0},
    active <- IF Running = {} THEN NoOp ELSE worker[CHOOSE w \in Running : TRUE].op

ImplementsSerial == Serial!Spec

\* stop() loses no completion: every item it drops is answered.
DroppedAreCompleted ==
    \A o \in Ops : o \in ToSet(dropped) ~> completions[o] = 1

\* A burst of critical work ends: at kMaxConsecutiveCritical the worker turns to
\* ordinary work.
CriticalBurstEnds ==
    (consecutive = MaxConsecutiveCritical /\ ordinary # <<>>)
        ~> (consecutive = 0 \/ ordinary = <<>>)

\* The destructor returns, with the worker ended and joined.
DestructorReturns ==
    destroying ~>
        (call[Owner].pc = "gone" /\ handle = 0 /\ \A w \in Epochs : worker[w].pc = "off")

\* What a shutdown owes: dropped items their answer, and its caller a return.
ShutdownCompletes == DroppedAreCompleted /\ DestructorReturns

=============================================================================
