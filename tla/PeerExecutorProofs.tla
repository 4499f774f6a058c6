------------------------- MODULE PeerExecutorProofs -------------------------
(***************************************************************************)
(* The peer operation executor, proved for every number of clients, items, *)
(* peers, queue bounds and restarts: its lifecycle first (IInv), then      *)
(* where every item is (PlacedInv), from which follow the bounds of the    *)
(* queue, its order and value policies, and the serial abstraction.        *)
(***************************************************************************)
EXTENDS PeerExecutor, FiniteSetTheorems, TLAPS

Busy == InCallback \cup {"release"}

Joining(c) == call[c].pc = "join"

\* What the lifecycle flags say about the threads.
ThreadInv ==
    /\ handle \in {0, workerEpoch}
    /\ \A w \in Epochs : worker[w].pc # "off" => w = workerEpoch
    /\ workerExited => \A w \in Epochs : worker[w].pc = "off"
    /\ handle # 0 /\ ~workerExited => worker[handle].pc # "off"
    /\ inFlight = IF \E w \in Epochs : worker[w].pc \in Busy THEN 1 ELSE 0
    /\ ~running => handle = 0 /\ \A w \in Epochs : worker[w].pc = "off"
    /\ running /\ handle = 0 => \E c \in Callers : Joining(c)

\* Whoever joins owns the lifecycle lock and saw a quiescent, stopped worker.
JoinInv ==
    /\ lifecycle # Nobody => Joining(lifecycle)
    /\ \A c \in Callers : Joining(c) =>
         /\ lifecycle = c /\ handle = 0 /\ running /\ stopRequested
         /\ dropped = <<>> /\ inFlight = 0
         /\ call[c].epoch = workerEpoch /\ workerEpoch # 0

\* A finalizer still on its way can only take the worker whose stop it saw.
FinalizeInv ==
    /\ \A c \in Callers : call[c].epoch <= workerEpoch
    /\ \A c \in Callers :
         call[c].pc = "finalize" /\ call[c].epoch = workerEpoch /\ handle # 0 => stopRequested

\* Where accepted items can be.
QueueInv ==
    /\ stopRequested => running /\ critical = <<>> /\ ordinary = <<>>
    /\ ~running => critical = <<>> /\ ordinary = <<>> /\ dropped = <<>>
    /\ dropped # <<>> => stopRequested /\ ~workerExited
    /\ workerExited => stopRequested

IInv == TypeOK /\ ThreadInv /\ JoinInv /\ FinalizeInv /\ QueueInv

-----------------------------------------------------------------------------
LEMMA RemoveAtSeq ==
    ASSUME NEW S, NEW s \in Seq(S), NEW i \in 1 .. Len(s)
    PROVE  RemoveAt(s, i) \in Seq(S)
BY DEF RemoveAt

LEMMA ExceptSeq ==
    ASSUME NEW S, NEW s \in Seq(S), NEW i \in 1 .. Len(s), NEW e \in S
    PROVE  [s EXCEPT ![i] = e] \in Seq(S)
<1>1. [s EXCEPT ![i] = e] \in [1 .. Len(s) -> S]
  OBVIOUS
<1>2. QED
  BY <1>1


LEMMA BlankIsRequest == Blank \in Request
<1>1. Request # {}
  <2>1. PICK p \in Peers : TRUE
    BY ExecutorAssumption
  <2>2. [peer |-> p, key |-> NoKey, priority |-> "Ordinary", criticality |-> 0,
         generation |-> 1] \in Request
    BY ExecutorAssumption DEF Request, Priority, Criticality, Replaceable, Convergent
  <2>3. QED
    BY <2>2
<1>2. QED
  BY <1>1 DEF Blank

LEMMA InitEstablishes == Init => IInv
<1>1. Init => TypeOK
  <2> SUFFICES ASSUME Init PROVE TypeOK
    OBVIOUS
  <2>1. critical \in Seq(Ops) /\ ordinary \in Seq(Ops) /\ dropped \in Seq(Ops)
    BY DEF Init
  <2>2. /\ request \in [Ops -> Request] /\ peerCount \in [Peers -> Nat]
        /\ completions \in [Ops -> Nat] /\ generation \in [Peers -> 1 .. MaxGeneration]
        /\ hand \in [Callers -> Ops \cup {NoOp}]
    BY BlankIsRequest, ExecutorAssumption DEF Init
  <2>8. 0 \in 0 .. MaxEpoch /\ 0 \in 0 .. MaxConsecutiveCritical /\ 0 \in Nat
    BY ExecutorAssumption
  <2>3. /\ consecutive \in 0 .. MaxConsecutiveCritical /\ inFlight \in Nat
        /\ handle \in 0 .. MaxEpoch /\ workerEpoch \in 0 .. MaxEpoch
        /\ lifecycle \in Callers \cup {Nobody} /\ lastServed \in Peers \cup {NoPeer}
        /\ running \in BOOLEAN /\ stopRequested \in BOOLEAN /\ workerExited \in BOOLEAN
        /\ destroying \in BOOLEAN
    BY <2>8 DEF Init
  <2>4. /\ \A e \in Epochs : worker[e] = [pc |-> "off", op |-> NoOp, verdict |-> "Executed"]
        /\ worker = [e \in Epochs |-> worker[e]]
    BY DEF Init
  <2>5. /\ \A c \in Callers : call[c] = [pc |-> "idle", epoch |-> 0]
        /\ call = [c \in Callers |-> call[c]]
    BY DEF Init
  <2>6. worker \in [Epochs -> [pc : {"off", "wait", "release"} \cup InCallback,
                               op : Ops \cup {NoOp},
                               verdict : {"DroppedOnStop", "StaleGeneration",
                                          "OperationThrew", "Executed"}]]
    BY <2>4
  <2>7. call \in [Callers -> [pc : {"idle", "finalize", "join", "await", "gone"},
                              epoch : 0 .. MaxEpoch]]
    <3>1. \A c \in Callers : call[c] \in
             [pc : {"idle", "finalize", "join", "await", "gone"},
              epoch : 0 .. MaxEpoch]
      BY <2>5, <2>8
    <3>2. QED
      BY <3>1, <2>5
  <2>9. QED
    BY <2>1, <2>2, <2>3, <2>6, <2>7 DEF TypeOK
<1>2. Init => ThreadInv /\ JoinInv /\ FinalizeInv /\ QueueInv
  BY ExecutorAssumption
  DEF Init, ThreadInv, JoinInv, FinalizeInv, QueueInv, Joining, Busy, InCallback, Epochs
<1>3. QED
  BY <1>1, <1>2 DEF IInv

LEMMA UncountType ==
    ASSUME peerCount \in [Peers -> Nat], NEW p
    PROVE  Uncount(p) \in [Peers -> Nat]
<1>1. \A n \in Nat : (IF n > 1 THEN n - 1 ELSE 0) \in Nat
  OBVIOUS
<1>2. Uncount(p) = [q \in Peers |-> IF q = p THEN IF peerCount[q] > 1 THEN peerCount[q] - 1
                                              ELSE 0
                                    ELSE peerCount[q]]
  BY DEF Uncount
<1>3. QED
  BY <1>1, <1>2

LEMMA SubmitType ==
    ASSUME TypeOK, NEW o \in Ops, NEW r \in Requests, Submit(o, r)
    PROVE  request' \in [Ops -> Request] /\ completions' \in [Ops -> Nat]
<1>1. r \in Request
  BY ExecutorAssumption
<1>2. QED
  BY <1>1 DEF TypeOK, Submit

\* enqueue() changes the queues, the items and the caller's hand, and queues an
\* item only while the executor accepts work.
LEMMA EnqueueType ==
    ASSUME IInv, NEW c \in Callers, Enqueue(c)
    PROVE  /\ critical' \in Seq(Ops) /\ ordinary' \in Seq(Ops) /\ dropped' = dropped
           /\ request' \in [Ops -> Request] /\ completions' \in [Ops -> Nat]
           /\ peerCount' \in [Peers -> Nat] /\ hand' \in [Callers -> Ops \cup {NoOp}]
           /\ Accepting \/ UNCHANGED <<critical, ordinary>>
<1>0. /\ critical \in Seq(Ops) /\ ordinary \in Seq(Ops)
      /\ peerCount \in [Peers -> Nat] /\ hand \in [Callers -> Ops \cup {NoOp}]
      /\ TypeOK
  BY DEF IInv, TypeOK
<1>2. PICK o \in Ops, r \in Requests :
         \/ EnqueueInvalid(c, o, r)
         \/ EnqueueStopped(c, o, r)
         \/ EnqueueCoalescedCritical(c, o, r)
         \/ EnqueueCoalescedOrdinary(c, o, r)
         \/ EnqueueOrdinary(c, o, r)
         \/ EnqueueCritical(c, o, r)
         \/ EnqueueEvictingOrdinary(c, o, r)
         \/ EnqueueEvictingCritical(c, o, r)
  BY DEF Enqueue
<1>3. Submit(o, r)
  BY <1>2 DEF EnqueueInvalid, EnqueueStopped, EnqueueRefused, EnqueueCoalescedCritical,
       EnqueueCoalescedOrdinary, EnqueueOrdinary, EnqueueCritical,
       EnqueueEvictingOrdinary, EnqueueEvictingCritical
<1>4. request' \in [Ops -> Request] /\ completions' \in [Ops -> Nat]
  BY <1>0, <1>3, SubmitType
<1>5. r.peer \in Peers
  BY ExecutorAssumption DEF Request
<1>6. ASSUME EnqueueRefused(c, o, r)
      PROVE  /\ UNCHANGED <<critical, ordinary, dropped, peerCount>>
             /\ hand' \in [Callers -> Ops \cup {NoOp}]
  BY <1>0, <1>6 DEF EnqueueRefused, Owe
<1>7. CASE EnqueueInvalid(c, o, r) \/ EnqueueStopped(c, o, r)
  BY <1>0, <1>4, <1>6, <1>7 DEF EnqueueInvalid, EnqueueStopped
<1>8. CASE EnqueueCoalescedCritical(c, o, r)
  <2>1. PICK i \in DOMAIN critical : critical' = [critical EXCEPT ![i] = o] /\ Owe(c, critical[i])
    BY <1>8 DEF EnqueueCoalescedCritical
  <2>2. i \in 1 .. Len(critical) /\ critical[i] \in Ops
    BY <1>0
  <2>3. critical' \in Seq(Ops)
    BY <1>0, <2>1, <2>2, ExceptSeq
  <2>4. QED
    BY <1>0, <1>4, <1>8, <2>1, <2>2, <2>3 DEF EnqueueCoalescedCritical, Owe
<1>9. CASE EnqueueCoalescedOrdinary(c, o, r)
  <2>1. Len(ordinary) \in 1 .. Len(ordinary) /\ ordinary[Len(ordinary)] \in Ops
    BY <1>0, <1>9 DEF EnqueueCoalescedOrdinary, CoalescesOrdinary
  <2>2. ordinary' \in Seq(Ops)
    BY <1>0, <1>9, <2>1, ExceptSeq DEF EnqueueCoalescedOrdinary
  <2>3. hand' \in [Callers -> Ops \cup {NoOp}]
    BY <1>0, <1>9, <2>1 DEF EnqueueCoalescedOrdinary, Owe, Last
  <2>4. UNCHANGED <<critical, dropped, peerCount>> /\ Accepting
    BY <1>9 DEF EnqueueCoalescedOrdinary
  <2>5. QED
    BY <1>0, <1>4, <2>2, <2>3, <2>4
<1>10. CASE EnqueueOrdinary(c, o, r)
  <2>1. CASE OrdinaryFull(r.peer)
    BY <1>0, <1>4, <1>6, <1>10, <2>1 DEF EnqueueOrdinary
  <2>2. CASE ~OrdinaryFull(r.peer)
    <3>1. [peerCount EXCEPT ![r.peer] = @ + 1] \in [Peers -> Nat]
      BY <1>0, <1>5
    <3>2. Append(ordinary, o) \in Seq(Ops)
      BY <1>0
    <3>3. /\ ordinary' = Append(ordinary, o) /\ Accepting
          /\ peerCount' = [peerCount EXCEPT ![r.peer] = @ + 1]
          /\ UNCHANGED <<critical, dropped, hand>>
      BY <1>10, <2>2 DEF EnqueueOrdinary
    <3>4. QED
      BY <1>0, <1>4, <3>1, <3>2, <3>3
  <2>3. QED
    BY <2>1, <2>2
<1>11. CASE EnqueueCritical(c, o, r)
  <2>1. Append(critical, o) \in Seq(Ops)
    BY <1>0
  <2>2. QED
    BY <1>0, <1>4, <1>11, <2>1 DEF EnqueueCritical
<1>12. CASE EnqueueEvictingOrdinary(c, o, r)
  <2>1. Head(ordinary) \in Ops /\ Tail(ordinary) \in Seq(Ops)
    BY <1>0, <1>12 DEF EnqueueEvictingOrdinary
  <2>2. Uncount(PeerOf(Head(ordinary))) \in [Peers -> Nat]
    BY <1>0, UncountType
  <2>3. Append(critical, o) \in Seq(Ops)
    BY <1>0
  <2>4. /\ ordinary' = Tail(ordinary) /\ critical' = Append(critical, o)
        /\ peerCount' = Uncount(PeerOf(Head(ordinary)))
        /\ UNCHANGED dropped /\ Accepting
    BY <1>12 DEF EnqueueEvictingOrdinary
  <2>5. hand' \in [Callers -> Ops \cup {NoOp}]
    BY <1>0, <1>12, <2>1 DEF EnqueueEvictingOrdinary, Owe
  <2>6. QED
    BY <1>0, <1>4, <2>1, <2>2, <2>3, <2>4, <2>5
<1>13. CASE EnqueueEvictingCritical(c, o, r)
  <2>1. CASE \E i \in DOMAIN critical : IsVictim(i, r)
    <3>1. PICK i \in DOMAIN critical :
              /\ Owe(c, critical[i])
              /\ critical' = Append(RemoveAt(critical, i), o)
              /\ UNCHANGED <<ordinary, dropped, peerCount>>
      BY <1>13, <2>1 DEF EnqueueEvictingCritical
    <3>2. i \in 1 .. Len(critical) /\ critical[i] \in Ops
      BY <1>0
    <3>3. RemoveAt(critical, i) \in Seq(Ops)
      BY <1>0, <3>2, RemoveAtSeq
    <3>4. Append(RemoveAt(critical, i), o) \in Seq(Ops)
      BY <3>3
    <3>5. QED
      BY <1>0, <1>4, <1>13, <3>1, <3>2, <3>4 DEF EnqueueEvictingCritical, Owe
  <2>2. CASE ~\E i \in DOMAIN critical : IsVictim(i, r)
    BY <1>0, <1>4, <1>6, <1>13, <2>2 DEF EnqueueEvictingCritical
  <2>3. QED
    BY <2>1, <2>2
<1>14. QED
  BY <1>2, <1>7, <1>8, <1>9, <1>10, <1>11, <1>12, <1>13


-----------------------------------------------------------------------------
LEMMA EnqueuePreserves == ASSUME IInv, NEW c \in Callers, Enqueue(c) PROVE IInv'
<1>1. UNCHANGED <<serveVars, lifeVars, workerVars, call, destroying, generation>>
  BY DEF Enqueue
<1>2. TypeOK'
  BY <1>1, EnqueueType
  DEF IInv, TypeOK, serveVars, lifeVars, workerVars
<1>3. ThreadInv' /\ JoinInv' /\ FinalizeInv' /\ QueueInv'
  BY <1>1, EnqueueType
  DEF IInv, ThreadInv, JoinInv, FinalizeInv, QueueInv, Joining, Accepting, serveVars, lifeVars, workerVars
<1>4. QED
  BY <1>2, <1>3 DEF IInv

LEMMA CompleteDisplacedPreserves ==
    ASSUME IInv, NEW c \in Callers, CompleteDisplaced(c) PROVE IInv'
<1>1. UNCHANGED <<critical, ordinary, dropped, peerCount, serveVars, lifeVars, workerVars,
                  call, destroying, generation>>
  BY DEF CompleteDisplaced
<1>2. /\ completions' \in [Ops -> Nat] /\ request' \in [Ops -> Request]
      /\ hand' \in [Callers -> Ops \cup {NoOp}]
  BY BlankIsRequest DEF IInv, TypeOK, CompleteDisplaced, Settle
<1>3. TypeOK'
  BY <1>1, <1>2 DEF IInv, TypeOK, serveVars, lifeVars, workerVars
<1>4. ThreadInv' /\ JoinInv' /\ FinalizeInv' /\ QueueInv'
  BY <1>1 DEF IInv, ThreadInv, JoinInv, FinalizeInv, QueueInv, Joining, serveVars, lifeVars, workerVars
<1>5. QED
  BY <1>3, <1>4 DEF IInv

LEMMA StopSectionPreserves ==
    ASSUME IInv, NEW c \in Callers, CanCall(c), NEW next \in {"idle", "await"},
           StopSection(c, next), destroying' \in BOOLEAN
    PROVE  IInv'
<1>1. UNCHANGED <<request, serveVars, running, workerExited, handle, workerEpoch, lifecycle,
                  workerVars, hand, envVars>>
  BY DEF StopSection
<1>2. /\ dropped' \in Seq(Ops) /\ critical' = <<>> /\ ordinary' = <<>>
      /\ peerCount' \in [Peers -> Nat]
      /\ stopRequested' \in BOOLEAN
  BY DEF StopSection, IInv, TypeOK
<1>3. StoppableEpoch \in 0 .. MaxEpoch
  BY ExecutorAssumption DEF StoppableEpoch, IInv, TypeOK
<1>4. /\ call' \in [Callers -> [pc : {"idle", "finalize", "join", "await", "gone"},
                               epoch : 0 .. MaxEpoch]]
      /\ \A d \in Callers : Joining(d)' <=> Joining(d)
      /\ \A d \in Callers : Joining(d) => call'[d] = call[d]
  BY <1>3 DEF StopSection, IInv, TypeOK, CanCall, Joining
<1>5. TypeOK'
  <2>1. TypeOK
    BY DEF IInv
  <2>2. critical' \in Seq(Ops) /\ ordinary' \in Seq(Ops)
    BY <1>2
  <2>3. QED
    BY <1>1, <1>2, <1>4, <2>1, <2>2 DEF TypeOK, serveVars, workerVars, envVars
<1>6. ThreadInv'
  BY <1>1, <1>4 DEF IInv, ThreadInv, workerVars
<1>7. /\ running => handle # 0 \/ \E d \in Callers : Joining(d)
      /\ stopRequested' <=> running
  BY DEF StopSection, StoppableEpoch, IInv, ThreadInv, JoinInv, QueueInv
<1>11. ASSUME critical = <<>>, ordinary = <<>> PROVE dropped' = dropped
  <2>1. dropped' = dropped \o <<>> \o <<>>
    BY <1>11 DEF StopSection
  <2>2. \A s \in Seq(Ops) : s \o <<>> = s
    OBVIOUS
  <2>3. QED
    BY <2>1, <2>2 DEF IInv, TypeOK
<1>8. JoinInv'
  <2>1. \A d \in Callers : Joining(d) => dropped' = dropped /\ stopRequested'
    BY <1>7, <1>11 DEF IInv, JoinInv, QueueInv
  <2>2. \A d \in Callers : Joining(d)' =>
            /\ lifecycle' = d /\ handle' = 0 /\ running' /\ stopRequested' /\ dropped' = <<>>
            /\ inFlight' = 0 /\ call'[d].epoch = workerEpoch' /\ workerEpoch' # 0
    BY <1>1, <1>4, <2>1 DEF IInv, JoinInv, workerVars
  <2>3. lifecycle' # Nobody => Joining(lifecycle)'
    BY <1>1, <1>4 DEF IInv, JoinInv, TypeOK, Joining
  <2>4. QED
    BY <2>2, <2>3 DEF JoinInv
<1>12. FinalizeInv'
  <2>1. \A d \in Callers : d # c => call'[d] = call[d]
    BY DEF StopSection, IInv, TypeOK
  <2>2. call'[c].epoch = StoppableEpoch /\ StoppableEpoch <= workerEpoch
    BY DEF StopSection, IInv, TypeOK, StoppableEpoch
  <2>3. handle # 0 => running
    BY DEF IInv, ThreadInv
  <2>4. QED
    BY <1>1, <1>7, <2>1, <2>2, <2>3 DEF IInv, FinalizeInv
<1>9. QueueInv'
  <2>1. CASE critical = <<>> /\ ordinary = <<>>
    BY <1>1, <1>2, <1>7, <1>11, <2>1 DEF IInv, QueueInv
  <2>2. CASE ~(critical = <<>> /\ ordinary = <<>>)
    BY <1>1, <1>2, <1>7, <2>2 DEF IInv, QueueInv
  <2>3. QED
    BY <2>1, <2>2
<1>10. QED
  BY <1>5, <1>6, <1>8, <1>9, <1>12 DEF IInv


\* A finalizer that takes the thread handle finds a stopped, quiescent worker,
\* provided the epoch it holds is one whose stop is still pending.
LEMMA BeginJoinPreserves ==
    ASSUME IInv, NEW c \in Callers, NEW e, lifecycle = Nobody, stopRequested,
           call[c].pc \in {"finalize", "await"}, TakesThread(c, e), BeginJoin(c, e),
           UNCHANGED <<queueVars, serveVars, running, stopRequested, workerExited,
                       workerEpoch, workerVars, destroying, hand, envVars>>
    PROVE  IInv'
<1>1. e = workerEpoch /\ workerEpoch # 0 /\ workerEpoch \in 0 .. MaxEpoch
  BY DEF TakesThread, IInv, TypeOK, ThreadInv
<1>2. \A d \in Callers : ~Joining(d)
  BY ExecutorAssumption DEF IInv, JoinInv
<1>3. /\ call' \in [Callers -> [pc : {"idle", "finalize", "join", "await", "gone"},
                               epoch : 0 .. MaxEpoch]]
      /\ \A d \in Callers : Joining(d)' <=> d = c
      /\ call'[c].epoch = workerEpoch
      /\ \A d \in Callers : d # c => call'[d] = call[d]
  BY <1>1, <1>2 DEF BeginJoin, IInv, TypeOK, Joining
<1>4. inFlight = 0
  BY DEF TakesThread, IInv, ThreadInv, Busy, InCallback
<1>11. 0 \in 0 .. MaxEpoch
  BY ExecutorAssumption
<1>5. TypeOK'
  BY <1>3, <1>11
  DEF BeginJoin, IInv, TypeOK, queueVars, serveVars, workerVars, envVars
<1>6. running
  BY DEF IInv, QueueInv
<1>7. ThreadInv'
  BY <1>3, <1>6 DEF BeginJoin, IInv, ThreadInv, workerVars
<1>8. JoinInv'
  BY <1>1, <1>3, <1>4, <1>6 DEF BeginJoin, TakesThread, JoinInv, queueVars, workerVars
<1>9. QueueInv'
  BY DEF IInv, QueueInv, queueVars
<1>12. FinalizeInv'
  BY <1>3, <1>1 DEF IInv, FinalizeInv, BeginJoin, TypeOK
<1>10. QED
  BY <1>5, <1>7, <1>8, <1>9, <1>12 DEF IInv

\* A caller that moves between idle, await and gone disturbs nothing.
LEMMA CallMovePreserves ==
    ASSUME IInv, NEW c \in Callers, NEW pc \in {"idle", "await", "gone"},
           ~Joining(c), call' = [call EXCEPT ![c].pc = pc],
           UNCHANGED <<queueVars, serveVars, lifeVars, workerVars, destroying, hand, envVars>>
    PROVE  IInv'
<1>1. /\ call' \in [Callers -> [pc : {"idle", "finalize", "join", "await", "gone"},
                               epoch : 0 .. MaxEpoch]]
      /\ \A d \in Callers : Joining(d)' <=> Joining(d)
      /\ \A d \in Callers : Joining(d) => call'[d] = call[d]
      /\ \A d \in Callers : call'[d].epoch = call[d].epoch
      /\ \A d \in Callers : call'[d].pc = "finalize" => call[d].pc = "finalize"
  BY DEF IInv, TypeOK, Joining
<1>2. TypeOK'
  BY <1>1 DEF IInv, TypeOK, queueVars, serveVars, lifeVars, workerVars, envVars
<1>3. ThreadInv' /\ QueueInv'
  BY <1>1 DEF IInv, ThreadInv, QueueInv, queueVars, lifeVars, workerVars
<1>4. JoinInv'
  BY <1>1 DEF IInv, JoinInv, TypeOK, queueVars, lifeVars, workerVars
<1>6. FinalizeInv'
  BY <1>1 DEF IInv, FinalizeInv, lifeVars
<1>5. QED
  BY <1>2, <1>3, <1>4, <1>6 DEF IInv

LEMMA FinalizePreserves == ASSUME IInv, NEW c \in Callers, Finalize(c) PROVE IInv'
<1>1. /\ call[c].pc = "finalize"
      /\ UNCHANGED <<queueVars, serveVars, running, stopRequested, workerExited,
                     workerEpoch, workerVars, destroying, hand, envVars>>
  BY DEF Finalize
<1>2. CASE lifecycle = Nobody /\ TakesThread(c, call[c].epoch)
  <2>1. BeginJoin(c, call[c].epoch)
    BY <1>2 DEF Finalize
  <2>2. stopRequested
    BY <1>1, <1>2 DEF IInv, FinalizeInv, TakesThread
  <2>3. QED
    BY <1>1, <1>2, <2>1, <2>2, BeginJoinPreserves
<1>3. CASE ~(lifecycle = Nobody /\ TakesThread(c, call[c].epoch))
  <2>1. Return(c) /\ UNCHANGED <<handle, lifecycle>>
    BY <1>3 DEF Finalize
  <2>2. PICK pc \in {"idle", "await"} : call' = [call EXCEPT ![c].pc = pc]
    BY <2>1 DEF Return
  <2>3. ~Joining(c)
    BY <1>1 DEF Joining
  <2>4. UNCHANGED <<queueVars, serveVars, lifeVars, workerVars, destroying, hand, envVars>>
    BY <1>1, <2>1 DEF lifeVars
  <2>5. QED
    BY <2>2, <2>3, <2>4, CallMovePreserves
<1>4. QED
  BY <1>2, <1>3

LEMMA AwaitPreserves == ASSUME IInv, Await PROVE IInv'
<1>1. /\ call[Owner].pc = "await" /\ Owner \in Callers
      /\ UNCHANGED <<queueVars, serveVars, running, stopRequested, workerExited,
                     workerEpoch, workerVars, destroying, hand, envVars>>
  BY ExecutorAssumption DEF Await, Callers
<1>2. CASE stopRequested /\ lifecycle = Nobody /\ TakesThread(Owner, workerEpoch)
           /\ BeginJoin(Owner, workerEpoch)
  BY <1>1, <1>2, BeginJoinPreserves
<1>3. CASE /\ call' = [call EXCEPT ![Owner].pc = "gone"]
           /\ UNCHANGED <<handle, lifecycle>>
  <2>1. ~Joining(Owner)
    BY <1>1 DEF Joining
  <2>2. UNCHANGED <<queueVars, serveVars, lifeVars, workerVars, destroying, hand, envVars>>
    BY <1>1, <1>3 DEF lifeVars
  <2>3. QED
    BY <1>1, <1>3, <2>1, <2>2, CallMovePreserves
<1>4. QED
  BY <1>2, <1>3 DEF Await

LEMMA JoinPreserves == ASSUME IInv, NEW c \in Callers, Join(c) PROVE IInv'
<1>1. Joining(c) /\ lifecycle = c /\ handle = 0 /\ dropped = <<>> /\ stopRequested
  BY DEF Join, Joining, IInv, JoinInv
<1>2. call[c].epoch = workerEpoch /\ worker[workerEpoch].pc = "off"
  BY <1>1 DEF Join, IInv, JoinInv
<1>3. \A w \in Epochs : worker[w].pc = "off"
  BY <1>2 DEF IInv, ThreadInv
<1>4. /\ running' = FALSE /\ stopRequested' = FALSE /\ workerExited' = FALSE
      /\ inFlight' = 0 /\ consecutive' = 0 /\ lastServed' = NoPeer /\ lifecycle' = Nobody
      /\ UNCHANGED <<queueVars, handle, workerEpoch, worker, destroying, hand, envVars>>
  BY DEF Join
<1>5. PICK pc \in {"idle", "await"} : call' = [call EXCEPT ![c].pc = pc]
  BY DEF Join, Return
<1>6. /\ call' \in [Callers -> [pc : {"idle", "finalize", "join", "await", "gone"},
                               epoch : 0 .. MaxEpoch]]
      /\ \A d \in Callers : ~Joining(d)'
      /\ \A d \in Callers : call'[d].epoch = call[d].epoch
  BY SMTT(20), <1>1, <1>5 DEF IInv, TypeOK, JoinInv, Joining
<1>7. 0 \in 0 .. MaxConsecutiveCritical /\ 0 \in Nat
  BY ExecutorAssumption
<1>8. TypeOK'
  BY <1>4, <1>6, <1>7 DEF IInv, TypeOK, queueVars, envVars
<1>9. ThreadInv'
  BY <1>1, <1>3, <1>4 DEF IInv, ThreadInv, Busy, InCallback
<1>10. JoinInv' /\ FinalizeInv'
  BY <1>1, <1>4, <1>6 DEF IInv, JoinInv, FinalizeInv
<1>11. QueueInv'
  BY <1>1, <1>4 DEF IInv, QueueInv, queueVars
<1>12. QED
  BY <1>8, <1>9, <1>10, <1>11 DEF IInv

\* start() may launch only when nothing of the previous lifecycle is left.
LEMMA LaunchIsClean ==
    ASSUME IInv, lifecycle = Nobody, MayLaunch, ResetForStart
    PROVE  /\ \A w \in Epochs : worker[w].pc = "off"
           /\ critical = <<>> /\ ordinary = <<>> /\ dropped = <<>>
           /\ \A c \in Callers : ~Joining(c)
           /\ inFlight' = 0 /\ stopRequested' = FALSE /\ workerExited' = FALSE
           /\ consecutive' \in 0 .. MaxConsecutiveCritical
           /\ lastServed' \in Peers \cup {NoPeer}
<1>1. \A c \in Callers : ~Joining(c)
  BY ExecutorAssumption DEF IInv, JoinInv
<1>2. \A w \in Epochs : worker[w].pc = "off"
  BY DEF IInv, ThreadInv, MayLaunch
<1>3. critical = <<>> /\ ordinary = <<>> /\ dropped = <<>>
  BY DEF IInv, QueueInv, MayLaunch
<1>4. inFlight' = 0
  BY <1>2 DEF ResetForStart, IInv, ThreadInv, Busy, InCallback
<1>5. 0 \in 0 .. MaxConsecutiveCritical
  BY ExecutorAssumption
<1>6. QED
  BY <1>1, <1>2, <1>3, <1>4, <1>5 DEF ResetForStart, IInv, TypeOK

LEMMA StartPreserves == ASSUME IInv, NEW c \in Callers, Start(c) PROVE IInv'
<1>1. /\ lifecycle = Nobody /\ MayLaunch /\ ResetForStart /\ workerEpoch < MaxEpoch
      /\ workerEpoch' = workerEpoch + 1 /\ handle' = workerEpoch + 1 /\ running' = TRUE
      /\ worker' = [worker EXCEPT ![workerEpoch + 1].pc = "wait"]
      /\ UNCHANGED <<queueVars, lifecycle, callVars, envVars>>
  BY DEF Start
<1>2. /\ workerEpoch \in 0 .. MaxEpoch /\ MaxEpoch \in Nat
      /\ workerEpoch + 1 \in Epochs /\ workerEpoch + 1 \in 0 .. MaxEpoch
      /\ workerEpoch + 1 # 0
  <2>1. workerEpoch \in 0 .. MaxEpoch
    BY DEF IInv, TypeOK
  <2>2. MaxEpoch \in Nat
    BY ExecutorAssumption
  <2>3. QED
    BY <1>1, <2>1, <2>2 DEF Epochs
<1>3. /\ worker' \in [Epochs -> [pc : {"off", "wait", "release"} \cup InCallback,
                                op : Ops \cup {NoOp},
                                verdict : {"DroppedOnStop", "StaleGeneration",
                                           "OperationThrew", "Executed"}]]
      /\ worker'[workerEpoch + 1].pc = "wait"
      /\ \A w \in Epochs : w # workerEpoch + 1 => worker'[w] = worker[w]
  BY ZenonT(40), <1>1, <1>2 DEF IInv, TypeOK
<1>9. /\ \A w \in Epochs : worker[w].pc = "off"
      /\ inFlight' = 0 /\ stopRequested' = FALSE /\ workerExited' = FALSE
      /\ consecutive' \in 0 .. MaxConsecutiveCritical /\ lastServed' \in Peers \cup {NoPeer}
  BY <1>1, LaunchIsClean
<1>4. TypeOK'
  BY <1>1, <1>2, <1>3, <1>9 DEF IInv, TypeOK, queueVars, callVars, envVars
<1>5. ThreadInv'
  <2>1. \A w \in Epochs : worker'[w].pc = IF w = workerEpoch + 1 THEN "wait" ELSE "off"
    BY <1>3, <1>9
  <2>2. inFlight' = IF \E w \in Epochs : worker'[w].pc \in Busy THEN 1 ELSE 0
    BY <1>9, <2>1 DEF Busy, InCallback
  <2>3. QED
    BY <1>1, <1>2, <1>9, <2>1, <2>2 DEF ThreadInv
<1>6. JoinInv' /\ QueueInv'
  BY <1>1, LaunchIsClean DEF IInv, JoinInv, QueueInv, Joining, queueVars, callVars
<1>7. FinalizeInv'
  BY <1>1, <1>2 DEF IInv, FinalizeInv, TypeOK, callVars
<1>8. QED
  BY <1>4, <1>5, <1>6, <1>7 DEF IInv

LEMMA StartFailsPreserves == ASSUME IInv, NEW c \in Callers, StartFails(c) PROVE IInv'
<1>1. /\ lifecycle = Nobody /\ MayLaunch /\ ResetForStart
      /\ running' = FALSE /\ handle' = 0
      /\ UNCHANGED <<queueVars, workerEpoch, lifecycle, worker, callVars, envVars>>
  BY DEF StartFails
<1>2. 0 \in 0 .. MaxEpoch /\ 0 \in Nat
  BY ExecutorAssumption
<1>3. TypeOK'
  BY <1>1, <1>2, LaunchIsClean DEF IInv, TypeOK, queueVars, callVars, envVars
<1>4. ThreadInv'
  BY <1>1, LaunchIsClean DEF IInv, ThreadInv, Busy, InCallback
<1>5. JoinInv' /\ QueueInv' /\ FinalizeInv'
  BY <1>1, LaunchIsClean DEF IInv, JoinInv, QueueInv, FinalizeInv, Joining, queueVars, callVars
<1>6. QED
  BY <1>3, <1>4, <1>5 DEF IInv

-----------------------------------------------------------------------------
\* A live worker that moves while nobody joins it: it counts itself in inFlight
\* exactly while it has an item, and adds nothing to the queues.
LEMMA WorkerMovePreserves ==
    ASSUME IInv, NEW w \in Epochs, worker[w].pc # "off", \A c \in Callers : ~Joining(c),
           NEW pc \in {"wait"} \cup Busy, NEW o \in Ops \cup {NoOp},
           NEW v \in {"DroppedOnStop", "StaleGeneration", "OperationThrew", "Executed"},
           worker' = [worker EXCEPT ![w] = [pc |-> pc, op |-> o, verdict |-> v]],
           inFlight' = IF pc = "wait" THEN 0 ELSE 1,
           critical' \in Seq(Ops), ordinary' \in Seq(Ops), dropped' \in Seq(Ops),
           critical = <<>> => critical' = <<>>, ordinary = <<>> => ordinary' = <<>>,
           dropped = <<>> => dropped' = <<>>,
           request' \in [Ops -> Request], completions' \in [Ops -> Nat],
           peerCount' \in [Peers -> Nat], lastServed' \in Peers \cup {NoPeer},
           consecutive' \in 0 .. MaxConsecutiveCritical,
           UNCHANGED <<lifeVars, callVars, generation>>
    PROVE  IInv'
<1>1. /\ worker' \in [Epochs -> [pc : {"off", "wait", "release"} \cup InCallback,
                                op : Ops \cup {NoOp},
                                verdict : {"DroppedOnStop", "StaleGeneration",
                                           "OperationThrew", "Executed"}]]
      /\ worker'[w].pc = pc
      /\ \A e \in Epochs : e # w => worker'[e] = worker[e]
  BY DEF IInv, TypeOK, Busy
<1>2. 0 \in Nat /\ 1 \in Nat
  OBVIOUS
<1>3. TypeOK'
  BY <1>1, <1>2 DEF IInv, TypeOK, lifeVars, callVars
<1>4. \A e \in Epochs : e # w => worker[e].pc = "off"
  BY DEF IInv, ThreadInv
<1>5. ~workerExited
  BY DEF IInv, ThreadInv
<1>6. pc # "off" /\ "off" \notin Busy /\ "wait" \notin Busy
  BY DEF Busy, InCallback
<1>7. ThreadInv'
  BY <1>1, <1>4, <1>5, <1>6 DEF IInv, ThreadInv, Joining, lifeVars, callVars
<1>8. JoinInv' /\ FinalizeInv'
  BY DEF IInv, JoinInv, FinalizeInv, Joining, lifeVars, callVars
<1>9. QueueInv'
  BY <1>5 DEF IInv, QueueInv, lifeVars
<1>10. QED
  BY <1>3, <1>7, <1>8, <1>9 DEF IInv

\* Nobody joins a worker that has an item, or that still has one to take.
LEMMA NobodyJoins ==
    ASSUME IInv, \/ \E w \in Epochs : worker[w].pc \in Busy
                 \/ ~stopRequested
                 \/ dropped # <<>>
    PROVE  \A c \in Callers : ~Joining(c)
BY DEF IInv, JoinInv, ThreadInv

\* Before it takes an item no worker has one.
LEMMA WaitingIsIdle ==
    ASSUME IInv, NEW w \in Epochs, worker[w].pc = "wait"
    PROVE  inFlight = 0
BY DEF IInv, ThreadInv, Busy, InCallback

LEMMA TakeCriticalPreserves == ASSUME IInv, NEW w \in Epochs, TakeCritical(w) PROVE IInv'
<1>1. PICK i \in DOMAIN critical :
         Serve(w, critical[i]) /\ critical' = RemoveAt(critical, i)
  BY DEF TakeCritical
<1>2. critical \in Seq(Ops) /\ i \in 1 .. Len(critical) /\ critical[i] \in Ops
  BY DEF IInv, TypeOK
<1>3. critical' \in Seq(Ops)
  BY <1>1, <1>2, RemoveAtSeq
<1>4. PeerOf(critical[i]) \in Peers
  BY <1>2 DEF IInv, TypeOK, PeerOf, Request
<1>5. consecutive' \in 0 .. MaxConsecutiveCritical
  <2>1. MaxConsecutiveCritical \in Nat
    BY ExecutorAssumption
  <2>2. QED
    BY <2>1 DEF TakeCritical, Least, IInv, TypeOK
<1>6. worker[w].pc = "wait" /\ ~stopRequested
      /\ UNCHANGED <<ordinary, dropped, request, peerCount, lifeVars, callVars, envVars>>
  BY DEF TakeCritical
<1>7. inFlight = 0 /\ \A c \in Callers : ~Joining(c)
  BY <1>6, WaitingIsIdle, NobodyJoins
<1>8. /\ worker' = [worker EXCEPT ![w] =
                   [pc |-> "check", op |-> critical[i], verdict |-> "Executed"]]
      /\ inFlight' = 1 /\ lastServed' \in Peers \cup {NoPeer}
  BY <1>1, <1>4, <1>7 DEF Serve, Hold
<1>9. /\ ordinary' \in Seq(Ops) /\ critical' \in Seq(Ops) /\ dropped' \in Seq(Ops)
      /\ request' \in [Ops -> Request] /\ completions' \in [Ops -> Nat]
      /\ peerCount' \in [Peers -> Nat]
  BY <1>3, <1>4, <1>6 DEF IInv, TypeOK, envVars
<1>10. critical # <<>>
  BY <1>2
<1>11. UNCHANGED <<lifeVars, callVars, generation>>
  BY <1>6 DEF envVars
<1>12. /\ "check" \in {"wait"} \cup Busy /\ "check" # "wait" /\ worker[w].pc # "off"
       /\ "Executed" \in {"DroppedOnStop", "StaleGeneration", "OperationThrew", "Executed"}
  BY <1>6 DEF Busy, InCallback
<1>13. /\ critical = <<>> => critical' = <<>>
       /\ ordinary = <<>> => ordinary' = <<>>
       /\ dropped = <<>> => dropped' = <<>>
  BY <1>6, <1>10
<1>14. PICK o \in Ops \cup {NoOp} : o = critical[i]
  BY <1>2
<1>15. QED
  BY <1>5, <1>7, <1>8, <1>9, <1>11, <1>12, <1>13, <1>14, WorkerMovePreserves

LEMMA TakeOrdinaryPreserves == ASSUME IInv, NEW w \in Epochs, TakeOrdinary(w) PROVE IInv'
<1>1. PICK i \in DOMAIN ordinary :
         /\ Serve(w, ordinary[i]) /\ ordinary' = RemoveAt(ordinary, i)
         /\ peerCount' = Uncount(PeerOf(ordinary[i]))
  BY DEF TakeOrdinary
<1>2. ordinary \in Seq(Ops) /\ i \in 1 .. Len(ordinary) /\ ordinary[i] \in Ops
  BY DEF IInv, TypeOK
<1>3. ordinary' \in Seq(Ops)
  BY <1>1, <1>2, RemoveAtSeq
<1>4. PeerOf(ordinary[i]) \in Peers /\ peerCount' \in [Peers -> Nat]
  BY <1>1, <1>2, UncountType DEF IInv, TypeOK, PeerOf, Request
<1>5. consecutive' \in 0 .. MaxConsecutiveCritical
  BY ExecutorAssumption DEF TakeOrdinary
<1>6. worker[w].pc = "wait" /\ ~stopRequested
      /\ UNCHANGED <<critical, dropped, request, lifeVars, callVars, envVars>>
  BY DEF TakeOrdinary
<1>7. inFlight = 0 /\ \A c \in Callers : ~Joining(c)
  BY <1>6, WaitingIsIdle, NobodyJoins
<1>8. /\ worker' = [worker EXCEPT ![w] =
                   [pc |-> "check", op |-> ordinary[i], verdict |-> "Executed"]]
      /\ inFlight' = 1 /\ lastServed' \in Peers \cup {NoPeer}
  BY <1>1, <1>4, <1>7 DEF Serve, Hold
<1>9. /\ ordinary' \in Seq(Ops) /\ critical' \in Seq(Ops) /\ dropped' \in Seq(Ops)
      /\ request' \in [Ops -> Request] /\ completions' \in [Ops -> Nat]
      /\ peerCount' \in [Peers -> Nat]
  BY <1>3, <1>4, <1>6 DEF IInv, TypeOK, envVars
<1>10. ordinary # <<>>
  BY <1>2
<1>11. UNCHANGED <<lifeVars, callVars, generation>>
  BY <1>6 DEF envVars
<1>12. /\ "check" \in {"wait"} \cup Busy /\ "check" # "wait" /\ worker[w].pc # "off"
       /\ "Executed" \in {"DroppedOnStop", "StaleGeneration", "OperationThrew", "Executed"}
  BY <1>6 DEF Busy, InCallback
<1>13. /\ critical = <<>> => critical' = <<>>
       /\ ordinary = <<>> => ordinary' = <<>>
       /\ dropped = <<>> => dropped' = <<>>
  BY <1>6, <1>10
<1>14. PICK o \in Ops \cup {NoOp} : o = ordinary[i]
  BY <1>2
<1>15. QED
  BY <1>5, <1>7, <1>8, <1>9, <1>11, <1>12, <1>13, <1>14, WorkerMovePreserves

LEMMA TakeDroppedPreserves == ASSUME IInv, NEW w \in Epochs, TakeDropped(w) PROVE IInv'
<1>1. /\ worker[w].pc = "wait" /\ dropped # <<>> /\ dropped' = Tail(dropped)
      /\ UNCHANGED <<critical, ordinary, request, peerCount, serveVars, lifeVars,
                     callVars, envVars>>
  BY DEF TakeDropped
<1>2. Head(dropped) \in Ops /\ dropped' \in Seq(Ops)
  BY <1>1 DEF IInv, TypeOK
<1>3. inFlight' = 1 /\ \A c \in Callers : ~Joining(c)
  BY <1>1, WaitingIsIdle, NobodyJoins DEF TakeDropped
<1>4. worker' = [worker EXCEPT ![w] =
                   [pc |-> "complete", op |-> Head(dropped), verdict |-> "DroppedOnStop"]]
  BY DEF TakeDropped, Hold
<1>5. QED
  BY <1>1, <1>2, <1>3, <1>4, WorkerMovePreserves
  DEF Busy, InCallback, IInv, TypeOK, serveVars, envVars

\* The steps of a busy worker that only move its item along.
LEMMA HoldPreserves ==
    ASSUME IInv, NEW w \in Epochs, worker[w].pc \in Busy,
           NEW pc \in Busy, NEW o \in Ops \cup {NoOp},
           NEW v \in {"DroppedOnStop", "StaleGeneration", "OperationThrew", "Executed"},
           Hold(w, o, pc, v),
           request' \in [Ops -> Request], completions' \in [Ops -> Nat],
           UNCHANGED <<critical, ordinary, dropped, peerCount, serveVars, lifeVars,
                       inFlight, callVars, generation>>
    PROVE  IInv'
<1>1. inFlight = 1 /\ \A c \in Callers : ~Joining(c)
  BY NobodyJoins DEF IInv, ThreadInv
<1>2. worker[w].pc # "off" /\ pc # "wait"
  BY DEF Busy, InCallback
<1>3. worker' = [worker EXCEPT ![w] = [pc |-> pc, op |-> o, verdict |-> v]]
  BY DEF Hold
<1>4. QED
  BY <1>1, <1>2, <1>3, WorkerMovePreserves DEF IInv, TypeOK, serveVars

LEMMA CallbackPreserves == ASSUME IInv, NEW w \in Epochs, CallbackReturns(w) PROVE IInv'
<1>1. worker[w].pc \in Busy /\ worker[w].op \in Ops \cup {NoOp}
  BY DEF CallbackReturns, CheckGeneration, RunOperation, Complete, Busy, InCallback, IInv, TypeOK
<1>2. CASE CheckGeneration(w) \/ RunOperation(w)
  <2>1. UNCHANGED <<queueVars, serveVars, lifeVars, inFlight, callVars, envVars>>
    BY <1>2 DEF CheckGeneration, RunOperation
  <2>2. PICK pc \in {"run", "complete"},
             v \in {"DroppedOnStop", "StaleGeneration", "OperationThrew", "Executed"} :
           Hold(w, worker[w].op, pc, v)
    BY <1>2 DEF CheckGeneration, RunOperation
  <2>3. request' \in [Ops -> Request] /\ completions' \in [Ops -> Nat]
    BY <2>1 DEF IInv, TypeOK, queueVars, envVars
  <2>4. UNCHANGED <<critical, ordinary, dropped, peerCount, serveVars, lifeVars,
                    inFlight, callVars, generation>>
    BY <2>1 DEF queueVars, envVars
  <2>5. pc \in Busy
    BY DEF Busy, InCallback
  <2>6. QED
    BY <1>1, <2>2, <2>3, <2>4, <2>5, HoldPreserves
<1>3. CASE Complete(w)
  <2>1. /\ Hold(w, NoOp, "release", "Executed") /\ Settle(worker[w].op)
        /\ UNCHANGED <<critical, ordinary, dropped, peerCount, serveVars, lifeVars,
                       inFlight, callVars, generation>>
    BY <1>3 DEF Complete
  <2>2. request' \in [Ops -> Request] /\ completions' \in [Ops -> Nat]
    <3>1. \A o \in Ops : completions[o] \in Nat /\ completions[o] + 1 \in Nat
      BY DEF IInv, TypeOK
    <3>2. completions' = [o \in Ops |-> IF o = worker[w].op THEN completions[o] + 1
                                                          ELSE completions[o]]
      BY <2>1 DEF Settle, IInv, TypeOK
    <3>3. request' \in [Ops -> Request]
      BY <2>1, BlankIsRequest DEF Settle, IInv, TypeOK
    <3>4. QED
      BY <3>1, <3>2, <3>3
  <2>3. QED
    BY <1>1, <2>1, <2>2, HoldPreserves DEF Busy
<1>4. QED
  BY <1>2, <1>3 DEF CallbackReturns

LEMMA ReleasePreserves == ASSUME IInv, NEW w \in Epochs, Release(w) PROVE IInv'
<1>1. /\ worker[w].pc = "release" /\ inFlight' = inFlight - 1
      /\ worker' = [worker EXCEPT ![w].pc = "wait"]
      /\ UNCHANGED <<queueVars, serveVars, lifeVars, callVars, envVars>>
  BY DEF Release
<1>2. inFlight = 1 /\ \A c \in Callers : ~Joining(c)
  BY <1>1, NobodyJoins DEF IInv, ThreadInv, Busy
<1>3. worker' = [worker EXCEPT ![w] = [pc |-> "wait", op |-> worker[w].op,
                                       verdict |-> worker[w].verdict]]
  <2>1. worker[w] \in [pc : {"off", "wait", "release"} \cup InCallback,
                       op : Ops \cup {NoOp},
                       verdict : {"DroppedOnStop", "StaleGeneration",
                                  "OperationThrew", "Executed"}]
    BY DEF IInv, TypeOK
  <2>2. [worker[w] EXCEPT !.pc = "wait"] =
           [pc |-> "wait", op |-> worker[w].op, verdict |-> worker[w].verdict]
    BY <2>1
  <2>3. worker' = [worker EXCEPT ![w] = [worker[w] EXCEPT !.pc = "wait"]]
    BY <1>1
  <2>4. QED
    BY <2>2, <2>3
<1>4. worker[w].op \in Ops \cup {NoOp} /\
      worker[w].verdict \in {"DroppedOnStop", "StaleGeneration", "OperationThrew", "Executed"}
  BY DEF IInv, TypeOK
<1>5. /\ ordinary' \in Seq(Ops) /\ critical' \in Seq(Ops) /\ dropped' \in Seq(Ops)
      /\ request' \in [Ops -> Request] /\ completions' \in [Ops -> Nat]
      /\ peerCount' \in [Peers -> Nat] /\ lastServed' \in Peers \cup {NoPeer}
      /\ consecutive' \in 0 .. MaxConsecutiveCritical
  BY <1>1 DEF IInv, TypeOK, queueVars, serveVars, envVars
<1>6. UNCHANGED <<critical, ordinary, dropped, lifeVars, callVars, generation>>
  BY <1>1 DEF queueVars, envVars
<1>7. inFlight' = 0 /\ worker[w].pc # "off"
  BY <1>1, <1>2
<1>8. QED
  BY <1>2, <1>3, <1>4, <1>5, <1>6, <1>7, WorkerMovePreserves

LEMMA ExitPreserves == ASSUME IInv, NEW w \in Epochs, Exit(w) PROVE IInv'
<1>1. /\ worker[w].pc = "wait" /\ stopRequested /\ dropped = <<>> /\ workerExited' = TRUE
      /\ worker' = [worker EXCEPT ![w].pc = "off"]
      /\ UNCHANGED <<queueVars, serveVars, running, stopRequested, handle, workerEpoch,
                     lifecycle, inFlight, callVars, envVars>>
  BY DEF Exit
<1>2. /\ worker' \in [Epochs -> [pc : {"off", "wait", "release"} \cup InCallback,
                                op : Ops \cup {NoOp},
                                verdict : {"DroppedOnStop", "StaleGeneration",
                                           "OperationThrew", "Executed"}]]
      /\ \A e \in Epochs : worker'[e].pc = "off"
  <2>1. \A e \in Epochs : e # w => worker[e].pc = "off"
    BY <1>1 DEF IInv, ThreadInv
  <2>2. QED
    BY ZenonT(40), <1>1, <2>1 DEF IInv, TypeOK
<1>3. inFlight = 0
  BY <1>1, WaitingIsIdle
<1>4. TypeOK'
  BY <1>1, <1>2 DEF IInv, TypeOK, queueVars, serveVars, callVars, envVars
<1>5. ThreadInv'
  BY <1>1, <1>2, <1>3 DEF IInv, ThreadInv, Joining, Busy, InCallback, callVars
<1>6. JoinInv' /\ FinalizeInv' /\ QueueInv'
  BY <1>1 DEF IInv, JoinInv, FinalizeInv, QueueInv, Joining, queueVars, callVars
<1>7. QED
  BY <1>4, <1>5, <1>6 DEF IInv

-----------------------------------------------------------------------------
LEMMA NextPreserves == IInv /\ [Next]_vars => IInv'
<1> SUFFICES ASSUME IInv, [Next]_vars PROVE IInv'
  OBVIOUS
<1>1. ASSUME NEW c \in Callers, Enqueue(c) \/ Start(c) \/ StartFails(c) PROVE IInv'
  BY <1>1, EnqueuePreserves, StartPreserves, StartFailsPreserves
<1>2. ASSUME NEW c \in Callers, Stop(c) PROVE IInv'
  <2>1. CanCall(c) /\ StopSection(c, "idle") /\ destroying' \in BOOLEAN
    BY <1>2 DEF Stop, IInv, TypeOK
  <2>2. QED
    BY <2>1, StopSectionPreserves
<1>3. CASE Destroy
  <2>1. Owner \in Callers
    BY ExecutorAssumption DEF Callers
  <2>2. CanCall(Owner) /\ StopSection(Owner, "await") /\ destroying' \in BOOLEAN
    BY <1>3 DEF Destroy
  <2>3. QED
    BY <2>1, <2>2, StopSectionPreserves
<1>4. ASSUME NEW c \in Callers, CallStep(c) PROVE IInv'
  BY <1>4, CompleteDisplacedPreserves, FinalizePreserves, JoinPreserves DEF CallStep
<1>5. CASE Await
  BY <1>5, AwaitPreserves
<1>6. ASSUME NEW w \in Epochs, WorkerLoop(w) \/ CallbackReturns(w) PROVE IInv'
  BY <1>6, TakeCriticalPreserves, TakeOrdinaryPreserves, TakeDroppedPreserves, ExitPreserves,
     ReleasePreserves, CallbackPreserves DEF WorkerLoop
<1>7. ASSUME NEW p \in Peers, ReplaceTransport(p) PROVE IInv'
  <2>1. /\ generation' \in [Peers -> 1 .. MaxGeneration]
        /\ UNCHANGED <<queueVars, serveVars, lifeVars, workerVars, callVars, completions>>
    BY SMTT(20), <1>7, ExecutorAssumption DEF ReplaceTransport, IInv, TypeOK
  <2>2. TypeOK'
    BY <2>1 DEF IInv, TypeOK, queueVars, serveVars, lifeVars, workerVars, callVars
  <2>3. ThreadInv' /\ JoinInv' /\ FinalizeInv' /\ QueueInv'
    BY <2>1 DEF IInv, ThreadInv, JoinInv, FinalizeInv, QueueInv, Joining, queueVars, lifeVars,
       workerVars, callVars
  <2>4. QED
    BY <2>2, <2>3 DEF IInv
<1>8. CASE UNCHANGED vars
  <2>1. UNCHANGED <<queueVars, serveVars, lifeVars, workerVars, callVars, envVars>>
    BY <1>8 DEF vars
  <2>2. TypeOK'
    BY <2>1 DEF IInv, TypeOK, queueVars, serveVars, lifeVars, workerVars, callVars, envVars
  <2>3. ThreadInv' /\ JoinInv' /\ FinalizeInv' /\ QueueInv'
    BY <2>1 DEF IInv, ThreadInv, JoinInv, FinalizeInv, QueueInv, Joining, queueVars, lifeVars,
       workerVars, callVars
  <2>4. QED
    BY <2>2, <2>3 DEF IInv
<1>9. QED
  BY <1>1, <1>2, <1>3, <1>4, <1>5, <1>6, <1>7, <1>8 DEF Next

\* The inductive invariant holds in every behaviour of the executor.
THEOREM Inductive == Spec => []IInv
BY InitEstablishes, NextPreserves, PTL DEF Spec

\* Every variable keeps its type, whatever the callers do (the queues hold items,
\* the counters stay in range, each thread is at a known place).
THEOREM TypeCorrect == Spec => []TypeOK
BY Inductive, PTL DEF IInv

\* One worker thread at a time, across every stop(), restart, failed restart and
\* destruction: so operations never run concurrently.
THEOREM OneWorkerTheorem == Spec => []OneWorker
<1>1. IInv => OneWorker
  BY DEF IInv, ThreadInv, OneWorker
<1>2. QED
  BY <1>1, Inductive, PTL

\* "Finalize a quiescent worker ... never joins while a worker callback is
\* active": the thread that finalizeStoppedWorker joins has no item and none left.
THEOREM JoinTheorem == Spec => []JoinNeverWaitsForACallback
<1>1. IInv => JoinNeverWaitsForACallback
  BY DEF IInv, ThreadInv, JoinInv, TypeOK, JoinNeverWaitsForACallback, Joining, Busy
<1>2. QED
  BY <1>1, Inductive, PTL

\* What enqueue() accepted, and what stop() dropped, always has a live worker
\* that will answer it; nothing is accepted behind a stop().
THEOREM AcceptedWorkTheorem == Spec => []AcceptedWorkHasAWorker
<1>1. ASSUME IInv, critical \o ordinary \o dropped # <<>>
      PROVE  handle # 0 /\ worker[handle].pc # "off"
  <2>1. ~(critical = <<>> /\ ordinary = <<>> /\ dropped = <<>>)
    BY <1>1
  <2>2. running /\ ~workerExited /\ handle # 0
    BY <1>1, <2>1 DEF IInv, QueueInv, ThreadInv, JoinInv
  <2>3. QED
    BY <1>1, <2>2 DEF IInv, ThreadInv
<1>2. IInv => AcceptedWorkHasAWorker
  BY <1>1 DEF IInv, QueueInv, AcceptedWorkHasAWorker
<1>3. QED
  BY <1>2, Inductive, PTL

\* Both together: one worker serializes all work, and no work is without it.
THEOREM WorkTheorem == Spec => []WorkHasItsWorker
BY OneWorkerTheorem, AcceptedWorkTheorem, PTL DEF WorkHasItsWorker

-----------------------------------------------------------------------------
(***************************************************************************)
(* What the queue operations do to the set of items in a queue without     *)
(* repetitions.                                                            *)
(***************************************************************************)
Distinct(s) == \A i, j \in DOMAIN s : s[i] = s[j] => i = j

LEMMA AppendItems ==
    ASSUME NEW S, NEW s \in Seq(S), NEW e \in S
    PROVE  /\ ToSet(Append(s, e)) = ToSet(s) \cup {e}
           /\ Distinct(s) /\ e \notin ToSet(s) => Distinct(Append(s, e))
<1>1. /\ Append(s, e) \in Seq(S) /\ Len(Append(s, e)) = Len(s) + 1
      /\ \A i \in 1 .. Len(s) : Append(s, e)[i] = s[i]
      /\ Append(s, e)[Len(s) + 1] = e
  OBVIOUS
<1>2. /\ DOMAIN s = 1 .. Len(s) /\ Len(s) \in Nat
      /\ DOMAIN Append(s, e) = 1 .. (Len(s) + 1)
  BY <1>1
<1>3. ToSet(Append(s, e)) = ToSet(s) \cup {e}
  <2>1. \A i \in 1 .. (Len(s) + 1) : i \in 1 .. Len(s) \/ i = Len(s) + 1
    BY <1>2
  <2>2. 1 .. Len(s) \subseteq 1 .. (Len(s) + 1) /\ Len(s) + 1 \in 1 .. (Len(s) + 1)
    BY <1>2
  <2>3. QED
    BY <1>1, <1>2, <2>1, <2>2 DEF ToSet
<1>4. ASSUME Distinct(s), e \notin ToSet(s) PROVE Distinct(Append(s, e))
  <2>1. \A i \in 1 .. Len(s) : s[i] # e
    BY <1>2, <1>4 DEF ToSet
  <2>2. QED
    BY <1>1, <1>2, <1>4, <2>1 DEF Distinct
<1>5. QED
  BY <1>3, <1>4

LEMMA ConcatFacts ==
    ASSUME NEW S, NEW a \in Seq(S), NEW b \in Seq(S)
    PROVE  /\ a \o b \in Seq(S) /\ Len(a \o b) = Len(a) + Len(b)
           /\ \A j \in 1 .. (Len(a) + Len(b)) :
                 (a \o b)[j] = IF j <= Len(a) THEN a[j] ELSE b[j - Len(a)]
OBVIOUS

LEMMA RemoveAtItems ==
    ASSUME NEW S, NEW s \in Seq(S), NEW i \in 1 .. Len(s)
    PROVE  /\ RemoveAt(s, i) \in Seq(S) /\ Len(RemoveAt(s, i)) = Len(s) - 1
           /\ \A j \in 1 .. (Len(s) - 1) :
                 RemoveAt(s, i)[j] = IF j < i THEN s[j] ELSE s[j + 1]
           /\ ToSet(RemoveAt(s, i)) \subseteq ToSet(s)
           /\ Distinct(s) => /\ ToSet(RemoveAt(s, i)) = ToSet(s) \ {s[i]}
                             /\ Distinct(RemoveAt(s, i))
<1> DEFINE t == RemoveAt(s, i)
<1>1. /\ t \in Seq(S) /\ Len(t) = Len(s) - 1
      /\ \A j \in 1 .. (Len(s) - 1) : t[j] = IF j < i THEN s[j] ELSE s[j + 1]
  <2>1. /\ SubSeq(s, 1, i - 1) \in Seq(S) /\ Len(SubSeq(s, 1, i - 1)) = i - 1
        /\ \A j \in 1 .. (i - 1) : SubSeq(s, 1, i - 1)[j] = s[j]
    OBVIOUS
  <2>2. /\ SubSeq(s, i + 1, Len(s)) \in Seq(S)
        /\ Len(SubSeq(s, i + 1, Len(s))) = Len(s) - i
        /\ \A j \in 1 .. (Len(s) - i) : SubSeq(s, i + 1, Len(s))[j] = s[i + j]
    OBVIOUS
  <2> DEFINE a == SubSeq(s, 1, i - 1)
             b == SubSeq(s, i + 1, Len(s))
  <2>3. t = a \o b
    BY DEF RemoveAt
  <2>4. i \in Nat /\ Len(s) \in Nat /\ i >= 1 /\ i <= Len(s)
    OBVIOUS
  <2> HIDE DEF a, b, t
  <2>5. /\ a \in Seq(S) /\ b \in Seq(S) /\ Len(a) = i - 1 /\ Len(b) = Len(s) - i
        /\ \A j \in 1 .. (i - 1) : a[j] = s[j]
        /\ \A j \in 1 .. (Len(s) - i) : b[j] = s[i + j]
    BY <2>1, <2>2 DEF a, b
  <2>6. /\ a \o b \in Seq(S) /\ Len(a \o b) = Len(a) + Len(b)
        /\ \A j \in 1 .. (Len(a) + Len(b)) :
              (a \o b)[j] = IF j <= Len(a) THEN a[j] ELSE b[j - Len(a)]
    <3>1. a \in Seq(S) /\ b \in Seq(S)
      BY <2>5
    <3>2. QED
      BY <3>1, ConcatFacts
  <2>7. t \in Seq(S) /\ Len(t) = Len(s) - 1
    BY <2>3, <2>4, <2>5, <2>6
  <2>8. ASSUME NEW j \in 1 .. (Len(s) - 1) PROVE t[j] = IF j < i THEN s[j] ELSE s[j + 1]
    <3>1. t[j] = IF j <= i - 1 THEN a[j] ELSE b[j - (i - 1)]
      BY <2>3, <2>4, <2>5, <2>6
    <3>2. CASE j < i
      BY <2>4, <2>5, <3>1, <3>2
    <3>3. CASE j >= i
      <4>1. j - (i - 1) \in 1 .. (Len(s) - i) /\ i + (j - (i - 1)) = j + 1
        BY <2>4, <3>3
      <4>2. QED
        BY <2>4, <2>5, <3>1, <3>3, <4>1
    <3>4. QED
      BY <2>4, <3>2, <3>3
  <2>9. QED
    BY <2>7, <2>8
<1> HIDE DEF t
<1>2. /\ DOMAIN s = 1 .. Len(s) /\ Len(s) \in Nat /\ i \in Nat
      /\ DOMAIN t = 1 .. (Len(s) - 1)
  BY <1>1
<1>3. ToSet(t) \subseteq ToSet(s)
  <2>1. \A j \in DOMAIN t : t[j] \in ToSet(s)
    <3> TAKE j \in DOMAIN t
    <3>1. j \in DOMAIN s /\ j + 1 \in DOMAIN s
      BY <1>2
    <3>2. s[j] \in ToSet(s) /\ s[j + 1] \in ToSet(s)
      BY <3>1 DEF ToSet
    <3>3. QED
      BY <1>1, <1>2, <3>2
  <2>2. QED
    BY <2>1 DEF ToSet
<1>4. \A j \in 1 .. Len(s) : j # i => s[j] \in ToSet(t)
  <2> TAKE j \in 1 .. Len(s)
  <2>1. CASE j < i
    BY <1>1, <1>2, <2>1 DEF ToSet
  <2>2. CASE j > i
    <3>1. j - 1 \in DOMAIN t /\ t[j - 1] = s[j]
      BY <1>1, <1>2, <2>2
    <3>2. QED
      BY <3>1 DEF ToSet
  <2>3. QED
    BY <1>2, <2>1, <2>2
<1>5. ASSUME Distinct(s) PROVE ToSet(t) = ToSet(s) \ {s[i]}
  <2>1. \A j \in DOMAIN t : t[j] # s[i]
    BY SMTT(20), <1>1, <1>2, <1>5 DEF Distinct
  <2>2. QED
    BY <1>2, <1>3, <1>4, <2>1 DEF ToSet
<1>6. ASSUME Distinct(s) PROVE Distinct(t)
  <2> SUFFICES ASSUME NEW j \in DOMAIN t, NEW k \in DOMAIN t, t[j] = t[k] PROVE j = k
    BY DEF Distinct
  <2>1. /\ j \in DOMAIN s /\ j + 1 \in DOMAIN s /\ k \in DOMAIN s /\ k + 1 \in DOMAIN s
        /\ j \in Nat /\ k \in Nat
    BY <1>2
  <2>2. /\ t[j] = IF j < i THEN s[j] ELSE s[j + 1]
        /\ t[k] = IF k < i THEN s[k] ELSE s[k + 1]
    BY <1>1, <1>2
  <2>3. CASE j < i /\ k < i
    BY <1>6, <2>1, <2>2, <2>3 DEF Distinct
  <2>4. CASE j < i /\ ~(k < i)
    <3>1. j = k + 1
      BY <1>6, <2>1, <2>2, <2>4 DEF Distinct
    <3>2. QED
      BY <1>2, <2>1, <2>4, <3>1
  <2>5. CASE ~(j < i) /\ k < i
    <3>1. j + 1 = k
      BY <1>6, <2>1, <2>2, <2>5 DEF Distinct
    <3>2. QED
      BY <1>2, <2>1, <2>5, <3>1
  <2>6. CASE ~(j < i) /\ ~(k < i)
    <3>1. j + 1 = k + 1
      BY <1>6, <2>1, <2>2, <2>6 DEF Distinct
    <3>2. QED
      BY <2>1, <3>1
  <2>7. QED
    BY <2>3, <2>4, <2>5, <2>6
<1>7. QED
  BY <1>1, <1>3, <1>5, <1>6 DEF t

LEMMA ReplaceItems ==
    ASSUME NEW S, NEW s \in Seq(S), NEW i \in 1 .. Len(s), NEW e \in S,
           Distinct(s), e \notin ToSet(s)
    PROVE  /\ ToSet([s EXCEPT ![i] = e]) = (ToSet(s) \ {s[i]}) \cup {e}
           /\ Distinct([s EXCEPT ![i] = e])
<1> DEFINE t == [s EXCEPT ![i] = e]
<1>1. /\ DOMAIN s = 1 .. Len(s) /\ DOMAIN t = DOMAIN s
      /\ \A j \in DOMAIN s : t[j] = IF j = i THEN e ELSE s[j]
  OBVIOUS
<1> HIDE DEF t
<1>2. \A j \in DOMAIN s : s[j] # e
  BY DEF ToSet
<1>3. \A x \in ToSet(s) \ {s[i]} : x \in ToSet(t)
  BY <1>1 DEF ToSet
<1>4. e \in ToSet(t)
  BY <1>1 DEF ToSet
<1>5. \A x \in ToSet(t) : x = e \/ (x \in ToSet(s) /\ x # s[i])
  BY <1>1 DEF ToSet, Distinct
<1>6. Distinct(t)
  BY <1>1, <1>2 DEF Distinct
<1>7. ToSet(t) = (ToSet(s) \ {s[i]}) \cup {e}
  BY <1>2, <1>1, <1>3, <1>4, <1>5
<1>8. QED
  BY <1>6, <1>7 DEF t

LEMMA TailItems ==
    ASSUME NEW S, NEW s \in Seq(S), s # <<>>, Distinct(s)
    PROVE  /\ ToSet(Tail(s)) = ToSet(s) \ {Head(s)} /\ Head(s) \in ToSet(s)
           /\ Distinct(Tail(s))
<1>1. /\ Len(s) \in Nat \ {0} /\ DOMAIN s = 1 .. Len(s) /\ Head(s) = s[1]
      /\ Tail(s) \in Seq(S) /\ Len(Tail(s)) = Len(s) - 1
      /\ \A j \in 1 .. (Len(s) - 1) : Tail(s)[j] = s[j + 1]
  OBVIOUS
<1>2. DOMAIN Tail(s) = 1 .. (Len(s) - 1)
  BY <1>1
<1>3. \A j \in 2 .. Len(s) : j - 1 \in DOMAIN Tail(s) /\ Tail(s)[j - 1] = s[j]
  BY <1>1, <1>2
<1>4. \A x \in ToSet(s) \ {s[1]} : x \in ToSet(Tail(s))
  <2> TAKE x \in ToSet(s) \ {s[1]}
  <2>1. PICK j \in 1 .. Len(s) : x = s[j]
    BY <1>1 DEF ToSet
  <2>2. j \in 2 .. Len(s)
    BY <1>1, <2>1
  <2>3. QED
    BY <1>3, <2>1, <2>2 DEF ToSet
<1>5. \A x \in ToSet(Tail(s)) : x \in ToSet(s) /\ x # s[1]
  <2> TAKE x \in ToSet(Tail(s))
  <2>1. PICK j \in 1 .. (Len(s) - 1) : x = s[j + 1]
    BY <1>1, <1>2 DEF ToSet
  <2>2. j + 1 \in DOMAIN s /\ 1 \in DOMAIN s /\ j + 1 # 1
    BY <1>1
  <2>3. QED
    BY <2>1, <2>2 DEF ToSet, Distinct
<1>6. Distinct(Tail(s))
  <2> SUFFICES ASSUME NEW i \in DOMAIN Tail(s), NEW j \in DOMAIN Tail(s), Tail(s)[i] = Tail(s)[j]
               PROVE  i = j
    BY DEF Distinct
  <2>1. /\ i + 1 \in DOMAIN s /\ j + 1 \in DOMAIN s /\ i \in Nat /\ j \in Nat
        /\ s[i + 1] = s[j + 1]
    BY <1>1, <1>2
  <2>2. i + 1 = j + 1
    BY <2>1 DEF Distinct
  <2>3. QED
    BY <2>1, <2>2
<1>7. QED
  BY <1>1, <1>4, <1>5, <1>6 DEF ToSet

LEMMA ConcatItems ==
    ASSUME NEW S, NEW s \in Seq(S), NEW t \in Seq(S)
    PROVE  /\ ToSet(s \o t) = ToSet(s) \cup ToSet(t)
           /\ Distinct(s) /\ Distinct(t) /\ ToSet(s) \cap ToSet(t) = {} => Distinct(s \o t)
<1> DEFINE u == s \o t
<1>1. /\ u \in Seq(S) /\ Len(u) = Len(s) + Len(t) /\ Len(s) \in Nat /\ Len(t) \in Nat
      /\ DOMAIN s = 1 .. Len(s) /\ DOMAIN t = 1 .. Len(t) /\ DOMAIN u = 1 .. (Len(s) + Len(t))
      /\ \A i \in 1 .. (Len(s) + Len(t)) :
            u[i] = IF i <= Len(s) THEN s[i] ELSE t[i - Len(s)]
  OBVIOUS
<1> HIDE DEF u
<1>2. /\ \A i \in DOMAIN s : i \in DOMAIN u /\ u[i] = s[i]
      /\ \A i \in DOMAIN t : i + Len(s) \in DOMAIN u /\ u[i + Len(s)] = t[i]
  BY <1>1
<1>3. \A i \in DOMAIN u : \/ i \in DOMAIN s /\ u[i] = s[i]
                          \/ i - Len(s) \in DOMAIN t /\ u[i] = t[i - Len(s)]
  BY <1>1
<1>4. ToSet(u) = ToSet(s) \cup ToSet(t)
  <2>1. ToSet(s) \subseteq ToSet(u) /\ ToSet(t) \subseteq ToSet(u)
    BY <1>2 DEF ToSet
  <2>2. ToSet(u) \subseteq ToSet(s) \cup ToSet(t)
    BY <1>3 DEF ToSet
  <2>3. QED
    BY <2>1, <2>2
<1>5. ASSUME Distinct(s), Distinct(t), ToSet(s) \cap ToSet(t) = {} PROVE Distinct(u)
  <2>1. \A i \in DOMAIN s, j \in DOMAIN t : s[i] # t[j]
    BY <1>5 DEF ToSet
  <2> SUFFICES ASSUME NEW i \in DOMAIN u, NEW j \in DOMAIN u, u[i] = u[j] PROVE i = j
    BY DEF Distinct
  <2>2. i \in Int /\ j \in Int
    BY <1>1
  <2>3. CASE i \in DOMAIN s /\ u[i] = s[i] /\ j \in DOMAIN s /\ u[j] = s[j]
    BY <1>5, <2>3 DEF Distinct
  <2>4. CASE /\ i - Len(s) \in DOMAIN t /\ u[i] = t[i - Len(s)]
             /\ j - Len(s) \in DOMAIN t /\ u[j] = t[j - Len(s)]
    <3>1. i - Len(s) = j - Len(s)
      BY <1>5, <2>4 DEF Distinct
    <3>2. QED
      BY <1>1, <2>2, <3>1
  <2>5. QED
    BY <1>3, <2>1, <2>3, <2>4
<1>6. QED
  BY <1>4, <1>5 DEF u

LEMMA ItemsFinite ==
    ASSUME NEW S, NEW s \in Seq(S)
    PROVE  IsFiniteSet(ToSet(s))
<1> DEFINE f == [i \in 1 .. Len(s) |-> s[i]]
<1>1. DOMAIN s = 1 .. Len(s) /\ Len(s) \in Nat
  OBVIOUS
<1>2. f \in Surjection(1 .. Len(s), ToSet(s))
  BY <1>1 DEF Surjection, ToSet
<1>3. IsFiniteSet(1 .. Len(s))
  BY <1>1, FS_Interval
<1>4. QED
  BY <1>2, <1>3, FS_Surjection

\* Positions and items of a queue without repetitions count the same.
LEMMA CountItems ==
    ASSUME NEW S, NEW s \in Seq(S), Distinct(s), NEW A
    PROVE  Cardinality({i \in DOMAIN s : s[i] \in A}) = Cardinality(ToSet(s) \cap A)
<1> DEFINE P == {i \in DOMAIN s : s[i] \in A}
           f == [i \in P |-> s[i]]
<1>1. DOMAIN s = 1 .. Len(s) /\ Len(s) \in Nat
  OBVIOUS
<1>2. IsFiniteSet(P)
  <2>1. IsFiniteSet(1 .. Len(s)) /\ P \in SUBSET (1 .. Len(s))
    BY <1>1, FS_Interval
  <2>2. QED
    BY <2>1, FS_Subset
<1>3. f \in Bijection(P, ToSet(s) \cap A)
  BY <1>1 DEF Bijection, Injection, Surjection, IsInjective, ToSet, Distinct
<1>4. ExistsBijection(P, ToSet(s) \cap A)
  BY <1>3 DEF ExistsBijection
<1>5. QED
  BY <1>2, <1>4, FS_Bijection

-----------------------------------------------------------------------------
(***************************************************************************)
(* An unanswered submission is in exactly one place: one of the queues, in *)
(* the hand of the caller that owes its completion, or with the worker.    *)
(***************************************************************************)
Handed == {hand[c] : c \in Callers} \ {NoOp}
Worked == {worker[w].op : w \in Epochs} \ {NoOp}
Places == ToSet(critical) \cup ToSet(ordinary) \cup ToSet(dropped) \cup Handed \cup Worked

PlaceInv ==
    /\ Distinct(critical) /\ Distinct(ordinary) /\ Distinct(dropped)
    /\ \A c, d \in Callers : hand[c] = hand[d] /\ hand[c] # NoOp => c = d
    /\ ToSet(critical) \cap ToSet(ordinary) = {}
    /\ ToSet(dropped) \cap (ToSet(critical) \cup ToSet(ordinary)) = {}
    /\ Handed \cap (ToSet(critical) \cup ToSet(ordinary) \cup ToSet(dropped)) = {}
    /\ Worked \cap (ToSet(critical) \cup ToSet(ordinary) \cup ToSet(dropped) \cup Handed) = {}
    /\ \A o \in Ops : completions[o] = IF o \in Places THEN 0 ELSE 1

\* The worker holds an item exactly while it runs one of its callbacks.
HoldInv == \A w \in Epochs : worker[w].op # NoOp <=> worker[w].pc \in InCallback

OrdinaryOf(p) == {o \in ToSet(ordinary) : PeerOf(o) = p}

\* The bounds of enqueue() and the counters it keeps by hand.
CountInv ==
    /\ Queued <= MaxQueued /\ Len(ordinary) <= OrdinaryCapacity
    /\ \A p \in Peers : /\ peerCount[p] = Cardinality(OrdinaryOf(p))
                        /\ peerCount[p] <= PerPeerOrdinaryLimit

PlacedInv == IInv /\ HoldInv /\ PlaceInv /\ CountInv

LEMMA CapacityType ==
    /\ MaxQueued \in Nat /\ OrdinaryCapacity \in Nat
    /\ PerPeerOrdinaryLimit \in Nat
<1>1. CriticalReserve \in Nat /\ CriticalReserve <= MaxQueued
  <2>1. MaxQueued \div 8 \in Nat
    BY ExecutorAssumption
  <2>2. QED
    BY <2>1, ExecutorAssumption DEF CriticalReserve, Least, Greatest
<1>2. OrdinaryCapacity \in Nat
  BY <1>1, ExecutorAssumption DEF OrdinaryCapacity
<1>3. OrdinaryCapacity \div 4 \in Nat
  BY <1>2
<1>4. PerPeerOrdinaryLimit \in Nat
  BY <1>2, <1>3, ExecutorAssumption DEF PerPeerOrdinaryLimit, Least, Greatest
<1>5. QED
  BY <1>2, <1>4, ExecutorAssumption

LEMMA PlacesTyped ==
    ASSUME TypeOK
    PROVE  /\ ToSet(critical) \subseteq Ops /\ ToSet(ordinary) \subseteq Ops
           /\ ToSet(dropped) \subseteq Ops /\ Handed \subseteq Ops /\ Worked \subseteq Ops
           /\ NoOp \notin Places
           /\ IsFiniteSet(ToSet(ordinary))
<1>1. critical \in Seq(Ops) /\ ordinary \in Seq(Ops) /\ dropped \in Seq(Ops)
  BY DEF TypeOK
<1>2. /\ ToSet(critical) \subseteq Ops /\ ToSet(ordinary) \subseteq Ops
      /\ ToSet(dropped) \subseteq Ops
  BY <1>1 DEF ToSet
<1>3. Handed \subseteq Ops /\ Worked \subseteq Ops
  BY DEF TypeOK, Handed, Worked
<1>4. QED
  BY <1>1, <1>2, <1>3, ItemsFinite, ExecutorAssumption DEF Places

-----------------------------------------------------------------------------
LEMMA PlacedInit == Init => HoldInv /\ PlaceInv /\ CountInv
<1> SUFFICES ASSUME Init PROVE HoldInv /\ PlaceInv /\ CountInv
  OBVIOUS
<1>1. /\ ToSet(critical) = {} /\ ToSet(ordinary) = {} /\ ToSet(dropped) = {}
      /\ Distinct(critical) /\ Distinct(ordinary) /\ Distinct(dropped)
      /\ Len(critical) = 0 /\ Len(ordinary) = 0
  BY DEF Init, ToSet, Distinct
<1>2. Handed = {} /\ Worked = {}
  BY DEF Init, Handed, Worked
<1>3. PlaceInv
  BY <1>1, <1>2 DEF Init, PlaceInv, Places
<1>4. HoldInv
  BY DEF Init, HoldInv, InCallback
<1>5. CountInv
  <2>1. \A p \in Peers : OrdinaryOf(p) = {}
    BY <1>1 DEF OrdinaryOf
  <2>2. \A p \in Peers : peerCount[p] = 0
    BY DEF Init
  <2>3. \A p \in Peers : /\ peerCount[p] = Cardinality(OrdinaryOf(p))
                         /\ peerCount[p] <= PerPeerOrdinaryLimit
    BY <2>1, <2>2, CapacityType, FS_EmptySet
  <2>4. Queued <= MaxQueued /\ Len(ordinary) <= OrdinaryCapacity
    BY <1>1, CapacityType DEF Queued
  <2>5. QED
    BY <2>3, <2>4 DEF CountInv
<1>6. QED
  BY <1>3, <1>4, <1>5

-----------------------------------------------------------------------------
\* An item submitted anew is nowhere yet, and no other item is touched.
LEMMA SubmittedIsNew ==
    ASSUME PlacedInv, NEW o \in Ops, NEW r \in Requests, Submit(o, r)
    PROVE  /\ o \notin Places
           /\ request'[o] = r
           /\ \A q \in Ops \ {o} : request'[q] = request[q] /\ completions'[q] = completions[q]
           /\ completions'[o] = 0
           /\ r.peer \in Peers
<1>1. request \in [Ops -> Request] /\ completions \in [Ops -> Nat]
  BY DEF PlacedInv, IInv, TypeOK
<1>2. r.peer \in Peers
  BY ExecutorAssumption DEF Request
<1>3. QED
  BY <1>1, <1>2 DEF PlacedInv, PlaceInv, Submit

\* The caller's empty hand takes an item that no hand holds.
LEMMA OweTakes ==
    ASSUME PlacedInv, NEW c \in Callers, hand[c] = NoOp, NEW x \in Ops, x \notin Handed,
           Owe(c, x)
    PROVE  /\ Handed' = Handed \cup {x}
           /\ \A d, e \in Callers : hand'[d] = hand'[e] /\ hand'[d] # NoOp => d = e
<1>1. /\ hand \in [Callers -> Ops \cup {NoOp}] /\ x # NoOp
      /\ \A d, e \in Callers : hand[d] = hand[e] /\ hand[d] # NoOp => d = e
      /\ hand' = [hand EXCEPT ![c] = x]
  BY ExecutorAssumption DEF PlacedInv, IInv, TypeOK, PlaceInv, Owe
<1>2. \A d \in Callers : hand'[d] = IF d = c THEN x ELSE hand[d]
  BY <1>1
<1>3. \A d \in Callers : hand[d] # x
  BY <1>1 DEF Handed
<1>4. Handed' = Handed \cup {x}
  BY <1>1, <1>2 DEF Handed
<1>5. QED
  BY <1>1, <1>2, <1>3, <1>4

\* enqueue() of an item that leaves the ordinary queue and its counters alone.
LEMMA CountKept ==
    ASSUME PlacedInv, TypeOK', ordinary' = ordinary, peerCount' = peerCount,
           Len(critical') + Len(ordinary) <= MaxQueued,
           \A q \in ToSet(ordinary) : request'[q] = request[q]
    PROVE  CountInv'
<1>1. \A p \in Peers : OrdinaryOf(p)' = OrdinaryOf(p)
  BY DEF OrdinaryOf, PeerOf
<1>2. QED
  BY <1>1 DEF PlacedInv, CountInv, Queued

LEMMA OrdinaryFinite ==
    ASSUME TypeOK, NEW p PROVE IsFiniteSet(OrdinaryOf(p)) /\ Cardinality(OrdinaryOf(p)) \in Nat
<1>1. OrdinaryOf(p) \in SUBSET ToSet(ordinary) /\ IsFiniteSet(ToSet(ordinary))
  BY PlacesTyped DEF OrdinaryOf
<1>2. QED
  BY <1>1, FS_Subset, FS_CardinalityType

\* An ordinary item leaves the queue and is uncounted.
LEMMA CountRemoved ==
    ASSUME PlacedInv, TypeOK', NEW x \in ToSet(ordinary),
           ToSet(ordinary)' = ToSet(ordinary) \ {x},
           peerCount' = Uncount(PeerOf(x)),
           Len(ordinary') <= Len(ordinary), Len(critical') + Len(ordinary') <= MaxQueued,
           \A q \in ToSet(ordinary) : request'[q] = request[q]
    PROVE  CountInv'
<1>1. /\ x \in Ops /\ PeerOf(x) \in Peers
      /\ peerCount \in [Peers -> Nat] /\ ordinary \in Seq(Ops) /\ ordinary' \in Seq(Ops)
      /\ critical' \in Seq(Ops)
  BY PlacesTyped DEF PlacedInv, IInv, TypeOK, PeerOf, Request
<1>2. \A p \in Peers : /\ peerCount[p] = Cardinality(OrdinaryOf(p))
                       /\ peerCount[p] <= PerPeerOrdinaryLimit
  BY DEF PlacedInv, CountInv
<1>3. \A p \in Peers : OrdinaryOf(p)' = OrdinaryOf(p) \ {x}
  BY DEF OrdinaryOf, PeerOf
<1>4. ASSUME NEW p \in Peers
      PROVE  peerCount'[p] = Cardinality(OrdinaryOf(p)') /\ peerCount'[p] <= peerCount[p]
  <2>1. IsFiniteSet(OrdinaryOf(p)) /\ Cardinality(OrdinaryOf(p)) \in Nat
    BY OrdinaryFinite DEF PlacedInv, IInv
  <2>2. CASE p = PeerOf(x)
    <3>1. x \in OrdinaryOf(p) /\ OrdinaryOf(p) # {}
      BY <2>2 DEF OrdinaryOf
    <3>2. Cardinality(OrdinaryOf(p)') = Cardinality(OrdinaryOf(p)) - 1
      BY <1>3, <2>1, <3>1, FS_RemoveElement
    <3>3. peerCount[p] \in Nat \ {0}
      BY <1>1, <1>2, <2>1, <3>1, FS_EmptySet
    <3>4. peerCount'[p] = peerCount[p] - 1
      BY <1>1, <2>2, <3>3 DEF Uncount
    <3>5. QED
      BY <1>2, <3>2, <3>3, <3>4
  <2>3. CASE p # PeerOf(x)
    <3>1. x \notin OrdinaryOf(p)
      BY <2>3 DEF OrdinaryOf
    <3>2. OrdinaryOf(p)' = OrdinaryOf(p)
      BY <1>3, <3>1
    <3>3. peerCount'[p] = peerCount[p]
      BY <1>1, <2>3 DEF Uncount
    <3>4. QED
      BY <1>1, <1>2, <3>2, <3>3
  <2>4. QED
    BY <2>2, <2>3
<1>5. Len(ordinary') <= OrdinaryCapacity
  BY <1>1, CapacityType DEF PlacedInv, CountInv
<1>6. \A p \in Peers : peerCount'[p] <= PerPeerOrdinaryLimit
  <2> TAKE p \in Peers
  <2>1. peerCount'[p] \in Nat /\ peerCount[p] \in Nat
    BY <1>1 DEF TypeOK
  <2>2. QED
    BY <1>2, <1>4, <2>1, CapacityType
<1>7. QED
  BY <1>4, <1>5, <1>6 DEF CountInv, Queued

-----------------------------------------------------------------------------
\* Whatever enqueue() does to the queues, it preserves the places once the sets
\* of items are known: the new item o is put in one of them, and what leaves a
\* queue is in the caller's hand.
LEMMA EnqueuePlaces ==
    ASSUME PlacedInv, NEW o \in Ops, o \notin Places,
           completions'[o] = 0,
           \A q \in Ops \ {o} : completions'[q] = completions[q],
           Worked' = Worked, dropped' = dropped,
           Distinct(critical)', Distinct(ordinary)',
           \A c, d \in Callers : hand'[c] = hand'[d] /\ hand'[c] # NoOp => c = d,
           NEW X \in SUBSET (ToSet(critical) \cup ToSet(ordinary)),
           \/ /\ ToSet(critical)' = ToSet(critical) \ X /\ ToSet(ordinary)' = ToSet(ordinary) \ X
              /\ Handed' = Handed \cup X \cup {o}
           \/ /\ ToSet(critical)' = (ToSet(critical) \ X) \cup {o}
              /\ ToSet(ordinary)' = ToSet(ordinary) \ X
              /\ Handed' = Handed \cup X
           \/ /\ ToSet(critical)' = ToSet(critical) \ X
              /\ ToSet(ordinary)' = (ToSet(ordinary) \ X) \cup {o}
              /\ Handed' = Handed \cup X
    PROVE  PlaceInv'
<1>1. ToSet(dropped)' = ToSet(dropped) /\ Distinct(dropped)'
  BY DEF PlacedInv, PlaceInv
<1>2. Places' = Places \cup {o}
  BY <1>1 DEF Places
<1>3. \A q \in Ops : completions'[q] = IF q \in Places' THEN 0 ELSE 1
  BY <1>2 DEF PlacedInv, PlaceInv
<1>4. /\ ToSet(critical)' \cap ToSet(ordinary)' = {}
      /\ ToSet(dropped)' \cap (ToSet(critical)' \cup ToSet(ordinary)') = {}
      /\ Handed' \cap (ToSet(critical)' \cup ToSet(ordinary)' \cup ToSet(dropped)') = {}
      /\ Worked' \cap (ToSet(critical)' \cup ToSet(ordinary)' \cup ToSet(dropped)' \cup Handed') = {}
  BY <1>1 DEF PlacedInv, PlaceInv, Places
<1>5. QED
  BY <1>1, <1>3, <1>4 DEF PlaceInv

LEMMA EnqueuePlaced ==
    ASSUME PlacedInv, NEW c \in Callers, Enqueue(c) PROVE PlaceInv' /\ CountInv'
<1>0. /\ critical \in Seq(Ops) /\ ordinary \in Seq(Ops) /\ TypeOK /\ TypeOK' /\ hand[c] = NoOp
      /\ Distinct(critical) /\ Distinct(ordinary)
      /\ ToSet(critical) \subseteq Ops /\ ToSet(ordinary) \subseteq Ops
      /\ Len(critical) \in Nat /\ Len(ordinary) \in Nat
      /\ Len(critical) + Len(ordinary) <= MaxQueued
  <2>1. IInv /\ IInv' /\ TypeOK /\ TypeOK'
    BY EnqueuePreserves DEF PlacedInv, IInv
  <2>2. critical \in Seq(Ops) /\ ordinary \in Seq(Ops)
    BY <2>1 DEF TypeOK
  <2>3. /\ Distinct(critical) /\ Distinct(ordinary) /\ hand[c] = NoOp
        /\ Len(critical) + Len(ordinary) <= MaxQueued
    BY DEF PlacedInv, PlaceInv, CountInv, Queued, Enqueue, CanCall
  <2>4. QED
    BY <2>1, <2>2, <2>3, PlacesTyped
<1>1. PICK o \in Ops, r \in Requests :
         \/ EnqueueInvalid(c, o, r)
         \/ EnqueueStopped(c, o, r)
         \/ EnqueueCoalescedCritical(c, o, r)
         \/ EnqueueCoalescedOrdinary(c, o, r)
         \/ EnqueueOrdinary(c, o, r)
         \/ EnqueueCritical(c, o, r)
         \/ EnqueueEvictingOrdinary(c, o, r)
         \/ EnqueueEvictingCritical(c, o, r)
  BY DEF Enqueue
<1>2. Submit(o, r)
  BY <1>1 DEF EnqueueInvalid, EnqueueStopped, EnqueueRefused, EnqueueCoalescedCritical,
       EnqueueCoalescedOrdinary, EnqueueOrdinary, EnqueueCritical,
       EnqueueEvictingOrdinary, EnqueueEvictingCritical
<1>3. /\ o \notin Places /\ request'[o] = r /\ completions'[o] = 0 /\ r.peer \in Peers
      /\ \A q \in Ops \ {o} : request'[q] = request[q] /\ completions'[q] = completions[q]
      /\ \A q \in ToSet(critical) \cup ToSet(ordinary) : request'[q] = request[q]
  BY <1>0, <1>2, SubmittedIsNew DEF Places
<1>4. Worked' = Worked /\ dropped' = dropped
  BY EnqueueType DEF Enqueue, workerVars, Worked, PlacedInv
<1>5. /\ o \notin ToSet(critical) /\ o \notin ToSet(ordinary) /\ o \notin Handed
      /\ ToSet(critical) \cap ToSet(ordinary) = {}
      /\ Handed \cap (ToSet(critical) \cup ToSet(ordinary)) = {}
  BY <1>3 DEF PlacedInv, PlaceInv, Places
<1>6. \A d, e \in Callers : hand[d] = hand[e] /\ hand[d] # NoOp => d = e
  BY DEF PlacedInv, PlaceInv
<1>7. ASSUME EnqueueRefused(c, o, r) PROVE PlaceInv' /\ CountInv'
  <2>1. UNCHANGED <<critical, ordinary, peerCount>> /\ Owe(c, o)
    BY <1>7 DEF EnqueueRefused
  <2>2. /\ Handed' = Handed \cup {o}
        /\ \A d, e \in Callers : hand'[d] = hand'[e] /\ hand'[d] # NoOp => d = e
    BY <1>0, <1>5, <2>1, OweTakes
  <2>3. ToSet(critical)' = ToSet(critical) /\ ToSet(ordinary)' = ToSet(ordinary)
    BY <2>1
  <2>4. Distinct(critical)' /\ Distinct(ordinary)'
    BY <1>0, <2>1
  <2>5. PlaceInv'
    <3>1. /\ {} \in SUBSET (ToSet(critical) \cup ToSet(ordinary))
          /\ ToSet(critical)' = ToSet(critical) \ {} /\ ToSet(ordinary)' = ToSet(ordinary) \ {}
          /\ Handed' = Handed \cup {} \cup {o}
      BY <2>2, <2>3
    <3>2. QED
      BY <1>3, <1>4, <2>2, <2>4, <3>1, EnqueuePlaces
  <2>6. CountInv'
    BY <1>0, <1>3, <2>1, CountKept
  <2>7. QED
    BY <2>5, <2>6
<1>8. CASE EnqueueInvalid(c, o, r) \/ EnqueueStopped(c, o, r)
  BY <1>7, <1>8 DEF EnqueueInvalid, EnqueueStopped
<1>9. CASE EnqueueCoalescedCritical(c, o, r)
  <2>1. PICK i \in DOMAIN critical : critical' = [critical EXCEPT ![i] = o] /\ Owe(c, critical[i])
    BY <1>9 DEF EnqueueCoalescedCritical
  <2>2. i \in 1 .. Len(critical) /\ critical[i] \in ToSet(critical) /\ critical[i] \in Ops
    BY <1>0 DEF ToSet
  <2>3. /\ ToSet(critical)' = (ToSet(critical) \ {critical[i]}) \cup {o} /\ Distinct(critical)'
        /\ Len(critical') = Len(critical)
    <3>1. /\ ToSet([critical EXCEPT ![i] = o]) = (ToSet(critical) \ {critical[i]}) \cup {o}
          /\ Distinct([critical EXCEPT ![i] = o])
      BY <1>0, <1>5, <2>2, ReplaceItems
    <3>2. Len([critical EXCEPT ![i] = o]) = Len(critical)
      BY <1>0
    <3>3. QED
      BY <2>1, <3>1, <3>2
  <2>4. UNCHANGED <<ordinary, peerCount>>
    BY <1>9 DEF EnqueueCoalescedCritical
  <2>5. /\ Handed' = Handed \cup {critical[i]}
        /\ \A d, e \in Callers : hand'[d] = hand'[e] /\ hand'[d] # NoOp => d = e
    <3>1. critical[i] \notin Handed
      BY <1>5, <2>2
    <3>2. QED
      BY <1>0, <2>1, <2>2, <3>1, OweTakes
  <2>6. PlaceInv'
    <3>1. {critical[i]} \in SUBSET (ToSet(critical) \cup ToSet(ordinary))
      BY <2>2
    <3>2. ToSet(ordinary)' = ToSet(ordinary) \ {critical[i]} /\ Distinct(ordinary)'
      BY <1>0, <1>5, <2>2, <2>4
    <3>3. QED
      BY <1>3, <1>4, <2>3, <2>5, <3>1, <3>2, EnqueuePlaces
  <2>7. CountInv'
    BY <1>0, <1>3, <2>3, <2>4, CountKept
  <2>8. QED
    BY <2>6, <2>7
<1>10. CASE EnqueueCoalescedOrdinary(c, o, r)
  <2> DEFINE l == Len(ordinary)
             x == ordinary[l]
  <2>1. /\ ordinary # <<>> /\ ordinary' = [ordinary EXCEPT ![l] = o] /\ Owe(c, x)
        /\ PeerOf(x) = r.peer /\ UNCHANGED <<critical, peerCount>>
    BY <1>10 DEF EnqueueCoalescedOrdinary, CoalescesOrdinary, SameKey, Last
  <2>2. l \in 1 .. Len(ordinary) /\ x \in ToSet(ordinary) /\ x \in Ops
    BY <1>0, <2>1 DEF ToSet
  <2>3. /\ ToSet(ordinary)' = (ToSet(ordinary) \ {x}) \cup {o} /\ Distinct(ordinary)'
        /\ Len(ordinary') = Len(ordinary)
    <3>1. /\ ToSet([ordinary EXCEPT ![l] = o]) = (ToSet(ordinary) \ {x}) \cup {o}
          /\ Distinct([ordinary EXCEPT ![l] = o])
      BY <1>0, <1>5, <2>2, ReplaceItems
    <3>2. Len([ordinary EXCEPT ![l] = o]) = Len(ordinary)
      BY <1>0
    <3>3. QED
      BY <2>1, <3>1, <3>2
  <2> HIDE DEF x, l
  <2>4. /\ Handed' = Handed \cup {x}
        /\ \A d, e \in Callers : hand'[d] = hand'[e] /\ hand'[d] # NoOp => d = e
    <3>1. x \notin Handed
      BY <1>5, <2>2
    <3>2. QED
      BY <1>0, <2>1, <2>2, <3>1, OweTakes
  <2>5. PlaceInv'
    <3>1. {x} \in SUBSET (ToSet(critical) \cup ToSet(ordinary))
      BY <2>2
    <3>2. ToSet(critical)' = ToSet(critical) \ {x} /\ Distinct(critical)'
      BY <1>0, <1>5, <2>1, <2>2
    <3>3. QED
      BY <1>3, <1>4, <2>3, <2>4, <3>1, <3>2, EnqueuePlaces
  <2>6. CountInv'
    <3>1. ASSUME NEW p \in Peers PROVE Cardinality(OrdinaryOf(p)') = Cardinality(OrdinaryOf(p))
      <4>1. CASE p = r.peer
        <5>1. /\ OrdinaryOf(p)' = (OrdinaryOf(p) \ {x}) \cup {o}
              /\ x \in OrdinaryOf(p) /\ o \notin OrdinaryOf(p) \ {x}
          BY <1>0, <1>3, <1>5, <2>1, <2>2, <2>3, <4>1 DEF OrdinaryOf, PeerOf
        <5>2. IsFiniteSet(OrdinaryOf(p)) /\ Cardinality(OrdinaryOf(p)) \in Nat
          BY <1>0, OrdinaryFinite
        <5>3. /\ IsFiniteSet(OrdinaryOf(p) \ {x})
              /\ Cardinality(OrdinaryOf(p) \ {x}) = Cardinality(OrdinaryOf(p)) - 1
          BY <5>1, <5>2, FS_RemoveElement
        <5>4. Cardinality((OrdinaryOf(p) \ {x}) \cup {o}) = Cardinality(OrdinaryOf(p) \ {x}) + 1
          BY <5>1, <5>3, FS_AddElement
        <5>5. QED
          BY <5>1, <5>2, <5>3, <5>4
      <4>2. CASE p # r.peer
        <5>1. OrdinaryOf(p)' = OrdinaryOf(p)
          BY <1>0, <1>3, <1>5, <2>1, <2>2, <2>3, <4>2 DEF OrdinaryOf, PeerOf
        <5>2. QED
          BY <5>1
      <4>3. QED
        BY <4>1, <4>2
    <3>2. QED
      BY <2>1, <2>3, <3>1 DEF PlacedInv, CountInv, Queued
  <2>7. QED
    BY <2>5, <2>6
<1>11. CASE EnqueueOrdinary(c, o, r)
  <2>1. CASE OrdinaryFull(r.peer)
    BY <1>7, <1>11, <2>1 DEF EnqueueOrdinary
  <2>2. CASE ~OrdinaryFull(r.peer)
    <3>1. /\ ordinary' = Append(ordinary, o)
          /\ peerCount' = [peerCount EXCEPT ![r.peer] = @ + 1]
          /\ UNCHANGED <<critical, hand>>
      BY <1>11, <2>2 DEF EnqueueOrdinary
    <3>2. /\ ToSet(ordinary)' = ToSet(ordinary) \cup {o} /\ Distinct(ordinary)'
          /\ Len(ordinary') = Len(ordinary) + 1
      <4>1. /\ ToSet(Append(ordinary, o)) = ToSet(ordinary) \cup {o}
            /\ Distinct(Append(ordinary, o))
        BY <1>0, <1>5, AppendItems
      <4>2. Len(Append(ordinary, o)) = Len(ordinary) + 1
        BY <1>0
      <4>3. QED
        BY <3>1, <4>1, <4>2
    <3>3. PlaceInv'
      <4>1. /\ {} \in SUBSET (ToSet(critical) \cup ToSet(ordinary))
            /\ ToSet(critical)' = ToSet(critical) \ {} /\ Distinct(critical)'
            /\ ToSet(ordinary)' = (ToSet(ordinary) \ {}) \cup {o}
        BY <1>0, <3>1, <3>2
      <4>2. /\ Handed' = Handed \cup {}
            /\ \A d, e \in Callers : hand'[d] = hand'[e] /\ hand'[d] # NoOp => d = e
        BY <1>6, <3>1 DEF Handed
      <4>3. QED
        BY <1>3, <1>4, <3>2, <4>1, <4>2, EnqueuePlaces
    <3>4. CountInv'
      <4>1. /\ Len(ordinary) < OrdinaryCapacity /\ Len(critical) + Len(ordinary) < MaxQueued
            /\ peerCount[r.peer] < PerPeerOrdinaryLimit
        <5>1. peerCount[r.peer] \in Nat
          BY <1>0, <1>3 DEF TypeOK
        <5>2. QED
          BY <1>0, <2>2, <5>1, CapacityType DEF OrdinaryFull, Queued
      <4>2. Len(ordinary') <= OrdinaryCapacity /\ Len(critical') + Len(ordinary') <= MaxQueued
        BY <1>0, <3>1, <3>2, <4>1, CapacityType
      <4>3. ASSUME NEW p \in Peers
            PROVE  /\ peerCount'[p] = Cardinality(OrdinaryOf(p)')
                   /\ peerCount'[p] <= PerPeerOrdinaryLimit
        <5>1. /\ peerCount[p] = Cardinality(OrdinaryOf(p)) /\ peerCount[p] <= PerPeerOrdinaryLimit
              /\ peerCount[p] \in Nat /\ peerCount \in [Peers -> Nat]
          BY <1>0 DEF PlacedInv, CountInv, TypeOK
        <5>2. CASE p = r.peer
          <6>1. OrdinaryOf(p)' = OrdinaryOf(p) \cup {o} /\ o \notin OrdinaryOf(p)
            BY <1>0, <1>3, <1>5, <3>2, <5>2 DEF OrdinaryOf, PeerOf
          <6>2. Cardinality(OrdinaryOf(p) \cup {o}) = Cardinality(OrdinaryOf(p)) + 1
            BY <1>0, <6>1, OrdinaryFinite, FS_AddElement
          <6>3. peerCount'[p] = peerCount[p] + 1
            BY <3>1, <5>1, <5>2
          <6>4. QED
            BY <4>1, <5>1, <5>2, <6>1, <6>2, <6>3, CapacityType
        <5>3. CASE p # r.peer
          <6>1. OrdinaryOf(p)' = OrdinaryOf(p)
            BY <1>0, <1>3, <1>5, <3>2, <5>3 DEF OrdinaryOf, PeerOf
          <6>2. peerCount'[p] = peerCount[p]
            BY <3>1, <5>1, <5>3
          <6>3. QED
            BY <5>1, <6>1, <6>2
        <5>4. QED
          BY <5>2, <5>3
      <4>4. QED
        BY <4>2, <4>3 DEF CountInv, Queued
    <3>5. QED
      BY <3>3, <3>4
  <2>3. QED
    BY <2>1, <2>2
<1>12. CASE EnqueueCritical(c, o, r)
  <2>1. /\ critical' = Append(critical, o) /\ UNCHANGED <<ordinary, peerCount, hand>>
        /\ Len(critical) + Len(ordinary) < MaxQueued
    BY <1>12 DEF EnqueueCritical, Queued
  <2>2. /\ ToSet(critical)' = ToSet(critical) \cup {o} /\ Distinct(critical)'
        /\ Len(critical') = Len(critical) + 1
    <3>1. /\ ToSet(Append(critical, o)) = ToSet(critical) \cup {o}
          /\ Distinct(Append(critical, o))
      BY <1>0, <1>5, AppendItems
    <3>2. Len(Append(critical, o)) = Len(critical) + 1
      BY <1>0
    <3>3. QED
      BY <2>1, <3>1, <3>2
  <2>3. PlaceInv'
    <3>1. /\ {} \in SUBSET (ToSet(critical) \cup ToSet(ordinary))
          /\ ToSet(ordinary)' = ToSet(ordinary) \ {} /\ Distinct(ordinary)'
          /\ ToSet(critical)' = (ToSet(critical) \ {}) \cup {o}
      BY <1>0, <2>1, <2>2
    <3>2. /\ Handed' = Handed \cup {}
          /\ \A d, e \in Callers : hand'[d] = hand'[e] /\ hand'[d] # NoOp => d = e
      BY <1>6, <2>1 DEF Handed
    <3>3. QED
      BY <1>3, <1>4, <2>2, <3>1, <3>2, EnqueuePlaces
  <2>4. CountInv'
    <3>1. Len(critical') + Len(ordinary) <= MaxQueued
      BY <1>0, <2>1, <2>2, CapacityType
    <3>2. QED
      BY <1>0, <1>3, <2>1, <3>1, CountKept
  <2>5. QED
    BY <2>3, <2>4
<1>13. CASE EnqueueEvictingOrdinary(c, o, r)
  <2> DEFINE x == Head(ordinary)
  <2>1. /\ ordinary # <<>> /\ Owe(c, x) /\ ordinary' = Tail(ordinary)
        /\ peerCount' = Uncount(PeerOf(x)) /\ critical' = Append(critical, o)
    BY <1>13 DEF EnqueueEvictingOrdinary
  <2>2. /\ ToSet(ordinary)' = ToSet(ordinary) \ {x} /\ x \in ToSet(ordinary) /\ x \in Ops
        /\ Distinct(ordinary)'
    <3>1. /\ ToSet(Tail(ordinary)) = ToSet(ordinary) \ {Head(ordinary)}
          /\ Head(ordinary) \in ToSet(ordinary) /\ Distinct(Tail(ordinary))
      BY <1>0, <2>1, TailItems
    <3>2. QED
      BY <1>0, <2>1, <3>1
  <2>3. Len(ordinary') = Len(ordinary) - 1
    <3>1. Len(Tail(ordinary)) = Len(ordinary) - 1
      BY <1>0, <2>1
    <3>2. QED
      BY <2>1, <3>1
  <2>4. /\ ToSet(critical)' = ToSet(critical) \cup {o} /\ Distinct(critical)'
        /\ Len(critical') = Len(critical) + 1
    <3>1. /\ ToSet(Append(critical, o)) = ToSet(critical) \cup {o}
          /\ Distinct(Append(critical, o))
      BY <1>0, <1>5, AppendItems
    <3>2. Len(Append(critical, o)) = Len(critical) + 1
      BY <1>0
    <3>3. QED
      BY <2>1, <3>1, <3>2
  <2> HIDE DEF x
  <2>5. /\ Handed' = Handed \cup {x}
        /\ \A d, e \in Callers : hand'[d] = hand'[e] /\ hand'[d] # NoOp => d = e
    <3>1. x \notin Handed
      BY <1>5, <2>2
    <3>2. QED
      BY <1>0, <2>1, <2>2, <3>1, OweTakes
  <2>6. PlaceInv'
    <3>1. {x} \in SUBSET (ToSet(critical) \cup ToSet(ordinary))
      BY <2>2
    <3>2. ToSet(critical)' = (ToSet(critical) \ {x}) \cup {o}
      BY <1>5, <2>2, <2>4
    <3>3. QED
      BY <1>3, <1>4, <2>2, <2>4, <2>5, <3>1, <3>2, EnqueuePlaces
  <2>7. CountInv'
    <3>1. Len(ordinary') <= Len(ordinary) /\ Len(critical') + Len(ordinary') <= MaxQueued
      BY <1>0, <2>3, <2>4
    <3>2. \A q \in ToSet(ordinary) : request'[q] = request[q]
      BY <1>3
    <3>3. QED
      BY <1>0, <2>1, <2>2, <3>1, <3>2, CountRemoved
  <2>8. QED
    BY <2>6, <2>7
<1>14. CASE EnqueueEvictingCritical(c, o, r)
  <2>1. CASE ~\E i \in DOMAIN critical : IsVictim(i, r)
    BY <1>7, <1>14, <2>1 DEF EnqueueEvictingCritical
  <2>2. CASE \E i \in DOMAIN critical : IsVictim(i, r)
    <3>1. PICK i \in DOMAIN critical :
              /\ Owe(c, critical[i])
              /\ critical' = Append(RemoveAt(critical, i), o)
              /\ UNCHANGED <<ordinary, peerCount>>
      BY <1>14, <2>2 DEF EnqueueEvictingCritical
    <3>2. i \in 1 .. Len(critical) /\ critical[i] \in ToSet(critical) /\ critical[i] \in Ops
      BY <1>0 DEF ToSet
    <3>3. /\ RemoveAt(critical, i) \in Seq(Ops) /\ Len(RemoveAt(critical, i)) = Len(critical) - 1
          /\ ToSet(RemoveAt(critical, i)) = ToSet(critical) \ {critical[i]}
          /\ Distinct(RemoveAt(critical, i))
      BY <1>0, <3>2, RemoveAtItems
    <3>4. /\ ToSet(critical)' = (ToSet(critical) \ {critical[i]}) \cup {o} /\ Distinct(critical)'
          /\ Len(critical') = Len(critical)
      <4> DEFINE t == RemoveAt(critical, i)
      <4> HIDE DEF t
      <4>1. t \in Seq(Ops) /\ o \notin ToSet(t) /\ Distinct(t)
        BY <1>5, <3>3 DEF t
      <4>2. /\ ToSet(Append(t, o)) = ToSet(t) \cup {o} /\ Distinct(Append(t, o))
            /\ Len(Append(t, o)) = Len(t) + 1
        BY <4>1, AppendItems
      <4>3. QED
        BY <1>0, <3>1, <3>3, <4>2 DEF t
    <3>5. /\ Handed' = Handed \cup {critical[i]}
          /\ \A d, e \in Callers : hand'[d] = hand'[e] /\ hand'[d] # NoOp => d = e
      <4>1. critical[i] \notin Handed
        BY <1>5, <3>2
      <4>2. QED
        BY <1>0, <3>1, <3>2, <4>1, OweTakes
    <3>6. PlaceInv'
      <4>1. {critical[i]} \in SUBSET (ToSet(critical) \cup ToSet(ordinary))
        BY <3>2
      <4>2. ToSet(ordinary)' = ToSet(ordinary) \ {critical[i]} /\ Distinct(ordinary)'
        BY <1>0, <1>5, <3>1, <3>2
      <4>3. QED
        BY <1>3, <1>4, <3>4, <3>5, <4>1, <4>2, EnqueuePlaces
    <3>7. CountInv'
      BY <1>0, <1>3, <3>1, <3>4, CountKept
    <3>8. QED
      BY <3>6, <3>7
  <2>3. QED
    BY <2>1, <2>2
<1>15. QED
  BY <1>1, <1>8, <1>9, <1>10, <1>11, <1>12, <1>13, <1>14

-----------------------------------------------------------------------------
LEMMA CompleteDisplacedPlaced ==
    ASSUME PlacedInv, NEW c \in Callers, CompleteDisplaced(c)
    PROVE  HoldInv' /\ PlaceInv' /\ CountInv'
<1> DEFINE x == hand[c]
<1>1. /\ TypeOK /\ TypeOK' /\ IInv
  BY CompleteDisplacedPreserves DEF PlacedInv, IInv
<1>2. /\ x # NoOp /\ x \in Ops /\ Settle(x) /\ hand' = [hand EXCEPT ![c] = NoOp]
      /\ UNCHANGED <<critical, ordinary, dropped, peerCount, worker>>
  BY <1>1 DEF CompleteDisplaced, TypeOK, workerVars
<1>3. \A d \in Callers : hand'[d] = IF d = c THEN NoOp ELSE hand[d]
  BY <1>1, <1>2 DEF TypeOK
<1> HIDE DEF x
<1>4. \A d, e \in Callers : hand[d] = hand[e] /\ hand[d] # NoOp => d = e
  BY DEF PlacedInv, PlaceInv
<1>5. Handed' = Handed \ {x} /\ x \in Handed
  BY <1>2, <1>3, <1>4 DEF Handed, x
<1>6. /\ completions[x] = 0
      /\ \A q \in Ops : completions'[q] = IF q = x THEN 1 ELSE completions[q]
      /\ \A q \in Ops \ {x} : request'[q] = request[q]
  <2>1. x \in Places
    BY <1>5 DEF Places
  <2>2. completions[x] = 0
    BY <1>2, <2>1 DEF PlacedInv, PlaceInv
  <2>3. QED
    BY <1>1, <1>2, <2>2 DEF TypeOK, Settle
<1>7. Worked' = Worked
  BY <1>2 DEF Worked
<1>8. PlaceInv'
  <2>1. Places' = Places \ {x}
    BY <1>2, <1>5, <1>7 DEF PlacedInv, PlaceInv, Places
  <2>2. \A q \in Ops : completions'[q] = IF q \in Places' THEN 0 ELSE 1
    BY <1>6, <2>1 DEF PlacedInv, PlaceInv
  <2>3. \A d, e \in Callers : hand'[d] = hand'[e] /\ hand'[d] # NoOp => d = e
    BY <1>3, <1>4
  <2>4. UNCHANGED <<ToSet(critical), ToSet(ordinary), ToSet(dropped), Distinct(critical),
                    Distinct(ordinary), Distinct(dropped)>>
    BY <1>2
  <2>5. QED
    BY <1>5, <1>7, <2>2, <2>3, <2>4 DEF PlacedInv, PlaceInv
<1>9. CountInv'
  <2>1. \A q \in ToSet(ordinary) : request'[q] = request[q]
    BY <1>1, <1>5, <1>6, PlacesTyped DEF PlacedInv, PlaceInv
  <2>2. Len(critical') + Len(ordinary) <= MaxQueued
    BY <1>2 DEF PlacedInv, CountInv, Queued
  <2>3. QED
    BY <1>1, <1>2, <2>1, <2>2, CountKept
<1>10. HoldInv'
  BY <1>2 DEF PlacedInv, HoldInv
<1>11. QED
  BY <1>8, <1>9, <1>10

LEMMA StopSectionPlaced ==
    ASSUME PlacedInv, TypeOK', NEW c \in Callers, NEW next, StopSection(c, next)
    PROVE  HoldInv' /\ PlaceInv' /\ CountInv'
<1>1. /\ critical \in Seq(Ops) /\ ordinary \in Seq(Ops) /\ dropped \in Seq(Ops)
      /\ Distinct(critical) /\ Distinct(ordinary) /\ Distinct(dropped)
      /\ ToSet(critical) \cap ToSet(ordinary) = {}
      /\ ToSet(dropped) \cap (ToSet(critical) \cup ToSet(ordinary)) = {}
  BY DEF PlacedInv, PlaceInv, IInv, TypeOK
<1>2. /\ critical' = <<>> /\ ordinary' = <<>> /\ dropped' = dropped \o critical \o ordinary
      /\ peerCount' = [p \in Peers |-> 0]
      /\ UNCHANGED <<worker, hand, completions>>
  BY DEF StopSection, workerVars, envVars
<1>3. /\ ToSet(dropped)' = ToSet(dropped) \cup ToSet(critical) \cup ToSet(ordinary)
      /\ Distinct(dropped)'
  <2> DEFINE u == dropped \o critical
  <2>1. /\ u \in Seq(Ops) /\ ToSet(u) = ToSet(dropped) \cup ToSet(critical) /\ Distinct(u)
    BY <1>1, ConcatItems
  <2> HIDE DEF u
  <2>2. /\ ToSet(u \o ordinary) = ToSet(u) \cup ToSet(ordinary) /\ Distinct(u \o ordinary)
    BY <1>1, <2>1, ConcatItems
  <2>3. dropped' = u \o ordinary
    BY <1>2 DEF u
  <2>4. QED
    BY <2>1, <2>2, <2>3
<1>4. /\ ToSet(critical)' = {} /\ ToSet(ordinary)' = {} /\ Distinct(critical)' /\ Distinct(ordinary)'
      /\ Handed' = Handed /\ Worked' = Worked
  BY <1>2 DEF ToSet, Distinct, Handed, Worked
<1>5. PlaceInv'
  <2>1. Places' = Places
    BY <1>3, <1>4 DEF Places
  <2>2. \A q \in Ops : completions'[q] = IF q \in Places' THEN 0 ELSE 1
    BY <1>2, <2>1 DEF PlacedInv, PlaceInv
  <2>3. \A d, e \in Callers : hand'[d] = hand'[e] /\ hand'[d] # NoOp => d = e
    BY <1>2 DEF PlacedInv, PlaceInv
  <2>4. QED
    BY <1>3, <1>4, <2>2, <2>3 DEF PlacedInv, PlaceInv
<1>6. CountInv'
  <2>1. \A p \in Peers : OrdinaryOf(p)' = {} /\ peerCount'[p] = 0
    BY <1>2, <1>4 DEF OrdinaryOf
  <2>2. \A p \in Peers : /\ peerCount'[p] = Cardinality(OrdinaryOf(p)')
                         /\ peerCount'[p] <= PerPeerOrdinaryLimit
    BY <2>1, CapacityType, FS_EmptySet
  <2>3. Len(critical') = 0 /\ Len(ordinary') = 0
    BY <1>2
  <2>4. Queued' <= MaxQueued /\ Len(ordinary') <= OrdinaryCapacity
    BY <2>3, CapacityType DEF Queued
  <2>5. QED
    BY <2>2, <2>4 DEF CountInv
<1>7. HoldInv'
  BY <1>2 DEF PlacedInv, HoldInv
<1>8. QED
  BY <1>5, <1>6, <1>7

\* The waiting worker takes an item out of one of the queues.
LEMMA TakePlaces ==
    ASSUME PlacedInv, NEW w \in Epochs, worker[w].pc = "wait",
           NEW x \in Ops, NEW pc \in InCallback, NEW verdict, Hold(w, x, pc, verdict),
           UNCHANGED <<hand, completions>>,
           Distinct(critical)', Distinct(ordinary)', Distinct(dropped)',
           \/ /\ x \in ToSet(critical) /\ ToSet(critical)' = ToSet(critical) \ {x}
              /\ UNCHANGED <<ToSet(ordinary), ToSet(dropped)>>
           \/ /\ x \in ToSet(ordinary) /\ ToSet(ordinary)' = ToSet(ordinary) \ {x}
              /\ UNCHANGED <<ToSet(critical), ToSet(dropped)>>
           \/ /\ x \in ToSet(dropped) /\ ToSet(dropped)' = ToSet(dropped) \ {x}
              /\ UNCHANGED <<ToSet(critical), ToSet(ordinary)>>
    PROVE  HoldInv' /\ PlaceInv'
<1>1. /\ worker[w].op = NoOp /\ x # NoOp
      /\ \A v \in Epochs : worker'[v] = IF v = w THEN [pc |-> pc, op |-> x, verdict |-> verdict]
                                                 ELSE worker[v]
  <2>1. DOMAIN worker = Epochs
    BY DEF PlacedInv, IInv, TypeOK
  <2>2. QED
    BY <2>1, ExecutorAssumption DEF PlacedInv, HoldInv, InCallback, Hold
<1>2. HoldInv'
  BY <1>1 DEF PlacedInv, HoldInv
<1>3. Worked' = Worked \cup {x}
  BY <1>1 DEF Worked
<1>4. Handed' = Handed
  BY DEF Handed
<1>5. Places' = Places
  BY <1>3, <1>4 DEF Places
<1>6. \A q \in Ops : completions'[q] = IF q \in Places' THEN 0 ELSE 1
  BY <1>5 DEF PlacedInv, PlaceInv
<1>7. \A d, e \in Callers : hand'[d] = hand'[e] /\ hand'[d] # NoOp => d = e
  BY DEF PlacedInv, PlaceInv
<1>8. PlaceInv'
  BY <1>3, <1>4, <1>6, <1>7 DEF PlacedInv, PlaceInv
<1>9. QED
  BY <1>2, <1>8

LEMMA TakeCriticalPlaced ==
    ASSUME PlacedInv, NEW w \in Epochs, TakeCritical(w)
    PROVE  HoldInv' /\ PlaceInv' /\ CountInv'
<1>1. TypeOK /\ TypeOK' /\ critical \in Seq(Ops) /\ Distinct(critical)
  <2>1. IInv /\ IInv'
    BY TakeCriticalPreserves DEF PlacedInv
  <2>2. QED
    BY <2>1 DEF IInv, TypeOK, PlacedInv, PlaceInv
<1>2. PICK i \in DOMAIN critical :
         /\ worker[w].pc = "wait" /\ Hold(w, critical[i], "check", "Executed")
         /\ critical' = RemoveAt(critical, i)
         /\ UNCHANGED <<ordinary, dropped, request, peerCount, hand, completions>>
  BY DEF TakeCritical, Serve, callVars, envVars
<1>3. i \in 1 .. Len(critical) /\ critical[i] \in ToSet(critical) /\ critical[i] \in Ops
  BY <1>1 DEF ToSet
<1>4. /\ ToSet(critical)' = ToSet(critical) \ {critical[i]} /\ Distinct(critical)'
      /\ Len(critical') = Len(critical) - 1
  BY <1>1, <1>2, <1>3, RemoveAtItems
<1>5. HoldInv' /\ PlaceInv'
  <2>1. /\ UNCHANGED <<ToSet(ordinary), ToSet(dropped)>> /\ "check" \in InCallback
        /\ Distinct(ordinary)' /\ Distinct(dropped)'
    BY <1>2 DEF PlacedInv, PlaceInv, InCallback
  <2>2. QED
    BY <1>2, <1>3, <1>4, <2>1, TakePlaces
<1>6. CountInv'
  <2>1. Len(critical') + Len(ordinary) <= MaxQueued
    <3>1. Len(critical) \in Nat /\ Len(ordinary) \in Nat
      <4>1. critical \in Seq(Ops) /\ ordinary \in Seq(Ops)
        BY <1>1 DEF TypeOK
      <4>2. QED
        BY <4>1
    <3>2. QED
      BY <1>4, <3>1, CapacityType DEF PlacedInv, CountInv, Queued
  <2>2. QED
    BY <1>1, <1>2, <2>1, CountKept
<1>7. QED
  BY <1>5, <1>6

LEMMA TakeOrdinaryPlaced ==
    ASSUME PlacedInv, NEW w \in Epochs, TakeOrdinary(w)
    PROVE  HoldInv' /\ PlaceInv' /\ CountInv'
<1>1. TypeOK /\ TypeOK' /\ ordinary \in Seq(Ops) /\ Distinct(ordinary)
  <2>1. IInv /\ IInv'
    BY TakeOrdinaryPreserves DEF PlacedInv
  <2>2. QED
    BY <2>1 DEF IInv, TypeOK, PlacedInv, PlaceInv
<1>2. PICK i \in DOMAIN ordinary :
         /\ worker[w].pc = "wait" /\ Hold(w, ordinary[i], "check", "Executed")
         /\ ordinary' = RemoveAt(ordinary, i)
         /\ peerCount' = Uncount(PeerOf(ordinary[i]))
         /\ UNCHANGED <<critical, dropped, request, hand, completions>>
  BY DEF TakeOrdinary, Serve, callVars, envVars
<1>3. i \in 1 .. Len(ordinary) /\ ordinary[i] \in ToSet(ordinary) /\ ordinary[i] \in Ops
  BY <1>1 DEF ToSet
<1>4. /\ ToSet(ordinary)' = ToSet(ordinary) \ {ordinary[i]} /\ Distinct(ordinary)'
      /\ Len(ordinary') = Len(ordinary) - 1
  BY <1>1, <1>2, <1>3, RemoveAtItems
<1>5. HoldInv' /\ PlaceInv'
  <2>1. /\ UNCHANGED <<ToSet(critical), ToSet(dropped)>> /\ "check" \in InCallback
        /\ Distinct(critical)' /\ Distinct(dropped)'
    BY <1>2 DEF PlacedInv, PlaceInv, InCallback
  <2>2. QED
    BY <1>2, <1>3, <1>4, <2>1, TakePlaces
<1>6. CountInv'
  <2>1. Len(ordinary') <= Len(ordinary) /\ Len(critical') + Len(ordinary') <= MaxQueued
    <3>1. Len(critical) \in Nat /\ Len(ordinary) \in Nat
      <4>1. critical \in Seq(Ops) /\ ordinary \in Seq(Ops)
        BY <1>1 DEF TypeOK
      <4>2. QED
        BY <4>1
    <3>2. QED
      BY <1>2, <1>4, <3>1, CapacityType DEF PlacedInv, CountInv, Queued
  <2>2. \A q \in ToSet(ordinary) : request'[q] = request[q]
    BY <1>2
  <2>3. QED
    BY <1>1, <1>2, <1>3, <1>4, <2>1, <2>2, CountRemoved
<1>7. QED
  BY <1>5, <1>6

LEMMA TakeDroppedPlaced ==
    ASSUME PlacedInv, NEW w \in Epochs, TakeDropped(w)
    PROVE  HoldInv' /\ PlaceInv' /\ CountInv'
<1>1. TypeOK /\ TypeOK' /\ dropped \in Seq(Ops) /\ Distinct(dropped)
  <2>1. IInv /\ IInv'
    BY TakeDroppedPreserves DEF PlacedInv
  <2>2. QED
    BY <2>1 DEF IInv, TypeOK, PlacedInv, PlaceInv
<1>2. /\ worker[w].pc = "wait" /\ Hold(w, Head(dropped), "complete", "DroppedOnStop")
      /\ dropped # <<>> /\ dropped' = Tail(dropped)
      /\ UNCHANGED <<critical, ordinary, request, peerCount, hand, completions>>
  BY DEF TakeDropped, callVars, envVars
<1>3. /\ ToSet(dropped)' = ToSet(dropped) \ {Head(dropped)} /\ Head(dropped) \in ToSet(dropped)
      /\ Head(dropped) \in Ops /\ Distinct(dropped)'
  <2>1. /\ ToSet(Tail(dropped)) = ToSet(dropped) \ {Head(dropped)}
        /\ Head(dropped) \in ToSet(dropped) /\ Distinct(Tail(dropped))
    BY <1>1, <1>2, TailItems
  <2>2. QED
    BY <1>1, <1>2, <2>1, PlacesTyped
<1>4. HoldInv' /\ PlaceInv'
  <2>1. /\ UNCHANGED <<ToSet(critical), ToSet(ordinary)>> /\ "complete" \in InCallback
        /\ Distinct(critical)' /\ Distinct(ordinary)'
    BY <1>2 DEF PlacedInv, PlaceInv, InCallback
  <2>2. QED
    BY <1>2, <1>3, <2>1, TakePlaces
<1>5. CountInv'
  <2>1. Len(critical') + Len(ordinary) <= MaxQueued
    BY <1>2 DEF PlacedInv, CountInv, Queued
  <2>2. QED
    BY <1>1, <1>2, <2>1, CountKept
<1>6. QED
  BY <1>4, <1>5

LEMMA CompletePlaced ==
    ASSUME PlacedInv, NEW w \in Epochs, Complete(w)
    PROVE  HoldInv' /\ PlaceInv' /\ CountInv'
<1> DEFINE x == worker[w].op
<1>1. TypeOK /\ TypeOK' /\ IInv
  BY CallbackPreserves DEF PlacedInv, IInv, CallbackReturns
<1>2. /\ worker[w].pc = "complete" /\ Settle(x) /\ Hold(w, NoOp, "release", "Executed")
      /\ UNCHANGED <<critical, ordinary, dropped, peerCount, hand>>
  BY DEF Complete, callVars
<1>3. x # NoOp /\ x \in Ops
  BY <1>1, <1>2 DEF PlacedInv, HoldInv, InCallback, TypeOK
<1>4. \A v \in Epochs : v # w => worker[v].op = NoOp
  BY <1>1, <1>2 DEF PlacedInv, HoldInv, IInv, ThreadInv, InCallback
<1>5. \A v \in Epochs : worker'[v] = IF v = w THEN [pc |-> "release", op |-> NoOp,
                                                      verdict |-> "Executed"]
                                               ELSE worker[v]
  <2>1. DOMAIN worker = Epochs
    BY <1>1 DEF TypeOK
  <2>2. QED
    BY <1>2, <2>1 DEF Hold
<1>6. Worked = {x} /\ Worked' = {}
  BY <1>3, <1>4, <1>5 DEF Worked
<1>7. HoldInv'
  BY <1>5 DEF PlacedInv, HoldInv, InCallback
<1> HIDE DEF x
<1>8. /\ completions[x] = 0
      /\ \A q \in Ops : completions'[q] = IF q = x THEN 1 ELSE completions[q]
      /\ \A q \in Ops \ {x} : request'[q] = request[q]
  <2>1. completions[x] = 0
    BY <1>3, <1>6 DEF PlacedInv, PlaceInv, Places
  <2>2. QED
    BY <1>1, <1>2, <1>3, <2>1 DEF TypeOK, Settle
<1>9. PlaceInv'
  <2>1. UNCHANGED <<ToSet(critical), ToSet(ordinary), ToSet(dropped), Distinct(critical),
                    Distinct(ordinary), Distinct(dropped), Handed>>
    BY <1>2 DEF Handed
  <2>2. Places' = Places \ {x}
    BY <1>6, <2>1 DEF PlacedInv, PlaceInv, Places
  <2>3. \A q \in Ops : completions'[q] = IF q \in Places' THEN 0 ELSE 1
    BY <1>8, <2>2 DEF PlacedInv, PlaceInv
  <2>4. \A d, e \in Callers : hand'[d] = hand'[e] /\ hand'[d] # NoOp => d = e
    BY <1>2 DEF PlacedInv, PlaceInv
  <2>5. QED
    BY <1>6, <2>1, <2>3, <2>4 DEF PlacedInv, PlaceInv
<1>10. CountInv'
  <2>1. \A q \in ToSet(ordinary) : request'[q] = request[q]
    BY <1>1, <1>6, <1>8, PlacesTyped DEF PlacedInv, PlaceInv
  <2>2. Len(critical') + Len(ordinary) <= MaxQueued
    BY <1>2 DEF PlacedInv, CountInv, Queued
  <2>3. QED
    BY <1>1, <1>2, <2>1, <2>2, CountKept
<1>11. QED
  BY <1>7, <1>9, <1>10

\* Steps that move no item: of the rest, only the workers' places change.
LEMMA PlacesKept ==
    ASSUME PlacedInv,
           UNCHANGED <<critical, ordinary, dropped, request, peerCount, hand, completions>>,
           \A w \in Epochs : worker'[w].op = worker[w].op,
           HoldInv'
    PROVE  HoldInv' /\ PlaceInv' /\ CountInv'
<1>1. Handed' = Handed /\ Worked' = Worked
  BY DEF Handed, Worked
<1>2. UNCHANGED <<ToSet(critical), ToSet(ordinary), ToSet(dropped), Distinct(critical),
                  Distinct(ordinary), Distinct(dropped)>>
  OBVIOUS
<1>3. Places' = Places
  BY <1>1, <1>2 DEF Places
<1>4. \A q \in Ops : completions'[q] = IF q \in Places' THEN 0 ELSE 1
  BY <1>3 DEF PlacedInv, PlaceInv
<1>5. \A d, e \in Callers : hand'[d] = hand'[e] /\ hand'[d] # NoOp => d = e
  BY DEF PlacedInv, PlaceInv
<1>6. PlaceInv'
  BY <1>1, <1>2, <1>4, <1>5 DEF PlacedInv, PlaceInv
<1>7. \A p \in Peers : OrdinaryOf(p)' = OrdinaryOf(p)
  BY DEF OrdinaryOf, PeerOf
<1>8. CountInv'
  BY <1>7 DEF PlacedInv, CountInv, Queued
<1>9. QED
  BY <1>6, <1>8

LEMMA WorkerMovePlaced ==
    ASSUME PlacedInv, NEW w \in Epochs,
           CheckGeneration(w) \/ RunOperation(w) \/ Exit(w) \/ Release(w)
    PROVE  HoldInv' /\ PlaceInv' /\ CountInv'
<1>1. TypeOK
  BY DEF PlacedInv, IInv
<1>2. /\ UNCHANGED <<critical, ordinary, dropped, request, peerCount, hand, completions>>
      /\ \A v \in Epochs \ {w} : worker'[v] = worker[v]
      /\ worker'[w].op = worker[w].op
      /\ worker[w].pc \in InCallback <=> worker'[w].pc \in InCallback
  <2>1. CASE CheckGeneration(w)
    BY <1>1, <2>1 DEF CheckGeneration, Hold, TypeOK, InCallback, queueVars, callVars, envVars
  <2>2. CASE RunOperation(w)
    BY <1>1, <2>2 DEF RunOperation, Hold, TypeOK, InCallback, queueVars, callVars, envVars
  <2>3. CASE Exit(w)
    BY <1>1, <2>3 DEF Exit, TypeOK, InCallback, queueVars, callVars, envVars
  <2>4. CASE Release(w)
    BY <1>1, <2>4 DEF Release, TypeOK, InCallback, queueVars, callVars, envVars
  <2>5. QED
    BY <2>1, <2>2, <2>3, <2>4
<1>3. HoldInv'
  BY <1>2 DEF PlacedInv, HoldInv
<1>4. QED
  BY <1>2, <1>3, PlacesKept

LEMMA PlacedNext == PlacedInv /\ [Next]_vars => PlacedInv'
<1> SUFFICES ASSUME PlacedInv, [Next]_vars PROVE PlacedInv'
  OBVIOUS
<1>1. IInv /\ IInv' /\ TypeOK /\ TypeOK'
  BY NextPreserves DEF PlacedInv, IInv
<1> SUFFICES HoldInv' /\ PlaceInv' /\ CountInv'
  BY <1>1 DEF PlacedInv
<1>2. ASSUME NEW c \in Callers, Enqueue(c) PROVE HoldInv' /\ PlaceInv' /\ CountInv'
  <2>1. HoldInv'
    BY <1>2 DEF Enqueue, workerVars, PlacedInv, HoldInv
  <2>2. QED
    BY <1>2, <2>1, EnqueuePlaced
<1>3. ASSUME NEW c \in Callers, Stop(c) PROVE HoldInv' /\ PlaceInv' /\ CountInv'
  BY <1>1, <1>3, StopSectionPlaced DEF Stop
<1>4. CASE Destroy
  <2>1. Owner \in Callers
    BY ExecutorAssumption DEF Callers
  <2>2. QED
    BY <1>1, <1>4, <2>1, StopSectionPlaced DEF Destroy
<1>5. ASSUME NEW c \in Callers, Start(c) PROVE HoldInv' /\ PlaceInv' /\ CountInv'
  <2>1. /\ UNCHANGED <<critical, ordinary, dropped, request, peerCount, hand, completions>>
        /\ worker' = [worker EXCEPT ![workerEpoch + 1].pc = "wait"] /\ workerEpoch < MaxEpoch
    BY <1>5 DEF Start, queueVars, callVars, envVars
  <2>2. workerEpoch + 1 \in Epochs /\ workerEpoch + 1 # workerEpoch
    BY <1>1, <2>1, ExecutorAssumption DEF TypeOK, Epochs
  <2>3. worker[workerEpoch + 1].pc = "off"
    BY <1>1, <2>2 DEF IInv, ThreadInv
  <2>4. /\ \A v \in Epochs : worker'[v].op = worker[v].op
        /\ \A v \in Epochs : v # workerEpoch + 1 => worker'[v] = worker[v]
        /\ worker'[workerEpoch + 1].pc = "wait"
    BY <1>1, <2>1, <2>2 DEF TypeOK
  <2>5. HoldInv'
    BY <2>2, <2>3, <2>4 DEF PlacedInv, HoldInv, InCallback
  <2>6. QED
    BY <2>1, <2>4, <2>5, PlacesKept
<1>6. ASSUME NEW c \in Callers, StartFails(c) \/ Finalize(c) \/ Join(c)
      PROVE  HoldInv' /\ PlaceInv' /\ CountInv'
  <2>1. UNCHANGED <<critical, ordinary, dropped, request, peerCount, hand, completions, worker>>
    BY <1>6 DEF StartFails, Finalize, Join, queueVars, callVars, envVars, workerVars
  <2>2. HoldInv'
    BY <2>1 DEF PlacedInv, HoldInv
  <2>3. QED
    BY <2>1, <2>2, PlacesKept
<1>7. ASSUME NEW c \in Callers, CallStep(c) PROVE HoldInv' /\ PlaceInv' /\ CountInv'
  BY <1>6, <1>7, CompleteDisplacedPlaced DEF CallStep
<1>8. CASE Await \/ (\E p \in Peers : ReplaceTransport(p)) \/ UNCHANGED vars
  <2>1. UNCHANGED <<critical, ordinary, dropped, request, peerCount, hand, completions, worker>>
    BY <1>8 DEF Await, ReplaceTransport, vars, queueVars, callVars, envVars, workerVars
  <2>2. HoldInv'
    BY <2>1 DEF PlacedInv, HoldInv
  <2>3. QED
    BY <2>1, <2>2, PlacesKept
<1>9. ASSUME NEW w \in Epochs, WorkerLoop(w) \/ CallbackReturns(w)
      PROVE  HoldInv' /\ PlaceInv' /\ CountInv'
  BY <1>9, TakeCriticalPlaced, TakeOrdinaryPlaced, TakeDroppedPlaced, CompletePlaced,
     WorkerMovePlaced DEF WorkerLoop, CallbackReturns
<1>10. QED
  BY <1>2, <1>3, <1>4, <1>5, <1>6, <1>7, <1>8, <1>9 DEF Next

THEOREM Placed == Spec => []PlacedInv
<1>1. Init => PlacedInv
  BY InitEstablishes, PlacedInit DEF PlacedInv
<1>2. QED
  BY <1>1, PlacedNext, PTL DEF Spec

\* The bounds of enqueue() hold for every bound, and ordinaryQueuedByPeer_, kept
\* by hand on every path into and out of the queue, counts each peer's items.
THEOREM CapacityTheorem == Spec => []CapacityRespected
<1>1. ASSUME PlacedInv PROVE CapacityRespected
  <2>1. ordinary \in Seq(Ops) /\ Distinct(ordinary) /\ ToSet(ordinary) \subseteq Ops
    BY <1>1, PlacesTyped DEF PlacedInv, IInv, TypeOK, PlaceInv
  <2>2. ASSUME NEW p \in Peers
        PROVE  peerCount[p] = Cardinality({i \in DOMAIN ordinary : PeerOf(ordinary[i]) = p})
    <3> DEFINE A == {o \in Ops : PeerOf(o) = p}
    <3>1. {i \in DOMAIN ordinary : PeerOf(ordinary[i]) = p} = {i \in DOMAIN ordinary : ordinary[i] \in A}
      BY <2>1 DEF ToSet
    <3>2. OrdinaryOf(p) = ToSet(ordinary) \cap A
      BY <2>1 DEF OrdinaryOf
    <3> HIDE DEF A
    <3>3. Cardinality({i \in DOMAIN ordinary : ordinary[i] \in A}) = Cardinality(ToSet(ordinary) \cap A)
      BY <2>1, CountItems
    <3>4. QED
      BY <1>1, <3>1, <3>2, <3>3 DEF PlacedInv, CountInv
  <2>3. QED
    BY <1>1, <2>2 DEF PlacedInv, CountInv, CapacityRespected
<1>2. QED
  BY <1>1, Placed, PTL

-----------------------------------------------------------------------------
(***************************************************************************)
(* The policies: what a step may do to the order and to the value of work. *)
(***************************************************************************)
\* A waiting worker begins an item only by taking it from one of the queues.
LEMMA BeginsByTaking ==
    ASSUME PlacedInv, [Next]_vars, NEW w \in Epochs,
           worker[w].pc = "wait", worker'[w].pc = "check"
    PROVE  TakeCritical(w) \/ TakeOrdinary(w)
<1>1. TypeOK
  BY DEF PlacedInv, IInv
<1>2. DOMAIN worker = Epochs /\ worker' # worker
  BY <1>1 DEF TypeOK
<1>3. CASE \E c \in Callers : Enqueue(c) \/ Stop(c) \/ StartFails(c) \/ CallStep(c)
  BY <1>2, <1>3 DEF Enqueue, Stop, StopSection, StartFails, CallStep, CompleteDisplaced,
     Finalize, Join, workerVars
<1>4. CASE \E c \in Callers : Start(c)
  <2>1. worker' = [worker EXCEPT ![workerEpoch + 1].pc = "wait"]
    BY <1>4 DEF Start
  <2>2. worker'[w].pc = "wait"
    BY <1>1, <2>1 DEF TypeOK
  <2>3. QED
    BY <2>2
<1>5. CASE Destroy \/ Await \/ (\E p \in Peers : ReplaceTransport(p)) \/ UNCHANGED vars
  BY <1>2, <1>5 DEF Destroy, StopSection, Await, ReplaceTransport, workerVars, vars
<1>6. ASSUME NEW v \in Epochs, WorkerLoop(v) \/ CallbackReturns(v)
      PROVE  TakeCritical(w) \/ TakeOrdinary(w)
  <2>1. CASE TakeCritical(v) \/ TakeOrdinary(v)
    <3>1. worker[v].pc = "wait"
      BY <2>1 DEF TakeCritical, TakeOrdinary
    <3>2. v = w
      BY <3>1 DEF PlacedInv, IInv, ThreadInv
    <3>3. QED
      BY <2>1, <3>2
  <2>2. CASE TakeDropped(v)
    BY <1>2, <2>2 DEF TakeDropped, Hold
  <2>3. CASE Exit(v)
    BY <1>1, <2>3 DEF Exit, TypeOK
  <2>4. CASE Release(v)
    BY <1>1, <2>4 DEF Release, TypeOK
  <2>5. CASE CheckGeneration(v)
    BY <1>2, <2>5 DEF CheckGeneration, Hold
  <2>6. CASE RunOperation(v)
    BY <1>2, <2>6 DEF RunOperation, Hold
  <2>7. CASE Complete(v)
    BY <1>2, <2>7 DEF Complete, Hold
  <2>8. QED
    BY <1>6, <2>1, <2>2, <2>3, <2>4, <2>5, <2>6, <2>7 DEF WorkerLoop, CallbackReturns
<1>7. QED
  BY <1>3, <1>4, <1>5, <1>6 DEF Next

\* popFairLocked never passes over an earlier item of the peer it serves.
LEMMA FairPickKeepsOrder ==
    ASSUME NEW q \in Seq(Ops), NEW k \in DOMAIN q, IsFairPick(q, k),
           NEW i \in DOMAIN q, i < k
    PROVE  PeerOf(q[i]) # PeerOf(q[k])
<1>1. DOMAIN q = 1 .. Len(q) /\ i \in Nat /\ k \in Nat /\ i >= 1
  OBVIOUS
<1>2. CASE lastServed # NoPeer /\ \E j \in DOMAIN q : PeerOf(q[j]) # lastServed
  BY <1>1, <1>2 DEF IsFairPick
<1>3. CASE ~(lastServed # NoPeer /\ \E j \in DOMAIN q : PeerOf(q[j]) # lastServed)
  BY <1>1, <1>3 DEF IsFairPick
<1>4. QED
  BY <1>2, <1>3

LEMMA PicksInOrder ==
    ASSUME PlacedInv, [Next]_vars, NEW w \in Epochs,
           worker[w].pc = "wait", worker'[w].pc = "check",
           NEW q \in {critical, ordinary}, NEW i \in DOMAIN q, NEW j \in DOMAIN q,
           i < j, worker'[w].op = q[j]
    PROVE  PeerOf(q[i]) # PeerOf(q[j])
<1>1. /\ critical \in Seq(Ops) /\ ordinary \in Seq(Ops) /\ DOMAIN worker = Epochs
      /\ Distinct(critical) /\ Distinct(ordinary)
      /\ ToSet(critical) \cap ToSet(ordinary) = {}
  BY DEF PlacedInv, IInv, TypeOK, PlaceInv
<1>2. CASE TakeCritical(w)
  <2>1. PICK k \in DOMAIN critical : IsFairPick(critical, k) /\ worker'[w].op = critical[k]
    BY <1>1, <1>2 DEF TakeCritical, Serve, Hold
  <2>2. q = critical
    BY <1>1, <2>1 DEF ToSet
  <2>3. j = k
    BY <1>1, <2>1, <2>2 DEF Distinct
  <2>4. QED
    BY <1>1, <2>1, <2>2, <2>3, FairPickKeepsOrder
<1>3. CASE TakeOrdinary(w)
  <2>1. PICK k \in DOMAIN ordinary : IsFairPick(ordinary, k) /\ worker'[w].op = ordinary[k]
    BY <1>1, <1>3 DEF TakeOrdinary, Serve, Hold
  <2>2. q = ordinary
    BY <1>1, <2>1 DEF ToSet
  <2>3. j = k
    BY <1>1, <2>1, <2>2 DEF Distinct
  <2>4. QED
    BY <1>1, <2>1, <2>2, <2>3, FairPickKeepsOrder
<1>4. QED
  BY <1>2, <1>3, BeginsByTaking

\* Operations of one peer and one priority begin in the order enqueue() accepted
\* them, however popFairLocked rotates over the peers and wherever it picks.
THEOREM OrderTheorem == Spec => PerPeerOrder
<1>1. PlacedInv /\ [Next]_vars =>
        [\A w \in Epochs : worker[w].pc = "wait" /\ worker'[w].pc = "check" =>
           \A q \in {critical, ordinary} : \A i, j \in DOMAIN q :
             i < j /\ worker'[w].op = q[j] => PeerOf(q[i]) # PeerOf(q[j])]_vars
  BY PicksInOrder
<1>2. QED
  BY <1>1, Placed, PTL DEF Spec, PerPeerOrder

-----------------------------------------------------------------------------
\* Only enqueue() puts an item in an empty hand: that of its own caller.
LEMMA HandsFilledByEnqueue ==
    ASSUME PlacedInv, [Next]_vars, NEW c \in Callers, hand[c] = NoOp, hand'[c] # NoOp
    PROVE  Enqueue(c)
<1>1. hand \in [Callers -> Ops \cup {NoOp}]
  BY DEF PlacedInv, IInv, TypeOK
<1>2. ASSUME NEW d \in Callers, Enqueue(d) PROVE d = c
  <2>1. PICK o \in Ops, r \in Requests :
           \/ EnqueueInvalid(d, o, r)
           \/ EnqueueStopped(d, o, r)
           \/ EnqueueCoalescedCritical(d, o, r)
           \/ EnqueueCoalescedOrdinary(d, o, r)
           \/ EnqueueOrdinary(d, o, r)
           \/ EnqueueCritical(d, o, r)
           \/ EnqueueEvictingOrdinary(d, o, r)
           \/ EnqueueEvictingCritical(d, o, r)
    BY <1>2 DEF Enqueue
  <2>2. hand' = hand \/ \E x : hand' = [hand EXCEPT ![d] = x]
    BY <2>1 DEF EnqueueInvalid, EnqueueStopped, EnqueueRefused, EnqueueCoalescedCritical,
       EnqueueCoalescedOrdinary, EnqueueOrdinary, EnqueueCritical,
       EnqueueEvictingOrdinary, EnqueueEvictingCritical, Owe
  <2>3. QED
    BY <1>1, <2>2
<1>3. ASSUME NEW d \in Callers, CompleteDisplaced(d) PROVE FALSE
  BY <1>1, <1>3 DEF CompleteDisplaced
<1>4. CASE \E d \in Callers : Stop(d) \/ Start(d) \/ StartFails(d) \/ Finalize(d) \/ Join(d)
  BY <1>4 DEF Stop, StopSection, Start, StartFails, Finalize, Join, callVars
<1>5. CASE Destroy \/ Await \/ (\E p \in Peers : ReplaceTransport(p)) \/ UNCHANGED vars
  BY <1>5 DEF Destroy, StopSection, Await, ReplaceTransport, callVars, vars
<1>6. CASE \E w \in Epochs : WorkerLoop(w) \/ CallbackReturns(w)
  BY <1>6 DEF WorkerLoop, CallbackReturns, TakeCritical, TakeOrdinary, TakeDropped, Exit, Release,
     CheckGeneration, RunOperation, Complete, callVars
<1>7. QED
  BY <1>2, <1>3, <1>4, <1>5, <1>6 DEF Next, CallStep

LEMMA EvictsByValue ==
    ASSUME PlacedInv, [Next]_vars, NEW c \in Callers, NEW i \in DOMAIN critical,
           hand[c] = NoOp, hand'[c] = critical[i]
    PROVE  \E k \in DOMAIN critical' : LET new == critical'[k] IN
              /\ completions[new] = 1
              /\ \/ /\ PeerOf(critical[i]) = request'[new].peer
                    /\ request[critical[i]].key = request'[new].key
                    /\ request'[new].key # NoKey
                 \/ \A j \in DOMAIN critical' :
                       CriticalityOf(critical[i]) <= request'[critical'[j]].criticality
<1>1. /\ critical \in Seq(Ops) /\ ordinary \in Seq(Ops) /\ hand \in [Callers -> Ops \cup {NoOp}]
      /\ request \in [Ops -> Request] /\ Distinct(critical)
      /\ ToSet(critical) \cap ToSet(ordinary) = {} /\ TypeOK
  BY DEF PlacedInv, IInv, TypeOK, PlaceInv
<1>2. critical[i] \in Ops /\ critical[i] \in ToSet(critical) /\ critical[i] # NoOp
  BY <1>1, ExecutorAssumption DEF ToSet
<1>3. PICK o \in Ops, r \in Requests :
         \/ EnqueueInvalid(c, o, r)
         \/ EnqueueStopped(c, o, r)
         \/ EnqueueCoalescedCritical(c, o, r)
         \/ EnqueueCoalescedOrdinary(c, o, r)
         \/ EnqueueOrdinary(c, o, r)
         \/ EnqueueCritical(c, o, r)
         \/ EnqueueEvictingOrdinary(c, o, r)
         \/ EnqueueEvictingCritical(c, o, r)
  BY <1>2, HandsFilledByEnqueue DEF Enqueue
<1>4. Submit(o, r)
  BY <1>3 DEF EnqueueInvalid, EnqueueStopped, EnqueueRefused, EnqueueCoalescedCritical,
       EnqueueCoalescedOrdinary, EnqueueOrdinary, EnqueueCritical,
       EnqueueEvictingOrdinary, EnqueueEvictingCritical
<1>5. /\ o \notin ToSet(critical) /\ request'[o] = r /\ completions[o] = 1
      /\ \A q \in Ops \ {o} : request'[q] = request[q]
      /\ o # critical[i] /\ r \in Request
  BY <1>2, <1>4, SubmittedIsNew, ExecutorAssumption DEF Places, Submit
<1>6. ASSUME NEW x \in Ops, Owe(c, x) PROVE x = critical[i]
  BY <1>1, <1>6 DEF Owe
<1>7. ~EnqueueRefused(c, o, r)
  BY <1>5, <1>6 DEF EnqueueRefused
<1>8. ~(EnqueueOrdinary(c, o, r) \/ EnqueueCritical(c, o, r))
  BY <1>2, <1>7 DEF EnqueueOrdinary, EnqueueCritical
<1>9. ~EnqueueCoalescedOrdinary(c, o, r)
  <2> SUFFICES ASSUME EnqueueCoalescedOrdinary(c, o, r) PROVE FALSE
    OBVIOUS
  <2>1. Owe(c, ordinary[Len(ordinary)]) /\ ordinary # <<>>
    BY DEF EnqueueCoalescedOrdinary, CoalescesOrdinary, Last
  <2>2. ordinary[Len(ordinary)] \in Ops /\ ordinary[Len(ordinary)] \in ToSet(ordinary)
    BY <1>1, <2>1 DEF ToSet
  <2>3. QED
    BY <1>1, <1>2, <1>6, <2>1, <2>2
<1>10. ~EnqueueEvictingOrdinary(c, o, r)
  <2> SUFFICES ASSUME EnqueueEvictingOrdinary(c, o, r) PROVE FALSE
    OBVIOUS
  <2>1. Owe(c, Head(ordinary)) /\ ordinary # <<>>
    BY DEF EnqueueEvictingOrdinary
  <2>2. Head(ordinary) \in Ops /\ Head(ordinary) \in ToSet(ordinary)
    BY <1>1, <2>1 DEF ToSet
  <2>3. QED
    BY <1>1, <1>2, <1>6, <2>1, <2>2
<1>11. CASE EnqueueCoalescedCritical(c, o, r)
  <2>1. PICK k \in DOMAIN critical : /\ SameKey(critical[k], r) /\ Owe(c, critical[k])
                                     /\ critical' = [critical EXCEPT ![k] = o]
    BY <1>11 DEF EnqueueCoalescedCritical
  <2>2. critical[k] = critical[i]
    BY <1>1, <1>6, <2>1
  <2>3. k \in DOMAIN critical' /\ critical'[k] = o
    BY <1>1, <2>1
  <2>4. r.key # NoKey
    BY <1>11 DEF EnqueueCoalescedCritical, CoalescesCritical
  <2>5. /\ PeerOf(critical[i]) = request'[o].peer
        /\ request[critical[i]].key = request'[o].key /\ request'[o].key # NoKey
    BY <1>5, <2>1, <2>2, <2>4 DEF SameKey
  <2>6. QED
    BY <1>5, <2>3, <2>5
<1>12. CASE EnqueueEvictingCritical(c, o, r)
  <2>1. PICK k \in DOMAIN critical : /\ IsVictim(k, r) /\ Owe(c, critical[k])
                                     /\ critical' = Append(RemoveAt(critical, k), o)
    BY <1>7, <1>12 DEF EnqueueEvictingCritical
  <2>2. critical[k] = critical[i] /\ k \in 1 .. Len(critical)
    BY <1>1, <1>6, <2>1
  <2> DEFINE t == RemoveAt(critical, k)
  <2>3. t \in Seq(Ops) /\ ToSet(t) \subseteq ToSet(critical)
    BY <1>1, <2>2, RemoveAtItems
  <2>4. critical' = Append(t, o)
    BY <2>1
  <2> HIDE DEF t
  <2>5. /\ Len(t) + 1 \in DOMAIN critical' /\ critical'[Len(t) + 1] = o
        /\ ToSet(critical') = ToSet(t) \cup {o}
    BY <2>3, <2>4, AppendItems
  <2>6. \A j \in DOMAIN critical : CriticalityOf(critical[i]) <= CriticalityOf(critical[j])
    <3>1. \A x \in Ops : CriticalityOf(x) \in 0 .. 2
      BY <1>1 DEF CriticalityOf, Request, Criticality, Replaceable, Convergent
    <3>2. \A j \in DOMAIN critical : critical[j] \in Ops
      BY <1>1
    <3>3. QED
      BY <2>1, <2>2, <3>1, <3>2 DEF IsVictim
  <2>7. \A x \in ToSet(critical') : CriticalityOf(critical[i]) <= request'[x].criticality
    <3>1. CriticalityOf(critical[i]) <= r.criticality
      BY <2>1, <2>2 DEF IsVictim
    <3>2. \A x \in ToSet(critical) : CriticalityOf(critical[i]) <= request'[x].criticality
      <4>1. \A x \in ToSet(critical) : CriticalityOf(critical[i]) <= CriticalityOf(x)
        BY <2>6 DEF ToSet
      <4>2. \A x \in ToSet(critical) : request'[x] = request[x]
        BY <1>1, <1>5, PlacesTyped
      <4>3. QED
        BY <4>1, <4>2 DEF CriticalityOf
    <3>3. QED
      BY <1>5, <2>3, <2>5, <3>1, <3>2
  <2>8. \A j \in DOMAIN critical' : CriticalityOf(critical[i]) <= request'[critical'[j]].criticality
    BY <2>7 DEF ToSet
  <2>9. QED
    BY <1>5, <2>5, <2>8
<1>13. QED
  BY <1>3, <1>7, <1>8, <1>9, <1>10, <1>11, <1>12 DEF EnqueueInvalid, EnqueueStopped

\* "Newer work may displace an older item of equal or lower value, but never a
\* more valuable one": for every capacity, mix of values and history of the queue.
THEOREM ValueTheorem == Spec => EvictionRespectsValue
<1>1. PlacedInv /\ [Next]_vars =>
        [\A c \in Callers : \A i \in DOMAIN critical :
           hand[c] = NoOp /\ hand'[c] = critical[i] =>
             \E k \in DOMAIN critical' : LET new == critical'[k] IN
                 /\ completions[new] = 1
                 /\ \/ /\ PeerOf(critical[i]) = request'[new].peer
                       /\ request[critical[i]].key = request'[new].key
                       /\ request'[new].key # NoKey
                    \/ \A j \in DOMAIN critical' :
                          CriticalityOf(critical[i]) <= request'[critical'[j]].criticality
        ]_vars
  BY EvictsByValue
<1>2. QED
  BY <1>1, Placed, PTL DEF Spec, EvictionRespectsValue

-----------------------------------------------------------------------------
(***************************************************************************)
(* The refinement: every step is one of the serial executor, or invisible. *)
(***************************************************************************)
Owed   == {o \in Ops : completions[o] = 0}
Active == IF Running = {} THEN NoOp ELSE worker[CHOOSE w \in Running : TRUE].op

LEMMA ActiveIsTheRunningOp ==
    ASSUME PlacedInv
    PROVE  /\ \A w \in Epochs : worker[w].pc = "run" =>
                 Running = {w} /\ Active = worker[w].op /\ Active \in Ops
           /\ (\A w \in Epochs : worker[w].pc # "run") => Active = NoOp
           /\ Active \in Worked \cup {NoOp}
           /\ Owed = Places
<1>1. ASSUME NEW w \in Epochs, worker[w].pc = "run"
      PROVE  Running = {w} /\ Active = worker[w].op /\ Active \in Ops /\ Active \in Worked
  <2>1. Running = {w}
    BY <1>1 DEF PlacedInv, IInv, ThreadInv, Running
  <2>2. (CHOOSE v \in Running : TRUE) = w
    BY <2>1
  <2>3. Active = worker[w].op
    BY <2>1, <2>2 DEF Active
  <2>4. worker[w].op # NoOp /\ worker[w].op \in Ops \cup {NoOp}
    BY <1>1 DEF PlacedInv, HoldInv, InCallback, IInv, TypeOK
  <2>5. QED
    BY <2>1, <2>3, <2>4 DEF Worked
<1>2. (\A w \in Epochs : worker[w].pc # "run") => Active = NoOp
  BY DEF Active, Running
<1>3. Active \in Worked \cup {NoOp}
  BY <1>1, <1>2
<1>4. Owed = Places
  <2>1. Places \subseteq Ops
    BY PlacesTyped DEF PlacedInv, IInv, Places
  <2>2. QED
    BY <2>1 DEF PlacedInv, PlaceInv, Owed
<1>5. QED
  BY <1>1, <1>2, <1>3, <1>4

LEMMA ActiveKept ==
    ASSUME \A w \in Epochs : worker'[w].pc = "run" <=> worker[w].pc = "run",
           \A w \in Epochs : worker[w].pc = "run" => worker'[w].op = worker[w].op
    PROVE  Active' = Active
<1>1. Running' = Running /\ Running \subseteq Epochs
  BY DEF Running
<1>2. CASE Running = {}
  BY <1>1, <1>2 DEF Active
<1>3. CASE Running # {}
  <2>1. (CHOOSE w \in Running : TRUE) \in Running
    BY <1>3
  <2>2. PICK v \in Running : v = (CHOOSE w \in Running : TRUE)
    BY <2>1
  <2>3. worker'[v].op = worker[v].op
    BY <1>1, <2>2 DEF Running
  <2>4. QED
    BY <1>1, <1>3, <2>2, <2>3 DEF Active
<1>4. QED
  BY <1>2, <1>3

LEMMA SerialStep == PlacedInv /\ PlacedInv' /\ [Next]_vars => [Serial!Next]_(Serial!vars)
<1> SUFFICES ASSUME PlacedInv, PlacedInv', [Next]_vars
             PROVE  Serial!Next \/ (Owed' = Owed /\ Active' = Active)
  BY DEF Serial!vars, Owed, Active
<1> USE DEF Serial!Next, Serial!Submit, Serial!Answer, Serial!Begin, Serial!End
<1>1. TypeOK /\ DOMAIN worker = Epochs /\ completions \in [Ops -> Nat]
  BY DEF PlacedInv, IInv, TypeOK
<1>2. ASSUME worker' = worker PROVE Active' = Active
  BY <1>2, ActiveKept
<1>3. ASSUME NEW c \in Callers, Enqueue(c) PROVE Serial!Next
  <2>1. PICK o \in Ops, r \in Requests : Submit(o, r)
    BY <1>3 DEF Enqueue, EnqueueInvalid, EnqueueStopped, EnqueueRefused, EnqueueCoalescedCritical,
       EnqueueCoalescedOrdinary, EnqueueOrdinary, EnqueueCritical,
       EnqueueEvictingOrdinary, EnqueueEvictingCritical
  <2>2. Owed' = Owed \cup {o} /\ o \notin Owed
    BY <1>1, <2>1 DEF Submit, Owed
  <2>3. Active' = Active
    BY <1>2, <1>3 DEF Enqueue, workerVars
  <2>4. QED
    BY <2>2, <2>3 DEF Owed, Active
<1>4. ASSUME NEW c \in Callers, CompleteDisplaced(c) PROVE Serial!Next
  <2>1. hand[c] \in Handed /\ Settle(hand[c]) /\ worker' = worker
    BY <1>4 DEF CompleteDisplaced, Handed, workerVars
  <2>2. hand[c] \in Ops /\ hand[c] \in Owed /\ hand[c] # Active /\ completions[hand[c]] = 0
    <3>1. hand[c] \in Places /\ hand[c] \notin Worked /\ hand[c] # NoOp
      BY <1>4, <2>1 DEF PlacedInv, PlaceInv, Places, CompleteDisplaced
    <3>2. QED
      BY <3>1, ActiveIsTheRunningOp DEF Owed
  <2>3. Owed' = Owed \ {hand[c]}
    BY <1>1, <2>1, <2>2 DEF Settle, Owed
  <2>4. Active' = Active
    BY <1>2, <2>1
  <2>5. QED
    BY <2>2, <2>3, <2>4 DEF Owed, Active
<1>5. CASE \/ \E c \in Callers : Stop(c) \/ StartFails(c) \/ Finalize(c) \/ Join(c)
           \/ Destroy \/ Await \/ (\E p \in Peers : ReplaceTransport(p)) \/ UNCHANGED vars
  <2>1. worker' = worker /\ completions' = completions
    BY <1>5 DEF Stop, StartFails, Finalize, Join, Destroy, StopSection, Await, ReplaceTransport,
       vars, workerVars, envVars
  <2>2. QED
    BY <1>2, <2>1 DEF Owed
<1>6. ASSUME NEW c \in Callers, Start(c) PROVE Owed' = Owed /\ Active' = Active
  <2>1. /\ worker' = [worker EXCEPT ![workerEpoch + 1].pc = "wait"] /\ workerEpoch < MaxEpoch
        /\ completions' = completions
    BY <1>6 DEF Start, envVars
  <2>2. workerEpoch + 1 \in Epochs /\ workerEpoch + 1 # workerEpoch
    <3>1. workerEpoch \in 0 .. MaxEpoch
      BY <1>1 DEF TypeOK
    <3>2. QED
      BY <2>1, <3>1, ExecutorAssumption DEF Epochs
  <2>3. worker[workerEpoch + 1].pc = "off"
    BY <2>2 DEF PlacedInv, IInv, ThreadInv
  <2>4. \A w \in Epochs : IF w = workerEpoch + 1 THEN worker'[w].pc = "wait"
                                                   ELSE worker'[w] = worker[w]
    BY <1>1, <2>1, <2>2 DEF TypeOK
  <2>5. QED
    BY <2>1, <2>3, <2>4, ActiveKept DEF Owed
<1>7. ASSUME NEW w \in Epochs, WorkerLoop(w) PROVE Owed' = Owed /\ Active' = Active
  <2>1. completions' = completions
    BY <1>7 DEF WorkerLoop, TakeCritical, TakeOrdinary, TakeDropped, Exit, Release, envVars
  <2>2. /\ \A v \in Epochs \ {w} : worker'[v] = worker[v]
        /\ worker[w].pc # "run" /\ worker'[w].pc # "run"
    <3>1. CASE TakeCritical(w) \/ TakeOrdinary(w) \/ TakeDropped(w)
      BY <1>1, <3>1 DEF TakeCritical, TakeOrdinary, TakeDropped, Serve, Hold
    <3>2. CASE Exit(w) \/ Release(w)
      BY <1>1, <3>2 DEF Exit, Release, TypeOK
    <3>3. QED
      BY <1>7, <3>1, <3>2 DEF WorkerLoop
  <2>3. QED
    BY <2>1, <2>2, ActiveKept DEF Owed
<1>8. ASSUME NEW w \in Epochs, worker[w].pc \in InCallback
      PROVE  /\ worker[w].op \in Owed /\ worker[w].op \in Ops /\ worker[w].op # NoOp
             /\ worker[w].pc # "run" => Active = NoOp
             /\ \A v \in Epochs \ {w} : worker[v].pc = "off"
  <2>1. \A v \in Epochs \ {w} : worker[v].pc = "off"
    BY <1>8 DEF PlacedInv, IInv, ThreadInv, InCallback
  <2>2. worker[w].op # NoOp /\ worker[w].op \in Ops /\ worker[w].op \in Worked
    BY <1>1, <1>8 DEF PlacedInv, HoldInv, TypeOK, Worked
  <2>3. worker[w].pc # "run" => Active = NoOp
    BY <2>1, ActiveIsTheRunningOp
  <2>4. QED
    BY <2>1, <2>2, <2>3, ActiveIsTheRunningOp DEF Places
<1>9. ASSUME NEW w \in Epochs, CheckGeneration(w) \/ RunOperation(w) \/ Complete(w),
             \A v \in Epochs \ {w} : worker[v].pc = "off"
      PROVE  \A v \in Epochs \ {w} : worker'[v] = worker[v]
  BY <1>1, <1>9 DEF CheckGeneration, RunOperation, Complete, Hold
<1>10. ASSUME NEW w \in Epochs, CheckGeneration(w)
       PROVE  Serial!Next \/ (Owed' = Owed /\ Active' = Active)
  <2>1. worker[w].pc = "check" /\ completions' = completions
    BY <1>10 DEF CheckGeneration, envVars
  <2>2. /\ worker[w].op \in Owed /\ worker[w].op \in Ops /\ Active = NoOp
        /\ \A v \in Epochs \ {w} : worker[v].pc = "off" /\ worker'[v] = worker[v]
    BY <1>8, <1>9, <1>10, <2>1 DEF InCallback
  <2>3. CASE worker'[w].pc = "run"
    <3>1. worker'[w].op = worker[w].op
      BY <1>1, <1>10 DEF CheckGeneration, Hold
    <3>2. Running' = {w}
      BY <2>2, <2>3 DEF Running
    <3>3. (CHOOSE v \in Running' : TRUE) = w
      BY <3>2
    <3>4. Active' = worker[w].op
      BY <3>1, <3>2, <3>3 DEF Active
    <3>5. QED
      BY <2>1, <2>2, <3>4 DEF Owed, Active
  <2>4. CASE worker'[w].pc # "run"
    <3>1. Active' = Active
      BY <2>1, <2>2, <2>4, ActiveKept
    <3>2. QED
      BY <2>1, <3>1 DEF Owed
  <2>5. QED
    BY <2>3, <2>4
<1>11. ASSUME NEW w \in Epochs, RunOperation(w) PROVE Serial!Next
  <2>1. worker[w].pc = "run" /\ completions' = completions /\ worker'[w].pc = "complete"
    BY <1>1, <1>11 DEF RunOperation, envVars, Hold
  <2>2. \A v \in Epochs \ {w} : worker[v].pc = "off" /\ worker'[v] = worker[v]
    BY <1>8, <1>9, <1>11, <2>1 DEF InCallback
  <2>3. Running' = {}
    BY <2>1, <2>2 DEF Running
  <2>4. Active' = NoOp
    BY <2>3 DEF Active
  <2>5. Active = worker[w].op /\ worker[w].op # NoOp
    BY <1>8, <2>1, ActiveIsTheRunningOp DEF InCallback
  <2>6. QED
    BY <2>1, <2>4, <2>5 DEF Owed, Active
<1>12. ASSUME NEW w \in Epochs, Complete(w) PROVE Serial!Next
  <2>1. worker[w].pc = "complete" /\ Settle(worker[w].op) /\ worker'[w].pc = "release"
    BY <1>1, <1>12 DEF Complete, Hold
  <2>2. /\ worker[w].op \in Owed /\ worker[w].op \in Ops /\ worker[w].op # NoOp /\ Active = NoOp
        /\ \A v \in Epochs \ {w} : worker[v].pc = "off" /\ worker'[v] = worker[v]
    BY <1>8, <1>9, <1>12, <2>1 DEF InCallback
  <2>3. Active' = Active
    BY <2>1, <2>2, ActiveKept
  <2>4. Owed' = Owed \ {worker[w].op}
    BY <1>1, <2>1, <2>2 DEF Settle, Owed
  <2>5. QED
    BY <2>2, <2>3, <2>4 DEF Owed, Active
<1>13. QED
  BY <1>3, <1>4, <1>5, <1>6, <1>7, <1>10, <1>11, <1>12 DEF Next, CallStep, CallbackReturns

\* The executor implements its abstraction: each submission is answered exactly
\* once, never while its operation runs, and operations never overlap.
THEOREM SerialTheorem == Spec => ImplementsSerial
<1>1. Init => Serial!Init
  <2> SUFFICES ASSUME Init PROVE Serial!Init
    OBVIOUS
  <2>1. Running = {}
    BY DEF Init, Running
  <2>2. {o \in Ops : completions[o] = 0} = {}
    BY DEF Init
  <2>3. QED
    BY <2>1, <2>2 DEF Serial!Init
<1>2. PlacedInv /\ PlacedInv' /\ [Next]_vars => [Serial!Next]_(Serial!vars)
  BY SerialStep
<1>3. QED
  BY <1>1, <1>2, Placed, PTL DEF Spec, ImplementsSerial, Serial!Spec

\* No completion is lost: a submission that is not answered is in a queue, in the
\* hand of a caller that owes its completion, or with the worker, and in only one
\* of them, through every eviction, rejection, stop, restart and destruction.
THEOREM NothingIsLost ==
    Spec => [](\A o \in Ops : completions[o] = IF o \in Places THEN 0 ELSE 1)
<1>1. PlacedInv => \A o \in Ops : completions[o] = IF o \in Places THEN 0 ELSE 1
  BY DEF PlacedInv, PlaceInv
<1>2. QED
  BY <1>1, Placed, PTL

=============================================================================
