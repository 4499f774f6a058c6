--------------------------- MODULE VideoRecovery ---------------------------
(***************************************************************************)
(* Retransmission of lost video packets: the cache of packets sent, which  *)
(* forgets by number, bytes and age; the requests of the receiver, which   *)
(* name 16-bit sequence numbers that wrap; and the budget of repairs.      *)
(* Reports of the receiver may be handled by several threads at once: two  *)
(* mutexes order the decision to repair and the sending of the repairs.    *)
(*                                                                         *)
(* Packets are numbered from 1 in the order they pass here; a packet's     *)
(* sequence number is its number modulo SeqMod.  Only the parts of a       *)
(* report that ask for repairs or for a keyframe are kept; byte layout,    *)
(* padding and header extensions are left out.                             *)
(***************************************************************************)
EXTENDS Integers, Sequences, FiniteSets, FiniteSetsExt, Functions

CONSTANTS
    Handlers,      \* threads that handle reports of the receiver
    SeqMod,        \* sequence numbers of one stream (2^16)
    MaxCached,     \* packets the cache keeps (4096)
    MaxBytes,      \* bytes it keeps (8 MiB)
    History,       \* how long it keeps a packet (250 to 3000 ms)
    RepairGap,     \* a packet is not repaired twice within it (50 ms)
    Budget,        \* repairBudget_: the bytes of repairs saved up at most
    Refill,        \* bytes the budget regains in one unit of time
    Overhead,      \* what a repair costs above its packet (2)
    KeyframeGap,   \* keyframes the receiver asks for are this far apart (250 ms)
    Answers,       \* what an answer of the receiver may accept
    Reports,       \* the reports it may send
    MaxHeard,      \* bound: reports and answers
    MaxTime        \* bound: units of time

Accepts == [nack : BOOLEAN, pli : BOOLEAN, rtx : BOOLEAN]
ReportFields == [seqs : Seq(0 .. SeqMod - 1), pli : BOOLEAN]

ASSUME CacheAssumption ==
    /\ SeqMod \in Nat /\ MaxCached \in Nat /\ MaxCached < SeqMod
    /\ MaxBytes \in Nat /\ History \in Nat /\ Overhead \in Nat
ASSUME RateAssumption ==
    RepairGap \in Nat /\ Budget \in Nat /\ Refill \in Nat /\ KeyframeGap \in Nat \ {0}
ASSUME ReceiverAssumption ==
    /\ Answers \subseteq Accepts /\ \A a \in Answers : a.rtx => a.nack
    /\ Reports \subseteq ReportFields /\ MaxHeard \in Nat /\ MaxTime \in Nat

VARIABLES
    now,            \* steady_clock
    accepted,       \* nack_, pli_, rtx_
    cached,         \* packets that passed outgoing, cached or forgotten
    cache,          \* cache_ and order_
    tokens,         \* repairTokens_
    refilled,       \* budgetUpdated_, Never before the first report
    rtxSequence,    \* rtxSequence_, from 0
    lastKeyframe,   \* lastRecoveryKeyframe
    handler,        \* what each thread does with its report
    heard,          \* reports and answers of the receiver (bound)
    rtxWire,        \* history: RTX numbers handed to the transport
    keyframes,      \* history: keyframes the application was asked for
    cost,           \* history: bytes of all repairs decided
    costBefore      \* history: those decided for reports before each time

budgetVars == <<tokens, refilled, cost, costBefore>>
cacheVars == <<cached, cache>>
recoveryVars == <<now, accepted, cacheVars, budgetVars, rtxSequence,
                  lastKeyframe, handler, heard, rtxWire, keyframes>>

Never == -1
Times == 0 .. MaxTime
Plain == -1       \* instead of an RTX number: the original packet again
Idle == [at |-> "idle"]

(* Sequence numbers wrap: two packets bear the same one if they are a      *)
(* multiple of SeqMod apart.                                               *)
Same(p, q) == \E k \in (-p - q) .. (p + q) : p - q = k * SeqMod
Bytes(c, ps) == MapThenSumSet(LAMBDA p : c[p].size, ps)

(* order_ is popped at its front until the entries from there on are few   *)
(* enough, small enough and the first of them young enough.                *)
Fits(c, t, first) ==
    LET from == {p \in DOMAIN c : p >= first}
    IN /\ Cardinality(from) <= MaxCached
       /\ Bytes(c, from) <= MaxBytes
       /\ t - c[first].sent <= History

(* The entries of c that stay at time t.                                   *)
Kept(c, t) == {p \in DOMAIN c : \E first \in DOMAIN c : first <= p /\ Fits(c, t, first)}

\* Mutant of Pruned: only the age of an entry counts.
PrunedMutant(c, t) ==
    Restrict(c, {p \in DOMAIN c : t - c[p].sent <= History})

Pruned(c, t) == Restrict(c, Kept(c, t))

(* A mutex is held by whoever is at one of these places.                   *)
Holds(h, places) == handler[h].at \in places
CacheIsFree == \A h \in Handlers : ~Holds(h, {"repair"})

\* Mutant of MaySendRepairs: the cache lock is the only one.
MaySendRepairsMutant == CacheIsFree

(* repairSendMutex_ is free.                                               *)
MaySendRepairs == \A h \in Handlers : ~Holds(h, {"repair", "send"})

---------------------------------------------------------------------------
RecoveryInit ==
    /\ now = 0
    /\ accepted = [nack |-> FALSE, pli |-> FALSE, rtx |-> FALSE]
    /\ cached = 0
    /\ cache = [p \in {} |-> {}]
    /\ tokens = 0 /\ refilled = Never
    /\ cost = 0 /\ costBefore = [t \in Times |-> 0]
    /\ rtxSequence = 0 /\ rtxWire = <<>>
    /\ lastKeyframe = -KeyframeGap /\ keyframes = 0
    /\ handler = [h \in Handlers |-> Idle]
    /\ heard = 0

Hear == heard < MaxHeard /\ heard' = heard + 1

(* An answer is applied: the four flags of negotiate.                      *)
Negotiate ==
    /\ Hear
    /\ accepted' \in Answers
    /\ UNCHANGED <<now, cacheVars, budgetVars, rtxSequence, lastKeyframe,
                   handler, rtxWire, keyframes>>

(* outgoing, for one packet: a sequence number that is still cached is     *)
(* not cached again.                                                       *)
CachePacket(size) ==
    LET p == cached + 1
        old == Pruned(cache, now)
        fresh == [q \in DOMAIN old \cup {p} |->
                    IF q = p THEN [size |-> size, sent |-> now, repaired |-> Never]
                             ELSE old[q]]
    IN /\ CacheIsFree
       /\ cached' = p
       /\ cache' = IF \E q \in DOMAIN old : Same(q, p) THEN old
                   ELSE Pruned(fresh, now)
       /\ UNCHANGED <<now, accepted, budgetVars, rtxSequence, lastKeyframe,
                      handler, heard, rtxWire, keyframes>>

---------------------------------------------------------------------------
(* A report comes in.                                                      *)

Goes(h, task) == handler' = [handler EXCEPT ![h] = task]

(* Requests first, then their repairs, then the mutexes are free.          *)
GoesOn(h, task) ==
    Goes(h, IF task.seqs # <<>> THEN [task EXCEPT !.at = "repair"]
            ELSE IF task.repairs # <<>> THEN [task EXCEPT !.at = "send"]
            ELSE Idle)

Report(h, r) ==
    /\ handler[h] = Idle
    /\ Hear
    /\ Goes(h, [at |-> IF r.pli THEN "pli" ELSE "nack", seqs |-> r.seqs])
    /\ UNCHANGED <<now, accepted, cacheVars, budgetVars, rtxSequence,
                   lastKeyframe, rtxWire, keyframes>>

(* The PLI handler comes first in the chain: the flag, then the clock and  *)
(* the time of the last keyframe, then the exchange.                       *)
ReadKeyframeTime(h) ==
    /\ handler[h].at = "pli"
    /\ IF accepted.pli /\ now - lastKeyframe >= KeyframeGap
       THEN Goes(h, [at |-> "exchange", seqs |-> handler[h].seqs,
                     time |-> now, previous |-> lastKeyframe])
       ELSE Goes(h, [at |-> "nack", seqs |-> handler[h].seqs])
    /\ UNCHANGED <<now, accepted, cacheVars, budgetVars, rtxSequence,
                   lastKeyframe, heard, rtxWire, keyframes>>

\* Mutant of WinsExchange: a store instead of a compare and exchange.
WinsExchangeMutant(h) == TRUE

WinsExchange(h) == lastKeyframe = handler[h].previous

AskForKeyframe(h) ==
    /\ handler[h].at = "exchange"
    /\ IF WinsExchange(h)
       THEN lastKeyframe' = handler[h].time /\ keyframes' = keyframes + 1
       ELSE UNCHANGED <<lastKeyframe, keyframes>>
    /\ Goes(h, [at |-> "nack", seqs |-> handler[h].seqs])
    /\ UNCHANGED <<now, accepted, cacheVars, budgetVars, rtxSequence,
                   heard, rtxWire>>

\* Mutant of Refilled: what is saved up has no limit.
RefilledMutant == IF refilled = Never THEN Budget
                  ELSE tokens + (now - refilled) * Refill

Refilled ==
    IF refilled = Never THEN Budget
    ELSE Min({Budget, tokens + (now - refilled) * Refill})

(* incoming takes repairSendMutex_, then mutex_, prunes and refills.       *)
TakeRequests(h) ==
    /\ handler[h].at = "nack"
    /\ IF accepted.nack
       THEN /\ MaySendRepairs /\ CacheIsFree
            /\ GoesOn(h, [at |-> "repair", seqs |-> handler[h].seqs,
                          time |-> now, repairs |-> <<>>])
            /\ cache' = Pruned(cache, now)
            /\ tokens' = Refilled /\ refilled' = now
            /\ costBefore' = [t \in Times |-> IF t > refilled THEN cost
                                              ELSE costBefore[t]]
            /\ UNCHANGED cost
       ELSE Goes(h, Idle) /\ UNCHANGED <<cache, budgetVars>>
    /\ UNCHANGED <<now, accepted, cached, rtxSequence, lastKeyframe,
                   heard, rtxWire, keyframes>>

(* The packet a requested sequence number finds; 0 for a missed one.       *)
Found(seq) ==
    IF \E p \in DOMAIN cache : Same(p, seq)
    THEN CHOOSE p \in DOMAIN cache : Same(p, seq)
    ELSE 0

MayRepair(p, t) ==
    /\ p \in DOMAIN cache
    /\ cache[p].repaired = Never \/ t - cache[p].repaired >= RepairGap
    /\ cache[p].size + Overhead <= tokens

(* One requested number is looked up, under both mutexes.                  *)
Repair(h) ==
    LET task == handler[h]
        p == Found(Head(task.seqs))
        rest == [task EXCEPT !.seqs = Tail(@)]
        price == cache[p].size + Overhead
    IN /\ task.at = "repair"
       /\ \/ /\ ~MayRepair(p, task.time)
             /\ GoesOn(h, rest)
             /\ UNCHANGED <<cache, tokens, cost, rtxSequence>>
          \/ /\ MayRepair(p, task.time)
             /\ cache' = [cache EXCEPT ![p].repaired = task.time]
             /\ tokens' = tokens - price /\ cost' = cost + price
             /\ IF accepted.rtx
                THEN /\ GoesOn(h, [rest EXCEPT !.repairs =
                                    Append(@, [packet |-> p, rtx |-> rtxSequence])])
                     /\ rtxSequence' = rtxSequence + 1
                ELSE /\ GoesOn(h, [rest EXCEPT !.repairs =
                                    Append(@, [packet |-> p, rtx |-> Plain])])
                     /\ UNCHANGED rtxSequence
       /\ UNCHANGED <<now, accepted, cached, refilled, costBefore, lastKeyframe,
                      heard, rtxWire, keyframes>>

(* The repairs go to the transport one by one, with the cache free.        *)
SendRepair(h) ==
    LET task == handler[h]
        repair == Head(task.repairs)
    IN /\ task.at = "send"
       /\ GoesOn(h, [task EXCEPT !.repairs = Tail(@)])
       /\ rtxWire' = IF repair.rtx = Plain THEN rtxWire
                     ELSE Append(rtxWire, repair.rtx)
       /\ UNCHANGED <<now, accepted, cacheVars, budgetVars, rtxSequence,
                      lastKeyframe, heard, keyframes>>

HandleReport(h) ==
    \/ ReadKeyframeTime(h) \/ AskForKeyframe(h)
    \/ TakeRequests(h) \/ Repair(h) \/ SendRepair(h)

Tick ==
    /\ now < MaxTime /\ now' = now + 1
    /\ UNCHANGED <<accepted, cacheVars, budgetVars, rtxSequence, lastKeyframe,
                   handler, heard, rtxWire, keyframes>>

---------------------------------------------------------------------------
(* Properties.                                                             *)

(* A sequence number names one packet of the cache, and the newest that    *)
(* bears it: after the numbers wrap, a request is never answered with an   *)
(* older packet of the same number (video_recovery.h 97, 181).             *)
CacheHoldsTheNewest ==
    \A p \in DOMAIN cache, q \in 1 .. cached : Same(p, q) => q <= p

(* Whatever the receiver asks for, in whatever order, the repairs decided  *)
(* since any moment cost no more than one full budget and what it regained *)
(* since (repairBudget_, video_recovery.h 108 to 116).                     *)
RepairRateBounded ==
    \A t \in 0 .. refilled :
        cost - costBefore[t] <= Budget + (refilled - t) * Refill

(* RTX packets reach the transport in the order of their sequence numbers  *)
(* and none is missing: the receiver's replay window would refuse one that *)
(* overtook others (repairSendMutex_, video_recovery.h 104).               *)
RtxInOrder == \A i \in DOMAIN rtxWire : rtxWire[i] = i - 1

(* Two keyframes asked for by picture loss are a gap apart, also when two  *)
(* reports are handled at once (webrtc_client.cpp 765).                    *)
KeyframesAreThrottled ==
    [][keyframes' # keyframes => lastKeyframe' - lastKeyframe >= KeyframeGap]_recoveryVars
=============================================================================
