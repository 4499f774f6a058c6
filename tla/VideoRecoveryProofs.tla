------------------------ MODULE VideoRecoveryProofs ------------------------
(***************************************************************************)
(* What VideoRecovery promises for every size of the cache, every budget   *)
(* and every receiver, proved of the whole transport (MediaTransport).     *)
(*                                                                         *)
(* The cache is a run of the newest packets, shorter than the sequence     *)
(* numbers are many (CacheInv); what may still be spent plus what was      *)
(* spent since a moment is bounded (RateInv).  At most one thread is at    *)
(* its repairs, and the RTX numbers drawn and not yet sent are those it    *)
(* holds, in order (RtxInv).  The packets the pacer accepted are on the    *)
(* wire, in the hands of its thread or in its queue (PacingInv).           *)
(***************************************************************************)
EXTENDS MediaTransport, FiniteSetTheorems, TLAPS

USE DEF Never, Plain

---------------------------------------------------------------------------
(* The inductive invariant.                                                *)

(* Every packet after a cached one is cached, and all fit.                 *)
CacheInv ==
    /\ cached \in Nat
    /\ DOMAIN cache \subseteq 1 .. cached
    /\ \A p \in DOMAIN cache : p .. cached \subseteq DOMAIN cache
                               /\ cached - p < MaxCached

EntriesInv == \A p \in DOMAIN cache : cache[p].size \in Nat

SenderInv ==
    sender.at = "cache" =>
        /\ sender = [at |-> "cache", first |-> sender.first,
                     sizes |-> sender.sizes, left |-> sender.left]
        /\ sender.left \in Seq(Nat) \ {<<>>}

(* A later report finds at most what is left of the budget.                *)
RateInv ==
    /\ now \in Times /\ refilled \in -1 .. now
    /\ tokens \in 0 .. Budget /\ cost \in Nat /\ costBefore \in [Times -> Nat]
    /\ \A t \in 0 .. refilled :
          cost + tokens <= costBefore[t] + Budget + (refilled - t) * Refill

IInv == CacheInv /\ EntriesInv /\ SenderInv /\ RateInv

---------------------------------------------------------------------------
(* Two packets less than SeqMod apart have different sequence numbers.     *)
LEMMA NumbersDiffer ==
    ASSUME NEW p \in Nat, NEW q \in Nat, p < q, q - p < SeqMod
    PROVE  ~Same(p, q) /\ ~Same(q, p)
<1>1. SeqMod \in Nat \ {0} BY CacheAssumption
<1>2. ASSUME NEW k \in Int, q - p = k * SeqMod PROVE FALSE
  <2>1. CASE k <= 0 BY <1>1, <1>2, <2>1, SMT
  <2>2. CASE k >= 1 BY <1>1, <1>2, <2>2, SMT
  <2> QED BY <2>1, <2>2
<1>3. ASSUME NEW k \in Int, p - q = k * SeqMod PROVE FALSE
  <2>1. -k \in Int /\ q - p = (-k) * SeqMod BY <1>1, <1>3, SMT
  <2> QED BY <2>1, <1>2
<1>4. (-p - q) .. (p + q) \subseteq Int /\ (-q - p) .. (q + p) \subseteq Int
  OBVIOUS
<1> QED BY <1>2, <1>3, <1>4 DEF Same

(* What pruning leaves of a run of packets.                                *)
LEMMA PrunedIsARun ==
    ASSUME NEW c, NEW t, NEW n \in Nat,
           DOMAIN c \subseteq 1 .. n,
           \A p \in DOMAIN c : p .. n \subseteq DOMAIN c
    PROVE  /\ DOMAIN Pruned(c, t) \subseteq DOMAIN c
           /\ \A p \in DOMAIN Pruned(c, t) :
                 /\ Pruned(c, t)[p] = c[p]
                 /\ p .. n \subseteq DOMAIN Pruned(c, t)
                 /\ n - p < MaxCached
<1>1. DOMAIN Pruned(c, t) = Kept(c, t) /\ Kept(c, t) \subseteq DOMAIN c
  BY DEF Pruned, Restrict, Kept
<1>2. ASSUME NEW p \in Kept(c, t)
      PROVE  Pruned(c, t)[p] = c[p] /\ p .. n \subseteq Kept(c, t) /\ n - p < MaxCached
  <2>1. PICK first \in DOMAIN c : first <= p /\ Fits(c, t, first)
    BY DEF Kept
  <2>2. first \in Nat /\ p \in Nat /\ p \in DOMAIN c /\ p <= n /\ first <= n
    BY <2>1, <1>1
  <2>3. p .. n \subseteq Kept(c, t)
    <3> SUFFICES ASSUME NEW q \in p .. n PROVE q \in Kept(c, t)
      OBVIOUS
    <3>1. q \in DOMAIN c /\ first <= q BY <2>1, <2>2
    <3> QED BY <3>1, <2>1 DEF Kept
  <2>4. {q \in DOMAIN c : q >= first} = first .. n
    BY <2>2
  <2>5. Cardinality(first .. n) = n - first + 1
    BY <2>2, FS_Interval
  <2>6. n - first + 1 <= MaxCached
    BY <2>1, <2>4, <2>5 DEF Fits
  <2>7. n - p < MaxCached BY <2>1, <2>2, <2>6, CacheAssumption
  <2>8. Pruned(c, t)[p] = c[p] BY DEF Pruned, Restrict
  <2> QED BY <2>3, <2>7, <2>8
<1> QED BY <1>1, <1>2

---------------------------------------------------------------------------
(* The cache.                                                              *)

LEMMA PrunedKeepsCache ==
    ASSUME CacheInv, EntriesInv, NEW t
    PROVE  LET c == Pruned(cache, t)
           IN /\ DOMAIN c \subseteq 1 .. cached
              /\ \A p \in DOMAIN c : p .. cached \subseteq DOMAIN c
                                     /\ cached - p < MaxCached
                                     /\ c[p].size \in Nat
<1>1. cached \in Nat /\ DOMAIN cache \subseteq 1 .. cached
      /\ \A p \in DOMAIN cache : p .. cached \subseteq DOMAIN cache
  BY DEF CacheInv
<1> DEFINE c == Pruned(cache, t)
<1>2. /\ DOMAIN c \subseteq DOMAIN cache
      /\ \A p \in DOMAIN c : c[p] = cache[p] /\ p .. cached \subseteq DOMAIN c
                             /\ cached - p < MaxCached
  BY <1>1, PrunedIsARun
<1> HIDE DEF c
<1>3. \A p \in DOMAIN c : c[p].size \in Nat BY <1>2 DEF EntriesInv
<1> QED BY <1>1, <1>2, <1>3 DEF c

(* A packet that enters a run shorter than SeqMod finds its number free.   *)
LEMMA CachePacketKeepsCache ==
    ASSUME CacheInv, EntriesInv, NEW size \in Nat, CachePacket(size)
    PROVE  CacheInv' /\ EntriesInv'
<1> DEFINE n == cached + 1
           old == Pruned(cache, now)
           fresh == [q \in DOMAIN old \cup {n} |->
                       IF q = n THEN [size |-> size, sent |-> now, repaired |-> Never]
                                ELSE old[q]]
           new == Pruned(fresh, now)
<1>1. /\ cached \in Nat /\ n \in Nat /\ cached' = n
      /\ DOMAIN old \subseteq 1 .. cached
      /\ \A p \in DOMAIN old : p .. cached \subseteq DOMAIN old
                               /\ cached - p < MaxCached /\ old[p].size \in Nat
  BY PrunedKeepsCache DEF CacheInv, CachePacket
<1>2. \A q \in DOMAIN old : ~Same(q, n)
  <2> SUFFICES ASSUME NEW q \in DOMAIN old PROVE ~Same(q, n)
    OBVIOUS
  <2>1. q \in Nat /\ q < n /\ n - q < SeqMod BY <1>1, CacheAssumption
  <2> QED BY <2>1, <1>1, NumbersDiffer
<1>3. cache' = new BY <1>2 DEF CachePacket
<1> HIDE DEF old
<1>4. /\ DOMAIN fresh = DOMAIN old \cup {n}
      /\ DOMAIN fresh \subseteq 1 .. n
      /\ \A p \in DOMAIN fresh : p .. n \subseteq DOMAIN fresh
      /\ \A p \in DOMAIN fresh : fresh[p].size \in Nat
  <2>1. DOMAIN fresh = DOMAIN old \cup {n} OBVIOUS
  <2>2. DOMAIN fresh \subseteq 1 .. n BY <1>1, <2>1
  <2>3. ASSUME NEW p \in DOMAIN fresh PROVE p .. n \subseteq DOMAIN fresh
    <3> SUFFICES ASSUME NEW q \in p .. n PROVE q \in DOMAIN old \cup {n}
      BY <2>1
    <3>1. CASE p = n BY <3>1, <1>1
    <3>2. CASE p \in DOMAIN old /\ q # n
      <4>1. q \in p .. cached BY <1>1, <3>2
      <4> QED BY <4>1, <1>1, <3>2
    <3> QED BY <3>1, <3>2, <2>1
  <2>4. ASSUME NEW p \in DOMAIN fresh PROVE fresh[p].size \in Nat
    <3>1. CASE p = n BY <3>1
    <3>2. CASE p # n
      <4>1. p \in DOMAIN old /\ fresh[p] = old[p] BY <3>2, <2>1
      <4> QED BY <4>1, <1>1
    <3> QED BY <3>1, <3>2
  <2> QED BY <2>1, <2>2, <2>3, <2>4
<1> HIDE DEF fresh
<1>5. /\ DOMAIN new \subseteq DOMAIN fresh
      /\ \A p \in DOMAIN new : new[p] = fresh[p] /\ p .. n \subseteq DOMAIN new
                               /\ n - p < MaxCached
  BY <1>1, <1>4, PrunedIsARun
<1> HIDE DEF new
<1>6. CacheInv' BY <1>1, <1>3, <1>4, <1>5 DEF CacheInv
<1>7. EntriesInv' BY <1>3, <1>4, <1>5 DEF EntriesInv
<1> QED BY <1>6, <1>7

(* Repairing an entry changes neither which packets are cached nor sizes.  *)
LEMMA RepairKeepsCache ==
    ASSUME CacheInv, EntriesInv, NEW h \in Handlers, Repair(h)
    PROVE  CacheInv' /\ EntriesInv'
<1>1. cached' = cached BY DEF Repair
<1>2. DOMAIN cache' = DOMAIN cache
      /\ \A p \in DOMAIN cache : cache'[p].size = cache[p].size
  <2> DEFINE p == Found(Head(handler[h].seqs))
  <2>1. \/ cache' = cache
        \/ p \in DOMAIN cache
           /\ cache' = [cache EXCEPT ![p].repaired = handler[h].time]
    BY DEF Repair, MayRepair
  <2> HIDE DEF p
  <2>2. CASE cache' = cache BY <2>2
  <2>3. CASE p \in DOMAIN cache
             /\ cache' = [cache EXCEPT ![p].repaired = handler[h].time]
    BY <2>3
  <2> QED BY <2>1, <2>2, <2>3
<1> QED BY <1>1, <1>2 DEF CacheInv, EntriesInv

---------------------------------------------------------------------------
(* The budget.                                                             *)

LEMMA Products ==
    ASSUME NEW a \in Int, NEW b \in Int
    PROVE  /\ a * Refill \in Int
           /\ (a + b) * Refill = a * Refill + b * Refill
           /\ (a >= 0 => a * Refill >= 0)
BY RateAssumption, SMT

LEMMA TakeRequestsKeepsRate ==
    ASSUME RateInv, NEW h \in Handlers, TakeRequests(h)
    PROVE  RateInv'
<1>1. /\ now \in Nat /\ now <= MaxTime /\ MaxTime \in Nat /\ now' = now
      /\ refilled \in Int /\ -1 <= refilled /\ refilled <= now
      /\ tokens \in Nat /\ tokens <= Budget /\ Budget \in Nat
      /\ cost \in Nat /\ costBefore \in [Times -> Nat] /\ cost' = cost
  BY RateAssumption, ReceiverAssumption DEF RateInv, Times, TakeRequests, budgetVars
<1>2. CASE accepted.nack
  <2>1. /\ tokens' = Refilled /\ refilled' = now
        /\ costBefore' = [t \in Times |-> IF t > refilled THEN cost ELSE costBefore[t]]
    BY <1>2 DEF TakeRequests
  <2> DEFINE gain == (now - refilled) * Refill
  <2>2. gain \in Nat
    BY <1>1, Products
  <2> HIDE DEF gain
  <2>3. /\ tokens' \in 0 .. Budget
        /\ refilled # Never => tokens' <= tokens + gain
    <3>1. CASE refilled = Never BY <3>1, <2>1, <1>1 DEF Refilled
    <3>2. CASE refilled # Never
      <4>1. tokens' = Min({Budget, tokens + gain}) BY <3>2, <2>1 DEF Refilled, gain
      <4>2. ASSUME NEW a \in Nat, NEW b \in Nat
            PROVE  Min({a, b}) = IF a <= b THEN a ELSE b
        <5> DEFINE m == IF a <= b THEN a ELSE b
        <5>1. m \in {a, b} /\ \A y \in {a, b} : m <= y BY <4>2
        <5>2. \A x \in {a, b} : (\A y \in {a, b} : x <= y) => x = m BY <4>2
        <5> HIDE DEF m
        <5>3. Min({a, b}) = m BY <5>1, <5>2, Zenon DEF Min
        <5> QED BY <5>3 DEF m
      <4>3. tokens' = IF Budget <= tokens + gain THEN Budget ELSE tokens + gain
        BY <4>1, <4>2, <1>1, <2>2
      <4> QED BY <4>3, <1>1, <2>2
    <3> QED BY <3>1, <3>2
  <2>4. costBefore' \in [Times -> Nat] BY <1>1, <2>1
  <2>5. ASSUME NEW t \in 0 .. now
        PROVE  cost + tokens' <= costBefore'[t] + Budget + (now - t) * Refill
    <3>1. t \in Times /\ t \in Nat BY <1>1 DEF Times
    <3>2. costBefore[t] \in Nat BY <1>1, <3>1
    <3>3. CASE t > refilled
      <4>1. costBefore'[t] = cost BY <3>1, <3>3, <2>1
      <4>2. (now - t) * Refill \in Nat
        <5>1. now - t \in Int /\ now - t >= 0 BY <1>1, <3>1
        <5> QED BY <5>1, Products
      <4> QED BY <4>1, <4>2, <2>3, <1>1
    <3>4. CASE t <= refilled
      <4>1. costBefore'[t] = costBefore[t] BY <3>1, <3>4, <1>1, <2>1
      <4>2. cost + tokens <= costBefore[t] + Budget + (refilled - t) * Refill
        BY <1>1, <3>1, <3>4 DEF RateInv
      <4>3. /\ (now - t) * Refill = gain + (refilled - t) * Refill
            /\ (refilled - t) * Refill \in Int
        <5>1. now - t = (now - refilled) + (refilled - t)
              /\ now - refilled \in Int /\ refilled - t \in Int
          BY <1>1, <3>1
        <5> QED BY <5>1, Products DEF gain
      <4>4. tokens' <= tokens + gain /\ tokens' \in Nat
        BY <1>1, <3>1, <3>4, <2>3
      <4> DEFINE x == (refilled - t) * Refill  y == (now - t) * Refill
      <4>5. x \in Int /\ y = gain + x /\ cost + tokens <= costBefore[t] + Budget + x
        BY <4>2, <4>3
      <4> HIDE DEF x, y
      <4>6. cost + tokens' <= costBefore[t] + Budget + y
        BY <4>5, <4>4, <1>1, <2>2, <3>2
      <4> QED BY <4>6, <4>1 DEF y
    <3> QED BY <3>1, <3>3, <3>4, <1>1
  <2>6. now' \in Times /\ refilled' \in -1 .. now' BY <1>1, <2>1 DEF Times
  <2> QED BY <1>1, <2>1, <2>3, <2>4, <2>5, <2>6 DEF RateInv
<1>3. CASE ~accepted.nack
  <2>1. UNCHANGED budgetVars /\ now' = now BY <1>3 DEF TakeRequests
  <2> QED BY <2>1 DEF RateInv, budgetVars
<1> QED BY <1>2, <1>3

LEMMA RepairKeepsRate ==
    ASSUME RateInv, EntriesInv, NEW h \in Handlers, Repair(h)
    PROVE  RateInv'
<1> DEFINE p == Found(Head(handler[h].seqs))
           price == cache[p].size + Overhead
<1>1. now' = now /\ refilled' = refilled /\ costBefore' = costBefore
  BY DEF Repair
<1>2. CASE tokens' = tokens /\ cost' = cost
  BY <1>1, <1>2 DEF RateInv
<1>3. CASE p \in DOMAIN cache /\ price <= tokens
           /\ tokens' = tokens - price /\ cost' = cost + price
  <2>1. price \in Nat BY <1>3, CacheAssumption DEF EntriesInv
  <2> HIDE DEF price
  <2>2. tokens \in Nat /\ tokens <= Budget /\ Budget \in Nat /\ cost \in Nat
    BY RateAssumption DEF RateInv
  <2>3. /\ tokens' \in 0 .. Budget /\ cost' \in Nat
        /\ cost' + tokens' = cost + tokens
    BY <2>1, <2>2, <1>3
  <2> QED BY <2>3, <1>1 DEF RateInv
<1>4. \/ tokens' = tokens /\ cost' = cost
      \/ p \in DOMAIN cache /\ price <= tokens
         /\ tokens' = tokens - price /\ cost' = cost + price
  BY DEF Repair, MayRepair
<1> QED BY <1>2, <1>3, <1>4

LEMMA TickKeepsRate ==
    ASSUME RateInv, Tick
    PROVE  RateInv'
<1>1. now \in Nat /\ now < MaxTime /\ MaxTime \in Nat /\ now' = now + 1
      /\ UNCHANGED <<refilled, tokens, cost, costBefore>>
  BY ReceiverAssumption DEF RateInv, Times, Tick, budgetVars
<1>2. now' \in Times /\ refilled' \in -1 .. now'
  BY <1>1 DEF RateInv, Times
<1> QED BY <1>1, <1>2 DEF RateInv

---------------------------------------------------------------------------
(* The whole transport.                                                    *)

LEMMA InitIInv == Init => IInv
<1> SUFFICES ASSUME Init PROVE IInv
  OBVIOUS
<1>1. CacheInv /\ EntriesInv BY DEF Init, RecoveryInit, CacheInv, EntriesInv
<1>2. SenderInv BY DEF Init, Rests, SenderInv
<1>3. RateInv
  BY RateAssumption, ReceiverAssumption DEF Init, RecoveryInit, RateInv, Times
<1> QED BY <1>1, <1>2, <1>3 DEF IInv

(* Only sendVideo moves the sender.                                        *)
LEMMA SenderSteps ==
    ASSUME SenderInv, Next
    PROVE  SenderInv'
<1>1. ASSUME NEW f \in Frames, SendVideo(f) PROVE SenderInv'
  BY <1>1, PacerAssumption DEF SendVideo, SenderInv
<1>2. ASSUME CacheNext PROVE SenderInv'
  <2>1. sender.left \in Seq(Nat) \ {<<>>} /\ sender.at = "cache"
    BY <1>2 DEF CacheNext, SenderInv
  <2>2. CASE Len(sender.left) = 1
    <3>1. sender' = [sender EXCEPT !.at = "pace", !.left = sender.sizes]
      BY <1>2, <2>2 DEF CacheNext
    <3>2. sender = [at |-> "cache", first |-> sender.first,
                    sizes |-> sender.sizes, left |-> sender.left]
      BY <2>1 DEF SenderInv
    <3>3. sender'.at = "pace" BY <3>1, <3>2
    <3> QED BY <3>3 DEF SenderInv
  <2>3. CASE Len(sender.left) # 1
    <3>1. sender' = [sender EXCEPT !.left = Tail(@)] BY <1>2, <2>3 DEF CacheNext
    <3>2. Tail(sender.left) \in Seq(Nat) \ {<<>>}
      <4> DEFINE l == sender.left
      <4>1. l \in Seq(Nat) /\ l # <<>> /\ Len(l) # 1 BY <2>1, <2>3
      <4> HIDE DEF l
      <4>2. Len(l) \in Nat /\ Len(l) # 0 BY <4>1
      <4>3. Tail(l) \in Seq(Nat) /\ Len(Tail(l)) = Len(l) - 1 BY <4>1
      <4>4. Len(Tail(l)) # 0 BY <4>1, <4>2, <4>3
      <4>5. Len(<<>>) = 0 OBVIOUS
      <4>6. Tail(l) # <<>> BY <4>4, <4>5
      <4> QED BY <4>3, <4>6 DEF l
    <3>3. sender = [at |-> "cache", first |-> sender.first,
                    sizes |-> sender.sizes, left |-> sender.left]
      BY <2>1 DEF SenderInv
    <3> QED BY <3>1, <3>2, <3>3 DEF SenderInv
  <2> QED BY <2>2, <2>3
<1>3. ASSUME PaceNext PROVE SenderInv'
  <2>1. sender.at = "pace" BY <1>3 DEF PaceNext
  <2>2. sender' = Rests \/ sender' = [sender EXCEPT !.left = Tail(@)]
    BY <1>3 DEF PaceNext
  <2>3. sender'.at # "cache"
    <3>1. CASE sender' = Rests BY <3>1 DEF Rests
    <3>2. CASE sender' = [sender EXCEPT !.left = Tail(@)] BY <3>2, <2>1
    <3> QED BY <2>2, <3>1, <3>2
  <2> QED BY <2>3 DEF SenderInv
<1>4. CASE UNCHANGED sender BY <1>4 DEF SenderInv
<1> QED BY <1>1, <1>2, <1>3, <1>4
  DEF Next, Send, Pace, TakePacket, MayTake, SendPacket, LockAgain,
  MayLockAgain, ThreadEnds, Leaves, MayEnd, StopPacer, CloseConnection,
  Recovers, transportVars

LEMMA Keeps ==
    ASSUME IInv, [Next]_vars
    PROVE  IInv'
<1> USE DEF IInv
<1>1. CASE UNCHANGED vars
  <2>1. UNCHANGED <<now, cached, cache, tokens, refilled, cost, costBefore, sender>>
    BY <1>1 DEF vars, recoveryVars, transportVars, cacheVars, budgetVars
  <2> QED BY <2>1 DEF CacheInv, EntriesInv, SenderInv, RateInv
<1>2. CASE Next
  <2>1. SenderInv' BY <1>2, SenderSteps
  <2>2. ASSUME UNCHANGED <<cached, cache>> PROVE CacheInv' /\ EntriesInv'
    BY <2>2 DEF CacheInv, EntriesInv
  <2>3. ASSUME UNCHANGED <<now, tokens, refilled, cost, costBefore>> PROVE RateInv'
    BY <2>3 DEF RateInv
  <2>4. CASE UNCHANGED recoveryVars
    <3>1. UNCHANGED <<cached, cache, now, tokens, refilled, cost, costBefore>>
      BY <2>4 DEF recoveryVars, cacheVars, budgetVars
    <3> QED BY <3>1, <2>1, <2>2, <2>3
  <2>5. CASE CacheNext
    <3>1. Head(sender.left) \in Nat /\ CachePacket(Head(sender.left))
      BY <2>5 DEF CacheNext, SenderInv
    <3>2. CacheInv' /\ EntriesInv' BY <3>1, CachePacketKeepsCache
    <3>3. UNCHANGED <<now, tokens, refilled, cost, costBefore>>
      BY <3>1 DEF CachePacket, budgetVars
    <3> QED BY <3>2, <3>3, <2>1, <2>3
  <2>6. CASE Negotiate
    <3>1. UNCHANGED <<cached, cache, now, tokens, refilled, cost, costBefore>>
      BY <2>6 DEF Negotiate, cacheVars, budgetVars
    <3> QED BY <3>1, <2>1, <2>2, <2>3
  <2>7. CASE Tick
    <3>1. UNCHANGED <<cached, cache>> BY <2>7 DEF Tick, cacheVars
    <3> QED BY <3>1, <2>7, <2>1, <2>2, TickKeepsRate
  <2>8. ASSUME NEW h \in Handlers,
               (\E r \in Reports : Report(h, r)) \/ ReadKeyframeTime(h)
               \/ AskForKeyframe(h) \/ SendRepair(h)
        PROVE  IInv'
    <3>1. UNCHANGED <<cached, cache, now, tokens, refilled, cost, costBefore>>
      BY <2>8 DEF Report, ReadKeyframeTime, AskForKeyframe, SendRepair,
                  cacheVars, budgetVars
    <3> QED BY <3>1, <2>1, <2>2, <2>3
  <2>9. ASSUME NEW h \in Handlers, TakeRequests(h) PROVE IInv'
    <3>1. cached' = cached /\ (cache' = Pruned(cache, now) \/ cache' = cache)
      BY <2>9 DEF TakeRequests
    <3>2. CASE cache' = Pruned(cache, now)
      <4>1. CacheInv' /\ EntriesInv'
        BY <3>1, <3>2, PrunedKeepsCache DEF CacheInv, EntriesInv
      <4> QED BY <4>1, <2>1, <2>9, TakeRequestsKeepsRate
    <3>3. CASE cache' = cache
      BY <3>1, <3>3, <2>1, <2>2, <2>9, TakeRequestsKeepsRate
    <3> QED BY <3>1, <3>2, <3>3
  <2>10. ASSUME NEW h \in Handlers, Repair(h) PROVE IInv'
    BY <2>10, <2>1, RepairKeepsCache, RepairKeepsRate
  <2> QED BY <1>2, <2>4, <2>5, <2>6, <2>7, <2>8, <2>9, <2>10
    DEF Next, Send, Pace, SendVideo, PaceNext, TakePacket, MayTake, SendPacket,
    LockAgain, MayLockAgain, ThreadEnds, Leaves, MayEnd, StopPacer,
    CloseConnection, Recovers, HandleReport
<1> QED BY <1>1, <1>2

LEMMA Invariant == Spec => []IInv
<1>1. IInv /\ [Next]_vars => IInv' BY Keeps
<1> QED BY InitIInv, <1>1, PTL DEF Spec

---------------------------------------------------------------------------
(* A requested sequence number never finds an older packet than the newest *)
(* that bears it (the cache of video_recovery.h), however the cache's      *)
(* bounds are chosen below the number of sequence numbers.                 *)
THEOREM CacheIsNewest == Spec => []CacheHoldsTheNewest
<1>1. IInv => CacheHoldsTheNewest
  <2> SUFFICES ASSUME IInv, NEW p \in DOMAIN cache, NEW q \in 1 .. cached,
                      Same(p, q), q > p
               PROVE  FALSE
    BY DEF CacheHoldsTheNewest, IInv, CacheInv
  <2>1. p \in Nat /\ q \in Nat /\ q - p < SeqMod
    BY CacheAssumption DEF IInv, CacheInv
  <2> QED BY <2>1, NumbersDiffer
<1> QED BY <1>1, Invariant, PTL

(* The repairs decided since any moment are bounded by one budget and its  *)
(* refill since, for every budget, rate and order of reports.              *)
THEOREM RepairsAreBounded == Spec => []RepairRateBounded
<1>1. IInv => RepairRateBounded
  <2> SUFFICES ASSUME IInv, NEW t \in 0 .. refilled
               PROVE  cost - costBefore[t] <= Budget + (refilled - t) * Refill
    BY DEF RepairRateBounded
  <2>1. /\ now \in Nat /\ now <= MaxTime /\ MaxTime \in Nat /\ Budget \in Nat
        /\ refilled \in Int /\ refilled <= now
        /\ tokens \in Nat /\ cost \in Nat /\ costBefore \in [Times -> Nat]
        /\ cost + tokens <= costBefore[t] + Budget + (refilled - t) * Refill
    BY RateAssumption, ReceiverAssumption DEF IInv, RateInv, Times
  <2>2. costBefore[t] \in Nat /\ (refilled - t) * Refill \in Int
    <3>1. t \in Times /\ refilled - t \in Int BY <2>1 DEF Times
    <3> QED BY <3>1, <2>1, Products
  <2> QED BY <2>1, <2>2
<1> QED BY <1>1, Invariant, PTL

---------------------------------------------------------------------------
(* The order of the repairs.  A thread that decides on repairs or sends    *)
(* them excludes the others, and the repairs it has yet to send bear the   *)
(* RTX numbers that are drawn and not on the wire, in their order.         *)

AtRepairs(h) == handler[h].at \in {"repair", "send"}
RepairTask(t) ==
    /\ t = [at |-> t.at, seqs |-> t.seqs, time |-> t.time, repairs |-> t.repairs]
    /\ t.repairs \in Seq([packet : Nat, rtx : Int])

(* The numbers from a to b - 1, among the repairs r in ascending order.    *)
Pending(r, a, b) ==
    /\ \A i \in DOMAIN r : r[i].rtx = Plain \/ r[i].rtx \in a .. (b - 1)
    /\ \A i, j \in DOMAIN r : i < j /\ r[i].rtx # Plain /\ r[j].rtx # Plain
                                 => r[i].rtx < r[j].rtx
    /\ \A n \in a .. (b - 1) : \E i \in DOMAIN r : r[i].rtx = n

HandlerInv ==
    /\ DOMAIN handler = Handlers
    /\ \A h \in Handlers : AtRepairs(h) => RepairTask(handler[h])
    /\ \A h \in Handlers : handler[h].at = "send" => handler[h].repairs # <<>>
    /\ \A g, h \in Handlers : AtRepairs(g) /\ AtRepairs(h) => g = h
    /\ \A h \in Handlers : handler[h].at = "exchange" =>
          handler[h].time - handler[h].previous >= KeyframeGap

RtxInv ==
    /\ rtxSequence \in Nat /\ rtxWire \in Seq(Nat)
    /\ RtxInOrder
    /\ Len(rtxWire) <= rtxSequence
    /\ (\A h \in Handlers : ~AtRepairs(h)) => rtxSequence = Len(rtxWire)
    /\ \A h \in Handlers : AtRepairs(h) =>
          Pending(handler[h].repairs, Len(rtxWire), rtxSequence)

OrderInv == IInv /\ HandlerInv /\ RtxInv

LEMMA Elements ==
    ASSUME NEW S, NEW r \in Seq(S), NEW i \in DOMAIN r
    PROVE  r[i] \in S /\ i \in 1 .. Len(r) /\ Len(r) \in Nat
OBVIOUS

(* Records with one field changed, written out.                            *)
LEMMA TaskExcept ==
    ASSUME NEW u, u = [at |-> u.at, seqs |-> u.seqs, time |-> u.time, repairs |-> u.repairs],
           NEW x
    PROVE  /\ [u EXCEPT !.seqs = x] =
                 [at |-> u.at, seqs |-> x, time |-> u.time, repairs |-> u.repairs]
           /\ [u EXCEPT !.repairs = x] =
                 [at |-> u.at, seqs |-> u.seqs, time |-> u.time, repairs |-> x]
OBVIOUS

LEMMA PendingAppend ==
    ASSUME NEW r \in Seq([packet : Nat, rtx : Int]), NEW a \in Nat, NEW b \in Nat, a <= b,
           Pending(r, a, b), NEW p \in Nat
    PROVE  /\ Pending(Append(r, [packet |-> p, rtx |-> Plain]), a, b)
           /\ Pending(Append(r, [packet |-> p, rtx |-> b]), a, b + 1)
<1>1. ASSUME NEW n \in Int
      PROVE  LET s == Append(r, [packet |-> p, rtx |-> n])
             IN /\ DOMAIN s = 1 .. (Len(r) + 1) /\ DOMAIN r = 1 .. Len(r) /\ Len(r) \in Nat
                /\ \A i \in DOMAIN r : s[i] = r[i]
                /\ s[Len(r) + 1].rtx = n
                /\ \A i \in DOMAIN s : i \in DOMAIN r \/ i = Len(r) + 1
  <2> DEFINE e == [packet |-> p, rtx |-> n]
             s == Append(r, e)
  <2>1. e \in [packet : Nat, rtx : Int] /\ e.rtx = n OBVIOUS
  <2> HIDE DEF e
  <2>2. /\ DOMAIN s = 1 .. (Len(r) + 1) /\ DOMAIN r = 1 .. Len(r) /\ Len(r) \in Nat
        /\ \A i \in DOMAIN r : s[i] = r[i]
        /\ s[Len(r) + 1] = e
    BY SMTT(20), <2>1
  <2>3. \A i \in DOMAIN s : i \in DOMAIN r \/ i = Len(r) + 1 BY <2>2
  <2> QED BY <2>1, <2>2, <2>3 DEF e
<1>2. \A i \in DOMAIN r : r[i].rtx \in Int /\ i < Len(r) + 1
  <2>1. ASSUME NEW i \in DOMAIN r
        PROVE  r[i] \in [packet : Nat, rtx : Int] /\ i \in 1 .. Len(r) /\ Len(r) \in Nat
    BY Elements
  <2> QED BY <2>1
<1>3. Pending(Append(r, [packet |-> p, rtx |-> Plain]), a, b)
  <2> DEFINE s == Append(r, [packet |-> p, rtx |-> Plain])
  <2>1. /\ \A i \in DOMAIN r : i \in DOMAIN s /\ s[i] = r[i]
        /\ Len(r) + 1 \in DOMAIN s /\ s[Len(r) + 1].rtx = Plain
        /\ \A i \in DOMAIN s : i \in DOMAIN r \/ i = Len(r) + 1
    BY <1>1
  <2> HIDE DEF s
  <2>2. Pending(s, a, b) BY <2>1, <1>2 DEF Pending
  <2> QED BY <2>2 DEF s
<1>4. Pending(Append(r, [packet |-> p, rtx |-> b]), a, b + 1)
  <2> DEFINE s == Append(r, [packet |-> p, rtx |-> b])
  <2>1. /\ \A i \in DOMAIN r : i \in DOMAIN s /\ s[i] = r[i]
        /\ Len(r) + 1 \in DOMAIN s /\ s[Len(r) + 1].rtx = b
        /\ \A i \in DOMAIN s : i \in DOMAIN r \/ i = Len(r) + 1
        /\ DOMAIN r = 1 .. Len(r) /\ Len(r) \in Nat
    BY <1>1
  <2> HIDE DEF s
  <2>2. \A i \in DOMAIN s : s[i].rtx = Plain \/ s[i].rtx \in a .. (b + 1 - 1)
    <3> TAKE i \in DOMAIN s
    <3>1. CASE i \in DOMAIN r
      <4>1. s[i].rtx = r[i].rtx /\ (r[i].rtx = Plain \/ r[i].rtx \in a .. (b - 1))
        BY <2>1, <3>1 DEF Pending
      <4> QED BY <4>1
    <3>2. CASE i = Len(r) + 1 BY <2>1, <3>2
    <3> QED BY <2>1, <3>1, <3>2
  <2>3. ASSUME NEW i \in DOMAIN s, NEW j \in DOMAIN s, i < j, s[i].rtx # Plain, s[j].rtx # Plain
        PROVE  s[i].rtx < s[j].rtx
    <3>1. i \in DOMAIN r
      <4>1. \A k \in DOMAIN s : k <= Len(r) + 1 /\ k \in Int BY <2>1, <1>2
      <4>2. i # Len(r) + 1 BY <4>1, <2>1, <2>3
      <4> QED BY <4>2, <2>1
    <3>2. CASE j \in DOMAIN r BY <2>1, <2>3, <3>1, <3>2 DEF Pending
    <3>3. CASE j = Len(r) + 1
      <4>1. s[i].rtx \in a .. (b - 1) BY <2>1, <2>3, <3>1 DEF Pending
      <4> QED BY <4>1, <2>1, <3>3
    <3> QED BY <2>1, <3>2, <3>3
  <2>4. ASSUME NEW n \in a .. (b + 1 - 1) PROVE \E i \in DOMAIN s : s[i].rtx = n
    <3>1. CASE n = b BY <2>1, <3>1
    <3>2. CASE n # b
      <4>1. n \in a .. (b - 1) BY <3>2
      <4>2. PICK i \in DOMAIN r : r[i].rtx = n BY <4>1 DEF Pending
      <4> QED BY <4>2, <2>1
    <3> QED BY <3>1, <3>2
  <2>5. Pending(s, a, b + 1) BY <2>2, <2>3, <2>4 DEF Pending
  <2> QED BY <2>5 DEF s
<1> QED BY <1>3, <1>4

(* The first of the repairs that bears an RTX number bears the next one.   *)
LEMMA PendingHead ==
    ASSUME NEW r \in Seq([packet : Nat, rtx : Int]), r # <<>>,
           NEW a \in Nat, NEW b \in Nat, a <= b, Pending(r, a, b)
    PROVE  /\ Head(r).rtx = Plain => Pending(Tail(r), a, b)
           /\ Head(r).rtx # Plain => /\ Head(r).rtx = a /\ a + 1 <= b
                                     /\ Pending(Tail(r), a + 1, b)
<1> DEFINE t == Tail(r)
<1>1. /\ DOMAIN r = 1 .. Len(r) /\ Len(r) \in Nat /\ Len(r) >= 1
      /\ t \in Seq([packet : Nat, rtx : Int]) /\ DOMAIN t = 1 .. (Len(r) - 1)
      /\ \A i \in DOMAIN t : t[i] = r[i + 1]
      /\ Head(r) = r[1]
  <2>1. /\ Len(r) \in Nat /\ DOMAIN r = 1 .. Len(r) /\ Len(r) # 0 OBVIOUS
  <2>2. /\ t \in Seq([packet : Nat, rtx : Int]) /\ Len(t) = Len(r) - 1
        /\ \A i \in 1 .. (Len(r) - 1) : t[i] = r[i + 1]
        /\ Head(r) = r[1]
    BY <2>1
  <2>3. DOMAIN t = 1 .. Len(t) BY <2>2
  <2> QED BY <2>1, <2>2, <2>3
<1> HIDE DEF t
<1>2. /\ \A i \in DOMAIN t : i + 1 \in DOMAIN r /\ t[i] = r[i + 1] /\ i \in Nat
      /\ \A j \in DOMAIN r : j = 1 \/ (j - 1 \in DOMAIN t /\ t[j - 1] = r[j])
      /\ \A i \in DOMAIN r : r[i].rtx \in Int
  <2>0. /\ DOMAIN r = 1 .. Len(r) /\ Len(r) \in Nat /\ DOMAIN t = 1 .. (Len(r) - 1)
        /\ \A i \in DOMAIN t : t[i] = r[i + 1]
    BY <1>1
  <2>1. \A i \in DOMAIN r : r[i].rtx \in Int
    <3> TAKE i \in DOMAIN r
    <3>1. r[i] \in [packet : Nat, rtx : Int] BY Elements
    <3> QED BY <3>1
  <2>2. \A i \in DOMAIN t : i + 1 \in DOMAIN r /\ t[i] = r[i + 1] /\ i \in Nat
    <3> HIDE <1>1
    <3> QED BY SMTT(20), <2>0
  <2>3. ASSUME NEW j \in DOMAIN r, j # 1 PROVE j - 1 \in DOMAIN t /\ t[j - 1] = r[j]
    <3>1. j - 1 \in DOMAIN t /\ (j - 1) + 1 = j BY SMTT(20), <2>0, <2>3
    <3> QED BY <2>0, <3>1
  <2> QED BY <2>1, <2>2, <2>3
<1>0. Head(r) = r[1] /\ 1 \in DOMAIN r /\ DOMAIN t \subseteq Nat \ {0}
  <2>1. Head(r) = r[1] /\ DOMAIN r = 1 .. Len(r) /\ Len(r) \in Nat /\ Len(r) # 0
        /\ DOMAIN t = 1 .. (Len(r) - 1)
    BY <1>1
  <2> HIDE <1>1
  <2> QED BY <2>1
<1>3. ASSUME NEW i \in DOMAIN t, NEW j \in DOMAIN t, i < j, t[i].rtx # Plain, t[j].rtx # Plain
      PROVE  t[i].rtx < t[j].rtx
  <2>1. i + 1 \in DOMAIN r /\ j + 1 \in DOMAIN r /\ i + 1 < j + 1 BY <1>2, <1>3
  <2>2. t[i] = r[i + 1] /\ t[j] = r[j + 1] BY <1>2
  <2>3. r[i + 1].rtx # Plain /\ r[j + 1].rtx # Plain BY <1>3, <2>2
  <2>4. r[i + 1].rtx < r[j + 1].rtx
    <3>1. \A k \in DOMAIN r, l \in DOMAIN r :
             k < l /\ r[k].rtx # Plain /\ r[l].rtx # Plain => r[k].rtx < r[l].rtx
      BY DEF Pending
    <3> HIDE <1>2
    <3> QED BY <3>1, <2>1, <2>3
  <2> QED BY <2>2, <2>4
<1>4. ASSUME Head(r).rtx = Plain PROVE Pending(t, a, b)
  <2>1. \A i \in DOMAIN t : t[i].rtx = Plain \/ t[i].rtx \in a .. (b - 1)
    BY <1>2 DEF Pending
  <2>2. ASSUME NEW n \in a .. (b - 1) PROVE \E i \in DOMAIN t : t[i].rtx = n
    <3>1. PICK i \in DOMAIN r : r[i].rtx = n BY DEF Pending
    <3>2. i # 1 BY <3>1, <1>1, <1>4
    <3> QED BY <3>1, <3>2, <1>2
  <2> QED BY <1>3, <2>1, <2>2 DEF Pending
<1>5. ASSUME Head(r).rtx # Plain PROVE Head(r).rtx = a /\ a + 1 <= b /\ Pending(t, a + 1, b)
  <2>1. 1 \in DOMAIN r /\ r[1].rtx \in a .. (b - 1) BY SMTT(20), <1>1, <1>5 DEF Pending
  <2>2. \A i \in DOMAIN t : t[i].rtx # Plain => r[1].rtx < t[i].rtx
    <3> SUFFICES ASSUME NEW i \in DOMAIN t, t[i].rtx # Plain PROVE r[1].rtx < t[i].rtx
      OBVIOUS
    <3>1. i + 1 \in DOMAIN r /\ 1 < i + 1 /\ t[i] = r[i + 1] BY <1>0, <1>2
    <3>2. r[i + 1].rtx # Plain /\ r[1].rtx # Plain BY <1>0, <1>5, <3>1
    <3>3. \A k \in DOMAIN r, l \in DOMAIN r :
             k < l /\ r[k].rtx # Plain /\ r[l].rtx # Plain => r[k].rtx < r[l].rtx
      BY DEF Pending
    <3>4. r[1].rtx < r[i + 1].rtx BY ONLY <2>1, <3>1, <3>2, <3>3
    <3> QED BY <3>1, <3>4
  <2>3. r[1].rtx = a
    <3>1. a \in a .. (b - 1) BY <2>1
    <3>2. PICK i \in DOMAIN r : r[i].rtx = a BY <3>1 DEF Pending
    <3>3. CASE i = 1 BY <3>2, <3>3
    <3>4. CASE i # 1
      <4>1. i - 1 \in DOMAIN t /\ t[i - 1] = r[i] BY <1>2, <3>4
      <4>2. t[i - 1].rtx = a BY <3>2, <4>1
      <4>3. a # Plain OBVIOUS
      <4>4. r[1].rtx < a BY <2>2, <4>1, <4>2, <4>3
      <4> QED BY <4>4, <2>1
    <3> QED BY <3>3, <3>4
  <2>4. \A i \in DOMAIN t : t[i].rtx = Plain \/ t[i].rtx \in (a + 1) .. (b - 1)
    <3> SUFFICES ASSUME NEW i \in DOMAIN t, t[i].rtx # Plain
                 PROVE  t[i].rtx \in (a + 1) .. (b - 1)
      OBVIOUS
    <3>1. t[i].rtx \in a .. (b - 1) BY <1>2 DEF Pending
    <3>2. a < t[i].rtx BY <2>2, <2>3
    <3> QED BY <3>1, <3>2
  <2>5. ASSUME NEW n \in (a + 1) .. (b - 1) PROVE \E i \in DOMAIN t : t[i].rtx = n
    <3>1. n \in a .. (b - 1) /\ n # a OBVIOUS
    <3>2. PICK i \in DOMAIN r : r[i].rtx = n BY <3>1 DEF Pending
    <3>3. i # 1 BY <3>1, <3>2, <2>3
    <3> QED BY <3>2, <3>3, <1>2
  <2>6. Pending(t, a + 1, b) BY <1>3, <2>4, <2>5 DEF Pending
  <2> QED BY <1>1, <2>1, <2>3, <2>6
<1> QED BY <1>4, <1>5 DEF t

(* One thread goes on with its repairs, the others are elsewhere.          *)
LEMMA GoesOnKeepsOrder ==
    ASSUME HandlerInv, NEW h \in Handlers, NEW task, RepairTask(task), GoesOn(h, task),
           \A g \in Handlers : g # h => ~AtRepairs(g),
           rtxSequence' \in Nat, rtxWire' \in Seq(Nat), RtxInOrder',
           Len(rtxWire') <= rtxSequence',
           Pending(task.repairs, Len(rtxWire'), rtxSequence')
    PROVE  HandlerInv' /\ RtxInv'
<1> DEFINE t == handler'[h]
<1>1. /\ DOMAIN handler' = Handlers /\ \A g \in Handlers : g # h => handler'[g] = handler[g]
      /\ t = IF task.seqs # <<>> THEN [task EXCEPT !.at = "repair"]
             ELSE IF task.repairs # <<>> THEN [task EXCEPT !.at = "send"]
             ELSE Idle
  BY DEF HandlerInv, GoesOn, Goes
<1>2. task = [at |-> task.at, seqs |-> task.seqs, time |-> task.time, repairs |-> task.repairs]
  BY DEF RepairTask
<1>3. ASSUME NEW at
      PROVE  [task EXCEPT !.at = at] = [at |-> at, seqs |-> task.seqs, time |-> task.time,
                                        repairs |-> task.repairs]
  BY <1>2
<1>4. \/ /\ t = [at |-> "repair", seqs |-> task.seqs, time |-> task.time,
                 repairs |-> task.repairs]
      \/ /\ t = [at |-> "send", seqs |-> task.seqs, time |-> task.time,
                 repairs |-> task.repairs]
         /\ task.repairs # <<>>
      \/ t = [at |-> "idle"] /\ task.repairs = <<>>
  <2>1. CASE task.seqs # <<>> BY <1>1, <1>3, <2>1
  <2>2. CASE task.seqs = <<>> /\ task.repairs # <<>> BY <1>1, <1>3, <2>2
  <2>3. CASE task.seqs = <<>> /\ task.repairs = <<>> BY <1>1, <2>3 DEF Idle
  <2> QED BY <2>1, <2>2, <2>3
<1> HIDE DEF t
<1>5. /\ t.at # "exchange"
      /\ t.at = "send" => t.repairs # <<>>
      /\ t.at \in {"repair", "send"} => RepairTask(t) /\ t.repairs = task.repairs
      /\ t.at \notin {"repair", "send"} => task.repairs = <<>>
  BY <1>4 DEF RepairTask
<1>6. HandlerInv'
  <2>1. \A g \in Handlers : g # h => ~AtRepairs(g)' BY <1>1 DEF AtRepairs
  <2>2. \A g \in Handlers : AtRepairs(g)' => RepairTask(handler'[g])
    BY <1>1, <1>5, <2>1 DEF AtRepairs, t
  <2>3. ASSUME NEW g \in Handlers, handler'[g].at = "exchange"
        PROVE  handler'[g].time - handler'[g].previous >= KeyframeGap
    <3>1. g # h BY <1>5, <2>3 DEF t
    <3> QED BY <1>1, <2>3, <3>1 DEF HandlerInv
  <2>4. \A g \in Handlers : handler'[g].at = "send" => handler'[g].repairs # <<>>
    BY <1>1, <1>5 DEF HandlerInv, t
  <2>5. \A g, k \in Handlers : AtRepairs(g)' /\ AtRepairs(k)' => g = k BY <2>1
  <2> QED BY <1>1, <2>2, <2>3, <2>4, <2>5 DEF HandlerInv
<1>7. RtxInv'
  <2>1. \A g \in Handlers : AtRepairs(g)' => g = h BY <1>1 DEF AtRepairs
  <2>2. AtRepairs(h)' => Pending(handler'[h].repairs, Len(rtxWire'), rtxSequence')
    BY <1>5 DEF AtRepairs, t
  <2>3. ASSUME ~AtRepairs(h)' PROVE rtxSequence' = Len(rtxWire')
    <3>1. task.repairs = <<>> BY <1>5, <2>3 DEF AtRepairs, t
    <3>2. DOMAIN task.repairs = {} BY <3>1
    <3>3. \A n \in Len(rtxWire') .. (rtxSequence' - 1) : FALSE
      BY <3>2 DEF Pending
    <3>4. Len(rtxWire') \in Nat OBVIOUS
    <3>5. CASE Len(rtxWire') < rtxSequence'
      <4>1. Len(rtxWire') \in Len(rtxWire') .. (rtxSequence' - 1) BY <3>4, <3>5
      <4> QED BY <3>3, <4>1
    <3> QED BY <3>4, <3>5
  <2> QED BY <2>1, <2>2, <2>3 DEF RtxInv
<1> QED BY <1>6, <1>7

(* A thread that does not touch the repairs.                               *)
LEMMA ElsewhereKeepsOrder ==
    ASSUME HandlerInv, RtxInv, NEW h \in Handlers, ~AtRepairs(h), NEW t,
           handler' = [handler EXCEPT ![h] = t], t.at \notin {"repair", "send"},
           t.at = "exchange" => t.time - t.previous >= KeyframeGap,
           UNCHANGED <<rtxSequence, rtxWire>>
    PROVE  HandlerInv' /\ RtxInv'
<1>1. /\ DOMAIN handler' = Handlers
      /\ \A g \in Handlers : handler'[g] = IF g = h THEN t ELSE handler[g]
  BY DEF HandlerInv
<1>2. \A g \in Handlers : /\ AtRepairs(g)' <=> AtRepairs(g)
                          /\ AtRepairs(g) => handler'[g] = handler[g]
  BY <1>1 DEF AtRepairs
<1>3. HandlerInv' BY <1>1, <1>2 DEF HandlerInv
<1>4. RtxInv' BY <1>2 DEF RtxInv, RtxInOrder
<1> QED BY <1>3, <1>4

LEMMA ReportKeepsOrder ==
    ASSUME IInv, HandlerInv, RtxInv, NEW h \in Handlers,
           (\E r \in Reports : Report(h, r)) \/ HandleReport(h)
    PROVE  HandlerInv' /\ RtxInv'
<1>1. CASE \E r \in Reports : Report(h, r)
  <2>1. PICK r \in Reports : Report(h, r) BY <1>1
  <2> DEFINE t == [at |-> IF r.pli THEN "pli" ELSE "nack", seqs |-> r.seqs]
  <2>2. /\ handler' = [handler EXCEPT ![h] = t] /\ t.at \in {"pli", "nack"}
        /\ ~AtRepairs(h) /\ UNCHANGED <<rtxSequence, rtxWire>>
    BY <2>1 DEF Report, Goes, AtRepairs, Idle
  <2> HIDE DEF t
  <2> QED BY <2>2, ElsewhereKeepsOrder
<1>2. CASE ReadKeyframeTime(h)
  <2>1. ~AtRepairs(h) /\ UNCHANGED <<rtxSequence, rtxWire>>
    BY <1>2 DEF ReadKeyframeTime, AtRepairs
  <2>2. CASE accepted.pli /\ now - lastKeyframe >= KeyframeGap
    <3> DEFINE t == [at |-> "exchange", seqs |-> handler[h].seqs, time |-> now,
                     previous |-> lastKeyframe]
    <3>1. handler' = [handler EXCEPT ![h] = t] BY <1>2, <2>2 DEF ReadKeyframeTime, Goes
    <3>2. t.at = "exchange" /\ t.time - t.previous >= KeyframeGap BY <2>2
    <3> HIDE DEF t
    <3> QED BY <2>1, <3>1, <3>2, ElsewhereKeepsOrder
  <2>3. CASE ~(accepted.pli /\ now - lastKeyframe >= KeyframeGap)
    <3> DEFINE t == [at |-> "nack", seqs |-> handler[h].seqs]
    <3>1. handler' = [handler EXCEPT ![h] = t] BY <1>2, <2>3 DEF ReadKeyframeTime, Goes
    <3>2. t.at = "nack" OBVIOUS
    <3> HIDE DEF t
    <3> QED BY <2>1, <3>1, <3>2, ElsewhereKeepsOrder
  <2> QED BY <2>2, <2>3
<1>3. CASE AskForKeyframe(h)
  <2> DEFINE t == [at |-> "nack", seqs |-> handler[h].seqs]
  <2>1. /\ handler' = [handler EXCEPT ![h] = t] /\ ~AtRepairs(h) /\ t.at = "nack"
        /\ UNCHANGED <<rtxSequence, rtxWire>>
    BY <1>3 DEF AskForKeyframe, Goes, AtRepairs
  <2> HIDE DEF t
  <2> QED BY <2>1, ElsewhereKeepsOrder
<1>4. CASE TakeRequests(h)
  <2>1. ~AtRepairs(h) /\ UNCHANGED <<rtxSequence, rtxWire>>
    BY <1>4 DEF TakeRequests, AtRepairs
  <2>2. CASE accepted.nack
    <3> DEFINE t == [at |-> "repair", seqs |-> handler[h].seqs, time |-> now, repairs |-> <<>>]
    <3>1. GoesOn(h, t) /\ MaySendRepairs BY <1>4, <2>2 DEF TakeRequests
    <3>2. RepairTask(t) /\ t.repairs = <<>>
      <4>1. <<>> \in Seq([packet : Nat, rtx : Int]) OBVIOUS
      <4> QED BY <4>1 DEF RepairTask
    <3> HIDE DEF t
    <3>3. \A g \in Handlers : ~AtRepairs(g) BY <3>1 DEF MaySendRepairs, Holds, AtRepairs
    <3>4. rtxSequence = Len(rtxWire) BY <3>3 DEF RtxInv
    <3>5. Pending(t.repairs, Len(rtxWire'), rtxSequence')
      <4>1. DOMAIN t.repairs = {} BY <3>2
      <4>2. Len(rtxWire') .. (rtxSequence' - 1) = {}
        BY <2>1, <3>4 DEF RtxInv
      <4> QED BY <4>1, <4>2 DEF Pending
    <3>6. /\ rtxSequence' \in Nat /\ rtxWire' \in Seq(Nat) /\ RtxInOrder'
          /\ Len(rtxWire') <= rtxSequence'
      BY <2>1 DEF RtxInv, RtxInOrder
    <3> QED BY <3>1, <3>2, <3>3, <3>5, <3>6, GoesOnKeepsOrder
  <2>3. CASE ~accepted.nack
    <3>1. handler' = [handler EXCEPT ![h] = Idle] BY <1>4, <2>3 DEF TakeRequests, Goes
    <3>2. Idle.at = "idle" BY DEF Idle
    <3> QED BY <2>1, <3>1, <3>2, ElsewhereKeepsOrder
  <2> QED BY <2>2, <2>3
<1>5. CASE Repair(h)
  <2> DEFINE task == handler[h]
             p == Found(Head(task.seqs))
             rest == [task EXCEPT !.seqs = Tail(@)]
  <2>1. task.at = "repair" /\ AtRepairs(h) BY <1>5 DEF Repair, AtRepairs
  <2>2. /\ RepairTask(task) /\ \A g \in Handlers : g # h => ~AtRepairs(g)
    BY <2>1 DEF HandlerInv
  <2>3. /\ rtxWire' = rtxWire /\ rtxWire \in Seq(Nat) /\ RtxInOrder' /\ rtxSequence \in Nat
        /\ Len(rtxWire) <= rtxSequence /\ Len(rtxWire) \in Nat
        /\ Pending(task.repairs, Len(rtxWire), rtxSequence)
    BY <1>5, <2>1 DEF Repair, RtxInv, RtxInOrder
  <2>4. ASSUME NEW e PROVE
          /\ rest = [at |-> task.at, seqs |-> Tail(task.seqs), time |-> task.time,
                     repairs |-> task.repairs]
          /\ [rest EXCEPT !.repairs = Append(@, e)] =
                [at |-> task.at, seqs |-> Tail(task.seqs), time |-> task.time,
                 repairs |-> Append(task.repairs, e)]
    <3>1. task = [at |-> task.at, seqs |-> task.seqs, time |-> task.time,
                  repairs |-> task.repairs]
      BY <2>2 DEF RepairTask
    <3> HIDE DEF task
    <3>2. rest = [at |-> task.at, seqs |-> Tail(task.seqs), time |-> task.time,
                  repairs |-> task.repairs]
      BY <3>1, TaskExcept
    <3> DEFINE v == [at |-> task.at, seqs |-> Tail(task.seqs), time |-> task.time,
                     repairs |-> task.repairs]
    <3>3. /\ v.at = task.at /\ v.seqs = Tail(task.seqs) /\ v.time = task.time
          /\ v.repairs = task.repairs /\ v = rest
          /\ v = [at |-> v.at, seqs |-> v.seqs, time |-> v.time, repairs |-> v.repairs]
      BY <3>2
    <3> HIDE DEF rest, v
    <3>4. [v EXCEPT !.repairs = Append(v.repairs, e)] =
             [at |-> v.at, seqs |-> v.seqs, time |-> v.time, repairs |-> Append(v.repairs, e)]
      BY <3>3, TaskExcept
    <3> QED BY <3>2, <3>3, <3>4
  <2>5. RepairTask(rest) /\ rest.repairs = task.repairs
    <3> DEFINE u == [at |-> task.at, seqs |-> Tail(task.seqs), time |-> task.time,
                     repairs |-> task.repairs]
    <3>1. RepairTask(u) /\ u.repairs = task.repairs BY <2>2 DEF RepairTask
    <3> QED BY <2>4, <3>1
  <2>6. ASSUME NEW e \in [packet : Nat, rtx : Int]
        PROVE  /\ RepairTask([rest EXCEPT !.repairs = Append(@, e)])
               /\ [rest EXCEPT !.repairs = Append(@, e)].repairs = Append(task.repairs, e)
    <3> DEFINE u == [at |-> task.at, seqs |-> Tail(task.seqs), time |-> task.time,
                     repairs |-> Append(task.repairs, e)]
    <3>1. Append(task.repairs, e) \in Seq([packet : Nat, rtx : Int])
      <4>1. task.repairs \in Seq([packet : Nat, rtx : Int]) BY <2>2 DEF RepairTask
      <4> QED BY <4>1
    <3>2. RepairTask(u) /\ u.repairs = Append(task.repairs, e) BY <3>1 DEF RepairTask
    <3>3. u = [rest EXCEPT !.repairs = Append(@, e)] BY <2>4
    <3> HIDE DEF u
    <3> QED BY <3>2, <3>3
  <2>7. CASE ~MayRepair(p, task.time) /\ GoesOn(h, rest) /\ UNCHANGED rtxSequence
    <3> HIDE DEF rest, task
    <3>1. RtxInOrder' /\ rtxSequence' \in Nat /\ Len(rtxWire') <= rtxSequence'
          /\ Pending(rest.repairs, Len(rtxWire'), rtxSequence')
      BY <2>3, <2>5, <2>7
    <3> QED BY <2>2, <2>3, <2>5, <2>7, <3>1, GoesOnKeepsOrder
  <2>8. CASE MayRepair(p, task.time)
    <3>1. p \in Nat BY <2>8 DEF MayRepair, IInv, CacheInv
    <3>2. task.repairs \in Seq([packet : Nat, rtx : Int]) BY <2>2 DEF RepairTask
    <3>3. CASE accepted.rtx
      <4> DEFINE e == [packet |-> p, rtx |-> rtxSequence]
                 u == [rest EXCEPT !.repairs = Append(@, e)]
      <4>1. GoesOn(h, u) /\ rtxSequence' = rtxSequence + 1 BY <1>5, <2>8, <3>3 DEF Repair
      <4>2. e \in [packet : Nat, rtx : Int] BY <2>3, <3>1
      <4>3. RepairTask(u) /\ u.repairs = Append(task.repairs, e) BY <2>6, <4>2
      <4>4. Pending(Append(task.repairs, e), Len(rtxWire), rtxSequence + 1)
        <5> HIDE DEF task, p
        <5> QED BY <2>3, <3>1, <3>2, PendingAppend
      <4> HIDE DEF u, e, task
      <4>5. /\ rtxSequence' \in Nat /\ Len(rtxWire') <= rtxSequence'
            /\ Pending(u.repairs, Len(rtxWire'), rtxSequence')
        BY <2>3, <4>1, <4>3, <4>4
      <4> QED BY <2>2, <2>3, <4>1, <4>3, <4>5, GoesOnKeepsOrder
    <3>4. CASE ~accepted.rtx
      <4> DEFINE e == [packet |-> p, rtx |-> Plain]
                 u == [rest EXCEPT !.repairs = Append(@, e)]
      <4>1. GoesOn(h, u) /\ rtxSequence' = rtxSequence BY <1>5, <2>8, <3>4 DEF Repair
      <4>2. e \in [packet : Nat, rtx : Int] BY <3>1
      <4>3. RepairTask(u) /\ u.repairs = Append(task.repairs, e) BY <2>6, <4>2
      <4>4. Pending(Append(task.repairs, e), Len(rtxWire), rtxSequence)
        <5> HIDE DEF task, p
        <5> QED BY <2>3, <3>1, <3>2, PendingAppend
      <4> HIDE DEF u, e, task
      <4>5. /\ rtxSequence' \in Nat /\ Len(rtxWire') <= rtxSequence'
            /\ Pending(u.repairs, Len(rtxWire'), rtxSequence')
        BY <2>3, <4>1, <4>3, <4>4
      <4> QED BY <2>2, <2>3, <4>1, <4>3, <4>5, GoesOnKeepsOrder
    <3> QED BY <3>3, <3>4
  <2> QED BY <1>5, <2>7, <2>8 DEF Repair
<1>6. CASE SendRepair(h)
  <2> DEFINE task == handler[h]
             r == task.repairs
             u == [task EXCEPT !.repairs = Tail(@)]
  <2>1. /\ task.at = "send" /\ AtRepairs(h) /\ GoesOn(h, u) /\ rtxSequence' = rtxSequence
        /\ rtxWire' = IF Head(r).rtx = Plain THEN rtxWire ELSE Append(rtxWire, Head(r).rtx)
    BY <1>6 DEF SendRepair, AtRepairs
  <2>2. /\ RepairTask(task) /\ r # <<>> /\ r \in Seq([packet : Nat, rtx : Int])
        /\ \A g \in Handlers : g # h => ~AtRepairs(g)
    BY <2>1 DEF HandlerInv, RepairTask
  <2>3. /\ rtxWire \in Seq(Nat) /\ RtxInOrder /\ rtxSequence \in Nat
        /\ Len(rtxWire) <= rtxSequence /\ Len(rtxWire) \in Nat
        /\ Pending(r, Len(rtxWire), rtxSequence)
    BY <2>1 DEF RtxInv
  <2>4. RepairTask(u) /\ u.repairs = Tail(r)
    <3> DEFINE x == [at |-> task.at, seqs |-> task.seqs, time |-> task.time, repairs |-> Tail(r)]
    <3>1. u = x
      <4>1. task = [at |-> task.at, seqs |-> task.seqs, time |-> task.time, repairs |-> r]
        BY <2>2 DEF RepairTask
      <4> HIDE DEF task
      <4> QED BY <4>1, TaskExcept DEF r
    <3>2. Tail(r) \in Seq([packet : Nat, rtx : Int])
      <4> HIDE DEF r
      <4> QED BY <2>2
    <3>3. RepairTask(x) /\ x.repairs = Tail(r) BY <3>2 DEF RepairTask
    <3> HIDE DEF u, x
    <3> QED BY <3>1, <3>3
  <2> HIDE DEF task, r, u
  <2>5. CASE Head(r).rtx = Plain
    <3>1. rtxWire' = rtxWire /\ Pending(Tail(r), Len(rtxWire), rtxSequence)
      BY <2>1, <2>2, <2>3, <2>5, PendingHead
    <3>2. /\ rtxSequence' \in Nat /\ rtxWire' \in Seq(Nat) /\ RtxInOrder'
          /\ Len(rtxWire') <= rtxSequence'
          /\ Pending(u.repairs, Len(rtxWire'), rtxSequence')
      BY <2>1, <2>3, <2>4, <3>1 DEF RtxInOrder
    <3> QED BY <2>1, <2>2, <2>4, <3>2, GoesOnKeepsOrder
  <2>6. CASE Head(r).rtx # Plain
    <3>1. /\ Head(r).rtx = Len(rtxWire) /\ Len(rtxWire) + 1 <= rtxSequence
          /\ Pending(Tail(r), Len(rtxWire) + 1, rtxSequence)
      BY <2>2, <2>3, <2>6, PendingHead
    <3>2. rtxWire' = Append(rtxWire, Len(rtxWire)) BY <2>1, <2>6, <3>1
    <3>3. /\ rtxWire' \in Seq(Nat) /\ Len(rtxWire') = Len(rtxWire) + 1
          /\ RtxInOrder'
      BY <2>3, <3>2 DEF RtxInOrder
    <3>4. /\ rtxSequence' \in Nat /\ Len(rtxWire') <= rtxSequence'
          /\ Pending(u.repairs, Len(rtxWire'), rtxSequence')
      BY <2>1, <2>3, <2>4, <3>1, <3>3
    <3> QED BY <2>1, <2>2, <2>4, <3>3, <3>4, GoesOnKeepsOrder
  <2> QED BY <2>5, <2>6
<1> QED BY <1>1, <1>2, <1>3, <1>4, <1>5, <1>6 DEF HandleReport

LEMMA KeepsOrder ==
    ASSUME OrderInv, [Next]_vars
    PROVE  OrderInv'
<1> USE DEF OrderInv
<1>1. IInv' BY Keeps
<1>2. ASSUME UNCHANGED <<handler, rtxSequence, rtxWire>> PROVE HandlerInv' /\ RtxInv'
  <2>1. \A h \in Handlers : AtRepairs(h)' <=> AtRepairs(h) BY <1>2 DEF AtRepairs
  <2>2. HandlerInv' BY <1>2, <2>1 DEF HandlerInv
  <2>3. RtxInv' BY <1>2, <2>1 DEF RtxInv, RtxInOrder
  <2> QED BY <2>2, <2>3
<1>3. CASE UNCHANGED recoveryVars
  BY <1>1, <1>2, <1>3 DEF recoveryVars
<1>4. CASE CacheNext \/ Negotiate \/ Tick
  BY <1>1, <1>2, <1>4 DEF CacheNext, CachePacket, Negotiate, Tick
<1>5. ASSUME NEW h \in Handlers, (\E r \in Reports : Report(h, r)) \/ HandleReport(h)
      PROVE  OrderInv'
  BY <1>1, <1>5, ReportKeepsOrder
<1> QED BY <1>3, <1>4, <1>5
  DEF vars, Next, Send, Pace, SendVideo, PaceNext, TakePacket, MayTake,
  SendPacket, LockAgain, MayLockAgain, ThreadEnds, Leaves, MayEnd, StopPacer,
  CloseConnection, Recovers

LEMMA OrderInvariant == Spec => []OrderInv
<1>1. Init => HandlerInv /\ RtxInv
  <2> SUFFICES ASSUME Init PROVE HandlerInv /\ RtxInv
    OBVIOUS
  <2>1. /\ DOMAIN handler = Handlers /\ \A h \in Handlers : handler[h] = [at |-> "idle"]
        /\ rtxSequence = 0 /\ rtxWire = <<>>
    BY DEF Init, RecoveryInit, Idle
  <2>2. \A h \in Handlers : handler[h].at = "idle" BY <2>1
  <2> QED BY <2>1, <2>2 DEF HandlerInv, RtxInv, RtxInOrder, AtRepairs
<1>2. Init => OrderInv BY <1>1, InitIInv DEF OrderInv
<1>3. OrderInv /\ [Next]_vars => OrderInv' BY KeepsOrder
<1> QED BY <1>2, <1>3, PTL DEF Spec

(* RTX packets reach the transport in the order of their sequence numbers  *)
(* and none is missing, for any number of threads and reports:             *)
(* repairSendMutex_ is held from the drawing of the numbers to the sending *)
(* of the last of them.                                                    *)
THEOREM RtxIsInOrder == Spec => []RtxInOrder
<1>1. OrderInv => RtxInOrder BY DEF OrderInv, RtxInv
<1> QED BY <1>1, OrderInvariant, PTL

(* Two keyframes asked for by picture loss are a gap apart, however many   *)
(* threads handle reports: the exchange fails for all but one of those     *)
(* that read the same time of the last keyframe.                           *)
THEOREM KeyframesAreApart == Spec => KeyframesAreThrottled
<1>1. OrderInv /\ [Next]_vars =>
        [keyframes' # keyframes => lastKeyframe' - lastKeyframe >= KeyframeGap]_recoveryVars
  <2> SUFFICES ASSUME OrderInv, [Next]_vars, keyframes' # keyframes
               PROVE  lastKeyframe' - lastKeyframe >= KeyframeGap
    OBVIOUS
  <2>1. PICK h \in Handlers : AskForKeyframe(h)
    <3>1. CASE UNCHANGED recoveryVars BY <3>1 DEF recoveryVars
    <3>2. CASE CacheNext \/ Negotiate \/ Tick
      BY <3>2 DEF CacheNext, CachePacket, Negotiate, Tick
    <3>3. ASSUME NEW h \in Handlers, (\E r \in Reports : Report(h, r)) \/ HandleReport(h)
          PROVE  AskForKeyframe(h)
      BY <3>3 DEF Report, HandleReport, ReadKeyframeTime, TakeRequests, Repair, SendRepair
    <3> QED BY <3>1, <3>2, <3>3
      DEF vars, Next, Send, Pace, SendVideo, PaceNext, TakePacket, MayTake,
      SendPacket, LockAgain, MayLockAgain, ThreadEnds, Leaves, MayEnd,
      StopPacer, CloseConnection, Recovers
  <2>2. /\ handler[h].at = "exchange" /\ lastKeyframe = handler[h].previous
        /\ lastKeyframe' = handler[h].time
    BY <2>1 DEF AskForKeyframe, WinsExchange
  <2> QED BY <2>2 DEF OrderInv, HandlerInv
<1> QED BY <1>1, OrderInvariant, PTL DEF Spec, KeyframesAreThrottled

---------------------------------------------------------------------------
(* The pacer.  The packets it accepted are, in order, on the wire, in the  *)
(* hands of its thread and in its queue, until it fails or is stopped.     *)

Item == [packet : Int, size : Int, due : Int]

(* The packets of the queue follow those before it.                        *)
Follows(q, before) == \A i \in DOMAIN q : q[i].packet = before + i

(* The packets that left the queue.                                        *)
Gone == Len(wire) + (IF thread.at = "send" THEN 1 ELSE 0)

(* The packet the sender paces next.                                       *)
PacketDue == sender.first + Len(sender.sizes) - Len(sender.left)

Running == ~failed /\ ~stopped

PacingInv ==
    /\ paced \in Nat /\ wire \in Seq(Nat) /\ PacedWithoutGaps
    /\ thread.at = "send" => thread.packet = Len(wire) + 1
    /\ Gone <= paced /\ next \in Int
    /\ queue \in Seq(Item)
    /\ Running => Len(queue) = paced - Gone /\ Follows(queue, Gone)
    /\ stopped \/ (failed /\ thread.at # "lock") => queue = <<>>
    /\ stopped <=> closer # "open"

SenderShape ==
    /\ sender.at \in {"idle", "cache", "pace"}
    /\ sender.at # "idle" =>
          /\ sender = [at |-> sender.at, first |-> sender.first,
                       sizes |-> sender.sizes, left |-> sender.left]
          /\ sender.first \in Nat
          /\ sender.sizes \in Seq(Nat) \ {<<>>} /\ sender.left \in Seq(Nat) \ {<<>>}

(* What is cached and not yet paced is the frame being sent.               *)
SendingInv ==
    Running =>
        /\ sender.at = "idle" => cached = paced
        /\ sender.at = "cache" =>
              /\ sender.first = paced + 1
              /\ cached = paced + Len(sender.sizes) - Len(sender.left)
        /\ sender.at = "pace" =>
              /\ PacketDue = paced + 1
              /\ cached = paced + Len(sender.left)

PacerInv == IInv /\ PacingInv /\ SenderShape /\ SendingInv

LEMMA FollowsAppend ==
    ASSUME NEW q \in Seq(Item), NEW before \in Nat, Follows(q, before),
           NEW e \in Item, e.packet = before + Len(q) + 1
    PROVE  /\ Append(q, e) \in Seq(Item) /\ Len(Append(q, e)) = Len(q) + 1
           /\ Follows(Append(q, e), before)
<1> DEFINE s == Append(q, e)
<1>1. Len(q) \in Nat /\ DOMAIN q = 1 .. Len(q) OBVIOUS
<1>2. /\ s \in Seq(Item) /\ Len(s) = Len(q) + 1 /\ DOMAIN s = 1 .. (Len(q) + 1)
      /\ \A i \in 1 .. (Len(q) + 1) : s[i] = IF i = Len(q) + 1 THEN e ELSE q[i]
  BY <1>1
<1> HIDE DEF s
<1>3. ASSUME NEW i \in DOMAIN s PROVE s[i].packet = before + i
  <2>1. CASE i = Len(q) + 1 BY <2>1, <1>1, <1>2
  <2>2. CASE i # Len(q) + 1
    <3>1. i \in DOMAIN q /\ s[i] = q[i] BY <2>2, <1>1, <1>2
    <3> QED BY <3>1 DEF Follows
  <2> QED BY <2>1, <2>2
<1> QED BY <1>2, <1>3 DEF Follows, s

LEMMA FollowsTail ==
    ASSUME NEW q \in Seq(Item), q # <<>>, NEW before \in Nat, Follows(q, before)
    PROVE  /\ Tail(q) \in Seq(Item) /\ Len(Tail(q)) = Len(q) - 1
           /\ Head(q).packet = before + 1 /\ Follows(Tail(q), before + 1)
<1> DEFINE t == Tail(q)
<1>1. Len(q) \in Nat /\ DOMAIN q = 1 .. Len(q) /\ Len(q) # 0 /\ Head(q) = q[1]
  OBVIOUS
<1>2. /\ t \in Seq(Item) /\ Len(t) = Len(q) - 1 /\ DOMAIN t = 1 .. (Len(q) - 1)
      /\ \A i \in 1 .. (Len(q) - 1) : t[i] = q[i + 1]
  BY <1>1
<1> HIDE DEF t
<1>3. ASSUME NEW i \in DOMAIN t PROVE t[i].packet = before + 1 + i
  <2>1. i + 1 \in DOMAIN q /\ t[i] = q[i + 1] /\ i \in Nat BY <1>1, <1>2
  <2>2. q[i + 1].packet = before + (i + 1) BY <2>1 DEF Follows
  <2> QED BY <2>1, <2>2
<1>4. q[1].packet = before + 1 BY <1>1 DEF Follows
<1> QED BY <1>1, <1>2, <1>3, <1>4 DEF Follows, t

(* A sequence of more than one element loses its first.                    *)
LEMMA Shorter ==
    ASSUME NEW s \in Seq(Nat) \ {<<>>}
    PROVE  /\ Len(s) \in Nat /\ Len(s) >= 1 /\ Head(s) \in Nat
           /\ Len(s) # 1 => Tail(s) \in Seq(Nat) \ {<<>>} /\ Len(Tail(s)) = Len(s) - 1
<1>1. Len(s) \in Nat /\ Len(s) # 0 /\ Head(s) \in Nat OBVIOUS
<1>2. Tail(s) \in Seq(Nat) /\ Len(Tail(s)) = Len(s) - 1 BY <1>1
<1>3. Len(<<>>) = 0 OBVIOUS
<1>4. ASSUME Len(s) # 1 PROVE Tail(s) # <<>>
  <2>1. Len(Tail(s)) # 0 BY <1>1, <1>2, <1>4
  <2> QED BY <2>1, <1>3
<1> QED BY <1>1, <1>2, <1>4

(* One packet more on the wire.                                            *)
LEMMA WireGrows ==
    ASSUME NEW w \in Seq(Nat), w = [i \in 1 .. Len(w) |-> i]
    PROVE  LET v == Append(w, Len(w) + 1)
           IN  v \in Seq(Nat) /\ Len(v) = Len(w) + 1 /\ v = [i \in 1 .. Len(v) |-> i]
<1> DEFINE v == Append(w, Len(w) + 1)
<1>1. Len(w) \in Nat /\ DOMAIN w = 1 .. Len(w) OBVIOUS
<1>2. v \in Seq(Nat) /\ Len(v) = Len(w) + 1 /\ DOMAIN v = 1 .. Len(v)
      /\ \A i \in 1 .. (Len(w) + 1) : v[i] = IF i = Len(w) + 1 THEN Len(w) + 1 ELSE w[i]
  BY <1>1
<1>3. v = [i \in DOMAIN v |-> v[i]] BY <1>2
<1> HIDE DEF v
<1>4. ASSUME NEW i \in 1 .. Len(v) PROVE v[i] = i
  <2>1. CASE i = Len(w) + 1 BY <2>1, <1>1, <1>2
  <2>2. CASE i # Len(w) + 1
    <3>1. i \in 1 .. Len(w) /\ v[i] = w[i] BY <2>2, <1>1, <1>2
    <3>2. w[i] = i BY <3>1
    <3> QED BY <3>1, <3>2
  <2> QED BY <2>1, <2>2
<1>5. v = [i \in 1 .. Len(v) |-> i] BY <1>2, <1>3, <1>4
<1> QED BY <1>2, <1>5 DEF v

LEMMA LaterOf ==
    ASSUME NEW a \in Int, NEW b \in Int
    PROVE  Max({a, b}) \in Int
<1> DEFINE m == IF a >= b THEN a ELSE b
<1>1. m \in {a, b} /\ m \in Int /\ \A y \in {a, b} : m >= y OBVIOUS
<1>2. \A x \in {a, b} : (\A y \in {a, b} : x >= y) => x = m OBVIOUS
<1> HIDE DEF m
<1>3. Max({a, b}) = m BY <1>1, <1>2, Zenon DEF Max
<1> QED BY <1>1, <1>3

LEMMA SendVideoKeepsPacer ==
    ASSUME PacerInv, NEW f \in Frames, SendVideo(f)
    PROVE  PacingInv' /\ SenderShape' /\ SendingInv'
<1>1. /\ UNCHANGED <<cached, queue, next, failed, stopped, thread, wire, paced, closer>>
      /\ sender = Rests /\ sender.at = "idle" /\ ~failed /\ closer = "open"
      /\ sender' = [at |-> "cache", first |-> cached + 1, sizes |-> f, left |-> f]
  BY DEF SendVideo, recoveryVars, cacheVars, pacerVars, Rests
<1>2. f \in Seq(Nat) \ {<<>>} /\ cached \in Nat
  BY PacerAssumption DEF PacerInv, IInv, CacheInv
<1>3. PacingInv' BY <1>1 DEF PacerInv, PacingInv, Running, Gone, PacedWithoutGaps
<1>4. SenderShape' BY <1>1, <1>2 DEF SenderShape
<1>5. SendingInv'
  <2>1. Running' = Running /\ sender'.at = "cache" BY <1>1 DEF Running
  <2>2. Running => cached = paced BY <1>1 DEF PacerInv, SendingInv
  <2>3. Len(f) \in Nat BY <1>2
  <2>4. Running => /\ sender'.first = paced' + 1
                   /\ cached' = paced' + Len(sender'.sizes) - Len(sender'.left)
    BY <1>1, <1>2, <2>2, <2>3
  <2> QED BY <2>1, <2>4 DEF SendingInv
<1> QED BY <1>3, <1>4, <1>5

LEMMA CacheNextKeepsPacer ==
    ASSUME PacerInv, CacheNext
    PROVE  PacingInv' /\ SenderShape' /\ SendingInv'
<1> DEFINE n == Len(sender.left)
<1>1. /\ UNCHANGED <<queue, next, failed, stopped, thread, wire, paced, closer>>
      /\ cached' = cached + 1 /\ sender.at = "cache"
  BY DEF CacheNext, CachePacket, pacerVars
<1>2. /\ sender = [at |-> "cache", first |-> sender.first,
                   sizes |-> sender.sizes, left |-> sender.left]
      /\ sender.first \in Nat
      /\ sender.sizes \in Seq(Nat) \ {<<>>} /\ sender.left \in Seq(Nat) \ {<<>>}
  BY <1>1 DEF PacerInv, SenderShape
<1>3. cached \in Nat /\ paced \in Nat
  BY DEF PacerInv, IInv, CacheInv, PacingInv
<1>4. PacingInv' BY <1>1 DEF PacerInv, PacingInv, Running, Gone, PacedWithoutGaps
<1>5. n \in Nat /\ n >= 1 /\ Len(sender.sizes) \in Nat BY <1>2, Shorter
<1>6. Running' = Running BY <1>1 DEF Running
<1>7. Running => sender.first = paced + 1 /\ cached = paced + Len(sender.sizes) - n
  BY <1>1 DEF PacerInv, SendingInv
<1>8. CASE n = 1
  <2>1. sender' = [at |-> "pace", first |-> sender.first,
                   sizes |-> sender.sizes, left |-> sender.sizes]
    BY <1>2, <1>8 DEF CacheNext
  <2>2. SenderShape' BY <2>1, <1>2 DEF SenderShape
  <2>3. Running => /\ PacketDue' = paced' + 1
                   /\ cached' = paced' + Len(sender'.left)
    BY <2>1, <1>1, <1>3, <1>5, <1>7, <1>8 DEF PacketDue
  <2>4. sender'.at = "pace" BY <2>1
  <2> QED BY <2>2, <2>3, <2>4, <1>4, <1>6 DEF SendingInv
<1>9. CASE n # 1
  <2>1. sender' = [at |-> "cache", first |-> sender.first,
                   sizes |-> sender.sizes, left |-> Tail(sender.left)]
    BY <1>2, <1>9 DEF CacheNext
  <2>2. Tail(sender.left) \in Seq(Nat) \ {<<>>} /\ Len(Tail(sender.left)) = n - 1
    BY <1>2, <1>9, Shorter
  <2>3. SenderShape' BY <2>1, <2>2, <1>2 DEF SenderShape
  <2>4. Running => /\ sender'.first = paced' + 1
                   /\ cached' = paced' + Len(sender'.sizes) - Len(sender'.left)
    <3>1. /\ sender'.first = sender.first /\ sender'.sizes = sender.sizes
          /\ Len(sender'.left) = n - 1
      BY <2>1, <2>2
    <3> HIDE DEF n
    <3> QED BY <3>1, <1>1, <1>3, <1>5, <1>7
  <2>5. sender'.at = "cache" BY <2>1
  <2> QED BY <2>3, <2>4, <2>5, <1>4, <1>6 DEF SendingInv
<1> QED BY <1>8, <1>9

LEMMA PaceNextKeepsPacer ==
    ASSUME PacerInv, PaceNext
    PROVE  PacingInv' /\ SenderShape' /\ SendingInv'
<1> DEFINE n == Len(sender.left)
           size == Head(sender.left)
           start == Max({next, now})
           e == [packet |-> PacketDue, size |-> size, due |-> start]
<1>1. /\ UNCHANGED <<cached, thread, wire, stopped, closer>> /\ sender.at = "pace"
  BY DEF PaceNext, recoveryVars, cacheVars, pacerVars
<1>2. /\ sender = [at |-> "pace", first |-> sender.first,
                   sizes |-> sender.sizes, left |-> sender.left]
      /\ sender.first \in Nat
      /\ sender.sizes \in Seq(Nat) \ {<<>>} /\ sender.left \in Seq(Nat) \ {<<>>}
  BY <1>1 DEF PacerInv, SenderShape
<1>3. /\ cached \in Nat /\ paced \in Nat /\ wire \in Seq(Nat) /\ next \in Int
      /\ queue \in Seq(Item) /\ Gone <= paced
  BY DEF PacerInv, IInv, CacheInv, PacingInv
<1>4. n \in Nat /\ n >= 1 /\ size \in Nat /\ Len(sender.sizes) \in Nat
  BY <1>2, Shorter
<1>5. start \in Int
  <2>1. now \in Int BY ReceiverAssumption DEF PacerInv, IInv, RateInv, Times
  <2> QED BY <2>1, <1>3, LaterOf
<1>6. Len(wire) \in Nat /\ Gone \in Nat /\ Gone' = Gone BY <1>1, <1>3 DEF Gone
<1> HIDE DEF start
<1>7. /\ sender' = Rests \/ sender' = [sender EXCEPT !.left = Tail(@)]
      /\ n = 1 \/ failed \/ stopped => sender' = Rests
      /\ ~(n = 1 \/ failed \/ stopped) /\ ~Overrun(size, start) =>
            sender' = [sender EXCEPT !.left = Tail(@)]
      /\ sender' # Rests => n # 1
  BY DEF PaceNext, start
<1>8. SenderShape'
  <2>1. CASE sender' = Rests BY <2>1 DEF Rests, SenderShape
  <2>2. CASE sender' # Rests
    <3>1. sender' = [at |-> "pace", first |-> sender.first,
                     sizes |-> sender.sizes, left |-> Tail(sender.left)]
      BY <2>2, <1>7, <1>2
    <3>2. Tail(sender.left) \in Seq(Nat) \ {<<>>} BY <2>2, <1>2, <1>7, Shorter
    <3> QED BY <3>1, <3>2, <1>2 DEF SenderShape
  <2> QED BY <2>1, <2>2
<1>9. CASE ~Running
  <2>1. UNCHANGED <<queue, next, failed, paced>>
    BY <1>9 DEF PaceNext, pacerVars, Running
  <2>2. ~Running' BY <2>1, <1>1, <1>9 DEF Running
  <2>3. PacingInv'
    BY <2>1, <2>2, <1>1, <1>6, <1>9 DEF PacerInv, PacingInv, PacedWithoutGaps
  <2> QED BY <2>2, <2>3, <1>8 DEF SendingInv
<1>10. CASE Running /\ Overrun(size, start)
  <2>1. failed' = TRUE /\ queue' = <<>> /\ next' = start /\ paced' = paced
    BY <1>10 DEF PaceNext, Running, start
  <2>2. ~Running' BY <2>1 DEF Running
  <2>3. <<>> \in Seq(Item) OBVIOUS
  <2>4. PacingInv'
    BY <2>1, <2>2, <2>3, <1>1, <1>5, <1>6 DEF PacerInv, PacingInv, PacedWithoutGaps
  <2> QED BY <2>2, <2>4, <1>8 DEF SendingInv
<1>11. CASE Running /\ ~Overrun(size, start)
  <2>1. /\ failed' = failed /\ queue' = Append(queue, e)
        /\ next' = start + size /\ paced' = paced + 1
    BY <1>11 DEF PaceNext, Running, start, PacketDue
  <2>2. Running' /\ ~failed /\ ~stopped BY <2>1, <1>1, <1>11 DEF Running
  <2>3. PacketDue = paced + 1 /\ cached = paced + n
    BY <1>1, <1>11 DEF PacerInv, SendingInv
  <2>4. Len(queue) = paced - Gone /\ Follows(queue, Gone)
    BY <1>11 DEF PacerInv, PacingInv
  <2>5. e \in Item /\ e.packet = Gone + Len(queue) + 1
    BY <2>3, <2>4, <1>3, <1>4, <1>5, <1>6 DEF Item
  <2> HIDE DEF e
  <2>6. /\ queue' \in Seq(Item) /\ Len(queue') = paced' - Gone'
        /\ Follows(queue', Gone')
    <3>1. Append(queue, e) \in Seq(Item) /\ Len(Append(queue, e)) = Len(queue) + 1
          /\ Follows(Append(queue, e), Gone)
      BY <2>4, <2>5, <1>3, <1>6, FollowsAppend
    <3>2. Len(queue) + 1 = (paced + 1) - Gone BY <2>4, <1>3, <1>6
    <3> QED BY <3>1, <3>2, <2>1, <1>6
  <2>7. PacingInv'
    <3>1. paced' \in Nat /\ Gone' <= paced' /\ next' \in Int
      BY <2>1, <1>3, <1>4, <1>5, <1>6
    <3>2. Len(wire) <= paced' /\ wire = [i \in 1 .. Len(wire) |-> i]
      BY <2>1, <1>3, <1>6 DEF PacerInv, PacingInv, PacedWithoutGaps
    <3> QED BY <3>1, <3>2, <2>1, <2>2, <2>6, <1>1
      DEF PacerInv, PacingInv, PacedWithoutGaps
  <2>8. SendingInv'
    <3>1. CASE n = 1
      <4>1. sender'.at = "idle" BY <3>1, <1>7 DEF Rests
      <4> QED BY <4>1, <3>1, <2>1, <2>3, <1>1 DEF SendingInv
    <3>2. CASE n # 1
      <4>1. sender' = [at |-> "pace", first |-> sender.first,
                       sizes |-> sender.sizes, left |-> Tail(sender.left)]
        BY <3>2, <2>2, <1>7, <1>11, <1>2
      <4>2. Len(Tail(sender.left)) = n - 1 BY <3>2, <1>2, Shorter
      <4>3. sender'.at = "pace" BY <4>1
      <4>4. PacketDue' = paced' + 1 /\ cached' = paced' + Len(sender'.left)
        BY SMTT(20), <4>1, <4>2, <2>1, <2>3, <1>1, <1>2, <1>3, <1>4 DEF PacketDue
      <4> QED BY <4>3, <4>4 DEF SendingInv
    <3> QED BY <3>1, <3>2
  <2> QED BY <2>7, <2>8, <1>8
<1> QED BY <1>9, <1>10, <1>11

(* The steps of the pacer's thread and of a close.                         *)
LEMMA ThreadKeepsPacer ==
    ASSUME PacerInv, Pace \/ StopPacer \/ CloseConnection
    PROVE  PacingInv' /\ SenderShape' /\ SendingInv'
<1>1. /\ UNCHANGED <<cached, sender, next, paced>>
      /\ Running' => Running
  BY DEF Pace, TakePacket, MayTake, SendPacket, LockAgain, MayLockAgain,
     ThreadEnds, Leaves, MayEnd, StopPacer, CloseConnection, recoveryVars,
     cacheVars, pacerVars, Running
<1>2. SenderShape' BY <1>1 DEF PacerInv, SenderShape
<1>3. SendingInv' BY <1>1 DEF PacerInv, SendingInv, PacketDue
<1>4. /\ paced \in Nat /\ wire \in Seq(Nat) /\ next \in Int /\ queue \in Seq(Item)
      /\ Gone <= paced /\ Len(wire) <= paced /\ wire = [i \in 1 .. Len(wire) |-> i]
      /\ Len(wire) \in Nat /\ Gone \in Nat
  <2>1. /\ paced \in Nat /\ wire \in Seq(Nat) /\ next \in Int /\ queue \in Seq(Item)
        /\ Gone <= paced /\ Len(wire) <= paced /\ wire = [i \in 1 .. Len(wire) |-> i]
    BY DEF PacerInv, PacingInv, PacedWithoutGaps
  <2>2. Len(wire) \in Nat BY <2>1
  <2> QED BY <2>1, <2>2 DEF Gone
<1>5. /\ Running => Len(queue) = paced - Gone /\ Follows(queue, Gone)
      /\ stopped \/ (failed /\ thread.at # "lock") => queue = <<>>
      /\ stopped <=> closer # "open"
      /\ thread.at = "send" => thread.packet = Len(wire) + 1
  BY DEF PacerInv, PacingInv
<1>6. <<>> \in Seq(Item) OBVIOUS
<1>7. ASSUME TakePacket PROVE PacingInv'
  <2>1. /\ UNCHANGED <<failed, stopped, wire, closer>> /\ queue' = Tail(queue)
        /\ thread.at = "loop" /\ ~stopped /\ queue # <<>>
        /\ thread' = [at |-> "send", packet |-> Head(queue).packet]
    BY <1>7 DEF TakePacket, MayTake
  <2>2. Running /\ Running' BY <2>1, <1>5 DEF Running
  <2>3. Gone = Len(wire) /\ thread'.at = "send" /\ Gone' = Gone + 1
    BY <2>1, <1>4 DEF Gone
  <2>4. /\ Tail(queue) \in Seq(Item) /\ Len(Tail(queue)) = Len(queue) - 1
        /\ Head(queue).packet = Gone + 1 /\ Follows(Tail(queue), Gone + 1)
    BY <2>1, <2>2, <1>4, <1>5, FollowsTail
  <2>5. thread'.packet = Len(wire') + 1 BY <2>1, <2>3, <2>4
  <2>6. Len(queue) \in Nat /\ Len(queue) # 0 BY <1>4, <2>1
  <2>7. Len(queue') = paced' - Gone' /\ Gone' <= paced'
    BY <2>1, <2>2, <2>3, <2>4, <2>6, <1>1, <1>4, <1>5
  <2>8. /\ queue' \in Seq(Item) /\ Follows(queue', Gone') /\ ~failed' /\ ~stopped'
        /\ closer' = "open"
    BY <2>1, <2>2, <2>3, <2>4, <1>5 DEF Running
  <2> QED BY <2>1, <2>2, <2>5, <2>7, <2>8, <1>1, <1>4 DEF PacingInv, PacedWithoutGaps
<1>8. ASSUME SendPacket PROVE PacingInv'
  <2>1. /\ UNCHANGED <<queue, stopped, closer>> /\ thread.at = "send"
        /\ thread'.at = "lock"
        /\ \/ wire' = Append(wire, thread.packet) /\ failed' = failed
           \/ failed' = TRUE /\ wire' = wire
    BY <1>8 DEF SendPacket
  <2>2. Gone = Len(wire) + 1 /\ thread.packet = Len(wire) + 1 BY <2>1, <1>5 DEF Gone
  <2>3. CASE wire' = Append(wire, thread.packet) /\ failed' = failed
    <3>1. wire' \in Seq(Nat) /\ Len(wire') = Len(wire) + 1
          /\ wire' = [i \in 1 .. Len(wire') |-> i]
      BY <2>2, <2>3, <1>4, WireGrows
    <3>2. Gone' = Gone /\ Running' = Running
      BY <2>1, <2>2, <2>3, <3>1, <1>4 DEF Gone, Running
    <3>3. Len(wire') <= paced BY <3>1, <2>2, <1>4
    <3> QED BY <2>1, <2>3, <3>1, <3>2, <3>3, <1>1, <1>4, <1>5
      DEF PacingInv, PacedWithoutGaps
  <2>4. CASE failed' = TRUE /\ wire' = wire
    <3>1. Gone' = Len(wire) /\ ~Running' BY <2>1, <2>4, <1>4 DEF Gone, Running
    <3> QED BY <2>1, <2>4, <3>1, <1>1, <1>4, <1>5 DEF PacingInv, PacedWithoutGaps
  <2> QED BY <2>1, <2>3, <2>4
<1>9. ASSUME LockAgain PROVE PacingInv'
  <2>1. /\ UNCHANGED <<failed, stopped, wire, closer>> /\ thread.at = "lock"
        /\ thread'.at = "loop" /\ queue' = IF failed THEN <<>> ELSE queue
    BY <1>9 DEF LockAgain, MayLockAgain, QueueAfterSend
  <2>2. Gone' = Gone /\ Running' = Running BY <2>1, <1>4 DEF Gone, Running
  <2>3. CASE failed
    <3>1. ~Running' BY <2>1, <2>3 DEF Running
    <3> QED BY <2>1, <2>2, <2>3, <3>1, <1>1, <1>4, <1>5, <1>6
      DEF PacingInv, PacedWithoutGaps
  <2>4. CASE ~failed
    BY <2>1, <2>2, <2>4, <1>1, <1>4, <1>5 DEF PacingInv, PacedWithoutGaps
  <2> QED BY <2>3, <2>4
<1>10. ASSUME ThreadEnds PROVE PacingInv'
  <2>1. /\ UNCHANGED <<failed, stopped, wire, queue, closer>> /\ thread.at = "loop"
        /\ thread'.at = "ended"
    BY <1>10 DEF ThreadEnds, Leaves, MayEnd
  <2>2. Gone' = Gone /\ Running' = Running BY <2>1, <1>4 DEF Gone, Running
  <2> QED BY <2>1, <2>2, <1>1, <1>4, <1>5 DEF PacingInv, PacedWithoutGaps
<1>11. ASSUME StopPacer PROVE PacingInv'
  <2>1. /\ UNCHANGED <<failed, wire, thread>> /\ stopped' = TRUE /\ queue' = <<>>
        /\ closer' = "join"
    BY <1>11 DEF StopPacer
  <2>2. Gone' = Gone /\ ~Running' BY <2>1 DEF Gone, Running
  <2> QED BY <2>1, <2>2, <1>1, <1>4, <1>5, <1>6 DEF PacingInv, PacedWithoutGaps
<1>12. ASSUME CloseConnection PROVE PacingInv'
  <2>1. /\ UNCHANGED <<failed, wire, thread, queue, stopped>>
        /\ closer = "join" /\ closer' = "closed"
    BY <1>12 DEF CloseConnection, pacerVars
  <2>2. Gone' = Gone /\ Running' = Running BY <2>1 DEF Gone, Running
  <2> QED BY <2>1, <2>2, <1>1, <1>4, <1>5 DEF PacingInv, PacedWithoutGaps
<1> QED BY <1>2, <1>3, <1>7, <1>8, <1>9, <1>10, <1>11, <1>12 DEF Pace

LEMMA PacerInvariant == Spec => []PacerInv
<1>1. Init => PacerInv
  <2> SUFFICES ASSUME Init PROVE PacerInv
    OBVIOUS
  <2>1. /\ cached = 0 /\ sender = Rests /\ queue = <<>> /\ next = 0 /\ failed = FALSE
        /\ stopped = FALSE /\ thread = [at |-> "loop"] /\ closer = "open"
        /\ wire = <<>> /\ paced = 0
    BY DEF Init, RecoveryInit
  <2>2. sender.at = "idle" /\ thread.at = "loop" BY <2>1 DEF Rests
  <2>3. <<>> \in Seq(Nat) /\ <<>> \in Seq(Item) /\ Len(<<>>) = 0
        /\ DOMAIN <<>> = {} /\ <<>> = [i \in 1 .. 0 |-> i]
    OBVIOUS
  <2>4. Gone = 0 /\ Follows(queue, Gone) BY <2>1, <2>2, <2>3 DEF Gone, Follows
  <2>5. PacedWithoutGaps /\ Len(queue) = paced - Gone /\ wire \in Seq(Nat)
        /\ queue \in Seq(Item)
    BY <2>1, <2>3, <2>4 DEF PacedWithoutGaps
  <2>6. PacingInv BY <2>1, <2>2, <2>4, <2>5 DEF PacingInv
  <2>7. SenderShape /\ SendingInv BY <2>1, <2>2 DEF SenderShape, SendingInv
  <2> QED BY <2>6, <2>7, InitIInv DEF PacerInv
<1>2. PacerInv /\ [Next]_vars => PacerInv'
  <2> SUFFICES ASSUME PacerInv, [Next]_vars PROVE PacerInv'
    OBVIOUS
  <2>1. IInv' BY Keeps DEF PacerInv
  <2>2. ASSUME UNCHANGED <<cached, transportVars>> PROVE PacerInv'
    BY <2>1, <2>2 DEF transportVars, pacerVars, PacerInv, PacingInv, SenderShape,
       SendingInv, PacketDue, Running, Gone, PacedWithoutGaps
  <2>3. CASE UNCHANGED vars BY <2>2, <2>3 DEF vars, recoveryVars, cacheVars
  <2>4. ASSUME NEW f \in Frames, SendVideo(f) PROVE PacerInv'
    BY <2>1, <2>4, SendVideoKeepsPacer DEF PacerInv
  <2>5. CASE CacheNext BY <2>1, <2>5, CacheNextKeepsPacer DEF PacerInv
  <2>6. CASE PaceNext BY <2>1, <2>6, PaceNextKeepsPacer DEF PacerInv
  <2>7. CASE Pace \/ StopPacer \/ CloseConnection
    BY <2>1, <2>7, ThreadKeepsPacer DEF PacerInv
  <2>8. CASE Recovers(Negotiate) \/ Recovers(Tick)
    BY <2>2, <2>8 DEF Recovers, Negotiate, Tick, cacheVars
  <2>9. ASSUME NEW h \in Handlers,
               (\E r \in Reports : Recovers(Report(h, r))) \/ Recovers(HandleReport(h))
        PROVE  PacerInv'
    BY <2>2, <2>9 DEF Recovers, Report, HandleReport, ReadKeyframeTime, AskForKeyframe,
       TakeRequests, Repair, SendRepair, cacheVars
  <2> QED BY <2>3, <2>4, <2>5, <2>6, <2>7, <2>8, <2>9 DEF Next, Send
<1> QED BY <1>1, <1>2, PTL DEF Spec

(* What the pacer's thread hands to the peer connection is a gapless       *)
(* beginning of what the pacer accepted, for every size of the queue,      *)
(* every schedule and every failure (video_pacer.h 27 to 51).              *)
THEOREM PacedIsGapless == Spec => []PacedWithoutGaps
<1>1. PacerInv => PacedWithoutGaps BY DEF PacerInv, PacingInv
<1> QED BY <1>1, PacerInvariant, PTL

---------------------------------------------------------------------------
(* The close.                                                              *)

(* Whoever closes has stopped the pacer, and it waits for the thread.      *)
CloseInv ==
    /\ thread.at \in {"loop", "send", "lock", "ended"}
    /\ closer \in {"open", "join", "closed"}
    /\ closer # "open" => stopped
    /\ closer = "closed" => thread.at = "ended"

LEMMA CloseInvariant == Spec => []CloseInv
<1>1. Init => CloseInv BY DEF Init, CloseInv
<1>2. CloseInv /\ [Next]_vars => CloseInv'
  <2> SUFFICES ASSUME CloseInv, [Next]_vars PROVE CloseInv'
    OBVIOUS
  <2>1. ASSUME UNCHANGED <<thread, closer, stopped>> PROVE CloseInv'
    BY <2>1 DEF CloseInv
  <2>2. CASE UNCHANGED vars BY <2>1, <2>2 DEF vars, transportVars, pacerVars
  <2>3. CASE Send
    BY <2>1, <2>3 DEF Send, SendVideo, CacheNext, PaceNext, pacerVars
  <2>4. CASE TakePacket BY <2>4 DEF TakePacket, MayTake, CloseInv
  <2>5. CASE SendPacket BY <2>5 DEF SendPacket, CloseInv
  <2>6. CASE LockAgain BY <2>6 DEF LockAgain, MayLockAgain, CloseInv
  <2>7. CASE ThreadEnds BY <2>7 DEF ThreadEnds, CloseInv
  <2>8. CASE StopPacer BY <2>8 DEF StopPacer, CloseInv
  <2>9. CASE CloseConnection BY <2>9 DEF CloseConnection, Joined, CloseInv, pacerVars
  <2>10. CASE Recovers(Negotiate) \/ Recovers(Tick)
    BY <2>1, <2>10 DEF Recovers, transportVars, pacerVars
  <2>11. ASSUME NEW h \in Handlers,
                (\E r \in Reports : Recovers(Report(h, r))) \/ Recovers(HandleReport(h))
         PROVE  CloseInv'
    BY <2>1, <2>11 DEF Recovers, transportVars, pacerVars
  <2> QED BY <2>2, <2>3, <2>4, <2>5, <2>6, <2>7, <2>8, <2>9, <2>10, <2>11 DEF Next, Pace
<1> QED BY <1>1, <1>2, PTL DEF Spec

(* A close never waits for a thread that waits itself: the stop lets the   *)
(* pacer's thread go on from wherever it is, unless the sender is at the   *)
(* pacer, and once the connection is closed the thread has ended           *)
(* (video_pacer.h 24, 39 to 52; webrtc_client.cpp 225).                    *)
THEOREM ClosesCleanly == Spec => []CloseIsClean
<1>1. CloseInv => CloseIsClean
  BY DEF CloseInv, CloseIsClean, Joined, PacerRuns, MayLockAgain, MayEnd, Leaves
<1> QED BY <1>1, CloseInvariant, PTL
=============================================================================
