------------------------- MODULE AlphaPipelineProofs -------------------------
(***************************************************************************)
(* Proofs about the video send path with a transparent source, for any     *)
(* set of viewers, any bounds and any number of slots and interventions.   *)
(*                                                                         *)
(* The first part is about the pairer alone, for packets of any identity   *)
(* submitted in any order and any number of times (PairerSpec).  PairedOnce*)
(* is not inductive: a completed identity is forgotten when the list of    *)
(* completed identities overflows or is cleared.  The strengthening is     *)
(* Remembered: what was paired is still on the list, or its admission      *)
(* sequence is covered by the watermark below which a packet is dropped.   *)
(*                                                                         *)
(* The second part is about the pipeline, which implements PairerSpec.     *)
(* PairsShowOneFrame rests on the correlation times: output slots increase *)
(* strictly, so the time the tracker gives a frame is the time of its own  *)
(* slot, and everything that carries that time shows that slot's frame     *)
(* (the sets Colour, Job, Own below).                                      *)
(*                                                                         *)
(* ChainIsUnbroken is not inductive.  A viewer's place in the chain,       *)
(* lastAlphaPrimaryEncodedSequence, is not reset with its transport; the   *)
(* strengthening ChainInv says that a viewer that does not wait either was *)
(* sent that very frame on its present transport, or has a cutoff that     *)
(* covers every half that would continue the old chain.                    *)
(***************************************************************************)
EXTENDS AlphaPipeline, TLAPS

---------------------------------------------------------------------------
(* The pairer.                                                             *)

Remembered ==
  \A i \in 1..Len(pairs) :
    \/ pairs[i].primary.seq <= watermark
    \/ \E k \in 1..Len(completed) : completed[k] = Identity(pairs[i].primary)

\* The clock is at the last pair, and no pair is later.
ClockAtLast ==
  /\ pairs = <<>> => lastTransportPts = NoTimestamp
  /\ \A i \in 1..Len(pairs) : pairs[i].pts <= lastTransportPts

Inv == PairerTypeOK /\ PairsExact /\ Remembered /\ ClockAtLast

---------------------------------------------------------------------------
(* Sequences.                                                              *)

\* Removing an element keeps the type and shortens the sequence by one.
LEMMA WithoutType ==
  ASSUME NEW S, NEW s \in Seq(S), NEW i \in 1..Len(s)
  PROVE  /\ Without(s, i) \in Seq(S)
         /\ Len(Without(s, i)) = Len(s) - 1
<1>1. Len(s) - 1 \in Nat
  OBVIOUS
<1>2. Without(s, i) \in [1..(Len(s) - 1) -> S]
  BY DEF Without
<1> QED
  BY <1>1, <1>2

\* A bounded push keeps the type and the bound, and keeps the pushed element.
LEMMA BoundedPush ==
  ASSUME NEW S, NEW s \in Seq(S), NEW e \in S, NEW n \in Nat \ {0},
         Len(s) <= n
  PROVE  /\ Bounded(Append(s, e), n) \in Seq(S)
         /\ Len(Bounded(Append(s, e), n)) <= n
         /\ Len(s) = n => Bounded(Append(s, e), n) = Tail(Append(s, e))
         /\ Len(s) # n => Bounded(Append(s, e), n) = Append(s, e)
<1>1. Append(s, e) \in Seq(S) /\ Len(Append(s, e)) = Len(s) + 1
  OBVIOUS
<1>2. Append(s, e) # <<>>
  OBVIOUS
<1>3. Tail(Append(s, e)) \in Seq(S) /\ Len(Tail(Append(s, e))) = Len(s)
  BY <1>1, <1>2
<1> QED
  BY <1>1, <1>3 DEF Bounded

\* Removing an element keeps what holds of all elements and of all pairs in
\* order.
LEMMA WithoutElements ==
  ASSUME NEW S, NEW s \in Seq(S), NEW i \in 1..Len(s)
  PROVE  /\ \A j \in 1..Len(Without(s, i)) :
              Without(s, i)[j] = s[IF j < i THEN j ELSE j + 1]
         /\ Len(Without(s, i)) = Len(s) - 1
<1>1. Len(s) - 1 \in Nat
  OBVIOUS
<1>2. Without(s, i) = [j \in 1..(Len(s) - 1) |->
                         IF j < i THEN s[j] ELSE s[j + 1]]
  BY DEF Without
<1>3. Len(Without(s, i)) = Len(s) - 1
  BY WithoutType
<1> QED
  BY <1>1, <1>2, <1>3

\* What a bounded push still holds: everything but the oldest of a full deque.
LEMMA BoundedPushKeeps ==
  ASSUME NEW S, NEW s \in Seq(S), NEW e \in S, NEW n \in Nat \ {0},
         Len(s) <= n
  PROVE  LET b == Bounded(Append(s, e), n) IN
         /\ \E k \in 1..Len(b) : b[k] = e
         /\ \A j \in 1..Len(s) :
              (Len(s) = n /\ j = 1) \/ \E k \in 1..Len(b) : b[k] = s[j]
<1> DEFINE a == Append(s, e)
           b == Bounded(a, n)
<1>1. a \in Seq(S) /\ Len(a) = Len(s) + 1 /\ a # <<>>
  OBVIOUS
<1>2. a[Len(s) + 1] = e /\ \A j \in 1..Len(s) : a[j] = s[j]
  OBVIOUS
<1>3. CASE Len(s) # n
  <2>1. b = a
    BY <1>1, <1>3 DEF Bounded
  <2> QED
    BY <1>1, <1>2, <2>1, <1>3
<1>4. CASE Len(s) = n
  <2>1. b = Tail(a)
    BY <1>1, <1>4 DEF Bounded
  <2>2. Len(b) = Len(s) /\ \A k \in 1..Len(s) : b[k] = a[k + 1]
    BY <1>1, <2>1
  <2>3. b[Len(s)] = e /\ Len(s) \in 1..Len(b)
    BY <1>2, <1>4, <2>2
  <2>4. ASSUME NEW j \in 1..Len(s), j # 1
        PROVE  b[j - 1] = s[j] /\ j - 1 \in 1..Len(b)
    BY <1>2, <2>2, <2>4
  <2> QED
    BY <1>4, <2>3, <2>4
<1> QED
  BY <1>3, <1>4

\* The same for one older element, as the pairing step uses it.
LEMMA BoundedPushKept ==
  ASSUME NEW S, NEW s \in Seq(S), NEW e \in S, NEW n \in Nat \ {0},
         Len(s) <= n, NEW j \in 1..Len(s), ~(Len(s) = n /\ j = 1)
  PROVE  \E k \in 1..Len(Bounded(Append(s, e), n)) :
            Bounded(Append(s, e), n)[k] = s[j]
<1> DEFINE b == Bounded(Append(s, e), n)
<1>1. \A i \in 1..Len(s) :
        (Len(s) = n /\ i = 1) \/ \E k \in 1..Len(b) : b[k] = s[i]
  BY SMTT(20), BoundedPushKeeps
<1> QED
  BY <1>1

---------------------------------------------------------------------------
(* The tracker.                                                            *)

\* An admission is well formed and later than every earlier one.
LEMMA AdmissionType ==
  ASSUME PairerTypeOK, NEW ts \in Timestamp \cup {NoTimestamp},
         NEW gen \in Nat, ~Rejected(ts, gen)
  PROVE  /\ AdmissionOf(ts, gen) \in Admission
         /\ latestAdmission # NoAdmission =>
              latestAdmission.ts < AdmissionOf(ts, gen).ts
<1>1. latestAdmission.ts \in Timestamp \cup {NoTimestamp}
      /\ latestAdmission.seq \in Nat
  BY DEF PairerTypeOK, Admission, NoAdmission, Timestamp, NoTimestamp
<1>2. Correlated(ts) \in Timestamp
  BY <1>1, PairerAssumption
     DEF Rejected, Correlated, Timestamp, NoTimestamp, PairerTypeOK,
         Admission
<1> QED
  BY <1>1, <1>2
     DEF AdmissionOf, Correlated, Rejected, Admission, Timestamp, NoTimestamp

\* By how much the elements move when a deque bounded by n takes one more.
Shift(s, n) == IF Len(s) = n THEN 1 ELSE 0

\* What a bounded push holds, place by place.
LEMMA BoundedPushElements ==
  ASSUME NEW S, NEW s \in Seq(S), NEW e \in S, NEW n \in Nat \ {0},
         Len(s) <= n
  PROVE  /\ Shift(s, n) \in {0, 1}
         /\ Len(Bounded(Append(s, e), n)) = Len(s) + 1 - Shift(s, n)
         /\ \A k \in 1..Len(Bounded(Append(s, e), n)) :
              /\ k + Shift(s, n) \in 1..(Len(s) + 1)
              /\ Bounded(Append(s, e), n)[k] =
                   IF k + Shift(s, n) = Len(s) + 1
                   THEN e ELSE s[k + Shift(s, n)]
<1> DEFINE a == Append(s, e)
           b == Bounded(a, n)
<1>1. a \in Seq(S) /\ Len(a) = Len(s) + 1 /\ a # <<>>
  OBVIOUS
<1>2. a[Len(s) + 1] = e /\ \A j \in 1..Len(s) : a[j] = s[j]
  OBVIOUS
<1>3. CASE Len(s) # n
  <2>1. b = a /\ Shift(s, n) = 0
    BY <1>1, <1>3 DEF Bounded, Shift
  <2>2. \A k \in 1..Len(b) : b[k] = IF k + 0 = Len(s) + 1 THEN e ELSE s[k + 0]
    BY <1>1, <1>2, <2>1
  <2> QED
    BY <1>1, <2>1, <2>2
<1>4. CASE Len(s) = n
  <2>1. b = Tail(a) /\ Shift(s, n) = 1
    BY <1>1, <1>4 DEF Bounded, Shift
  <2>2. Len(b) = Len(s) /\ \A k \in 1..Len(s) : b[k] = a[k + 1]
    BY <1>1, <2>1
  <2>3. \A k \in 1..Len(b) : b[k] = IF k + 1 = Len(s) + 1 THEN e ELSE s[k + 1]
    BY <1>2, <2>2
  <2> QED
    BY <2>1, <2>2, <2>3
<1> QED
  BY <1>3, <1>4

\* An admission keeps the correlation times of the tracker in order.
LEMMA AdmitPreserves ==
  ASSUME Inv, NEW ts \in Timestamp \cup {NoTimestamp}, NEW gen \in Nat,
         Admit(ts, gen)
  PROVE  Inv'
<1>1. CASE Rejected(ts, gen)
  <2>1. UNCHANGED pairerVars
    BY <1>1 DEF Admit, pairerVars
  <2> QED
    BY <2>1 DEF Inv, PairerTypeOK, PairsExact, PairedOnce, ClockAdvances,
       CorrelationUnique, QueuesBounded, Remembered, ClockAtLast, pairerVars,
       trackerVars, matchVars
<1>2. CASE ~Rejected(ts, gen)
  <2> DEFINE adm == AdmissionOf(ts, gen)
             e == [adm |-> adm, primary |-> FALSE, alpha |-> FALSE]
  <2>1. adm \in Admission /\ (latestAdmission # NoAdmission =>
                                latestAdmission.ts < adm.ts)
    BY <1>2, AdmissionType DEF Inv
  <2>2. e \in Entry /\ e.adm = adm
    BY <2>1 DEF Entry
  <2>3. /\ latestAdmission' = adm
        /\ entries' = Bounded(Append(entries, e), MaxEntries)
        /\ UNCHANGED matchVars
    BY <1>2 DEF Admit
  <2>4. entries \in Seq(Entry) /\ Len(entries) <= MaxEntries
    BY DEF Inv, PairerTypeOK, PairsExact, QueuesBounded
  <2>5. \A i \in 1..Len(entries) : entries[i].adm \in Admission
    <3>1. \A i \in 1..Len(entries) : entries[i] \in Entry
      BY <2>4
    <3> QED
      BY <3>1 DEF Entry
  <2>6. \A i \in 1..Len(entries) : entries[i].adm.ts < adm.ts
    <3> SUFFICES ASSUME NEW i \in 1..Len(entries)
                 PROVE  entries[i].adm.ts < adm.ts
      OBVIOUS
    <3>1. entries[i].adm.ts <= latestAdmission.ts
          /\ entries[i].adm.ts \in Timestamp
      BY <2>5 DEF Inv, PairsExact, CorrelationUnique, Admission
    <3>2. latestAdmission # NoAdmission
      BY <3>1 DEF NoAdmission, NoTimestamp, Timestamp
    <3>3. latestAdmission \in Admission
      BY <3>2 DEF Inv, PairerTypeOK
    <3> QED
      BY <2>1, <3>1, <3>2, <3>3 DEF Admission, Timestamp
  <2> HIDE DEF e, adm
  <2>7. entries' \in Seq(Entry) /\ Len(entries') <= MaxEntries
    BY <2>2, <2>3, <2>4, BoundedPush, PairerAssumption
  <2> DEFINE d == Shift(entries, MaxEntries)
  <2>8. /\ d \in {0, 1}
        /\ Len(entries') = Len(entries) + 1 - d
        /\ \A k \in 1..Len(entries') :
             /\ k + d \in 1..(Len(entries) + 1)
             /\ entries'[k] = IF k + d = Len(entries) + 1
                              THEN e ELSE entries[k + d]
    BY <2>2, <2>3, <2>4, BoundedPushElements, PairerAssumption
  <2> HIDE DEF d
  <2>9. CorrelationUnique'
    <3>1. \A i, j \in 1..Len(entries) :
            i < j => entries[i].adm.ts < entries[j].adm.ts
      BY DEF Inv, PairsExact, CorrelationUnique
    <3>2. Len(entries) \in Nat
      BY <2>4
    <3>3. ASSUME NEW i \in 1..Len(entries'), NEW j \in 1..Len(entries'), i < j
          PROVE  entries'[i].adm.ts < entries'[j].adm.ts
      <4>1. entries'[i] = entries[i + d] /\ i + d \in 1..Len(entries)
        BY <2>8, <3>2, <3>3
      <4>2. CASE j + d = Len(entries) + 1
        BY <2>2, <2>6, <2>8, <4>1, <4>2
      <4>3. CASE j + d # Len(entries) + 1
        <5>1. entries'[j] = entries[j + d] /\ j + d \in 1..Len(entries)
          BY SMTT(20), <2>8, <3>2, <4>3
        <5> QED
          BY <2>8, <3>1, <3>2, <3>3, <4>1, <5>1
      <4> QED
        BY <4>2, <4>3
    <3>4. ASSUME NEW i \in 1..Len(entries')
          PROVE  entries'[i].adm.ts <= adm.ts
      <4>1. CASE i + d = Len(entries) + 1
        BY <2>1, <2>2, <2>8, <4>1 DEF Admission, Timestamp
      <4>2. CASE i + d # Len(entries) + 1
        <5>1. entries'[i] = entries[i + d] /\ i + d \in 1..Len(entries)
          BY <2>8, <3>2, <4>2
        <5> QED
          BY <2>1, <2>5, <2>6, <5>1 DEF Admission, Timestamp
      <4> QED
        BY <4>1, <4>2
    <3> QED
      BY <2>3, <3>3, <3>4 DEF CorrelationUnique
  <2> QED
    BY <2>1, <2>3, <2>7, <2>9 DEF Inv, PairerTypeOK, PairsExact, PairedOnce,
       ClockAdvances, QueuesBounded, Remembered, ClockAtLast, matchVars
<1> QED
  BY <1>1, <1>2

\* A resolution marks or removes the entry it answers for.
LEMMA ResolvePreserves ==
  ASSUME Inv, NEW ts \in Timestamp, NEW side \in {"primary", "alpha"},
         Resolve(ts, side), UNCHANGED matchVars
  PROVE  Inv'
<1> DEFINE i == Resolution(ts, side)
<1>1. CASE i = 0
  <2>1. UNCHANGED pairerVars
    BY <1>1 DEF Resolve, pairerVars, trackerVars
  <2> QED
    BY <2>1 DEF Inv, PairerTypeOK, PairsExact, PairedOnce, ClockAdvances,
       CorrelationUnique, QueuesBounded, Remembered, ClockAtLast, pairerVars,
       trackerVars, matchVars
<1>2. CASE i # 0
  <2>1. i \in 1..Len(entries)
    BY <1>2 DEF Resolution, Unresolved
  <2>2. entries \in Seq(Entry) /\ Len(entries) <= MaxEntries
    BY DEF Inv, PairerTypeOK, PairsExact, QueuesBounded
  <2>3. UNCHANGED latestAdmission
    BY DEF Resolve
  <2>4. \A j, k \in 1..Len(entries) :
          j < k => entries[j].adm.ts < entries[k].adm.ts
    BY DEF Inv, PairsExact, CorrelationUnique
  <2>5. \A j \in 1..Len(entries) : entries[j].adm.ts <= latestAdmission.ts
    BY DEF Inv, PairsExact, CorrelationUnique
  <2>6. CASE entries[i][Other(side)]
    <3>1. entries' = Without(entries, i)
      BY <1>2, <2>6 DEF Resolve
    <3> HIDE DEF i
    <3>2. entries' \in Seq(Entry) /\ Len(entries') = Len(entries) - 1
      BY <2>1, <2>2, <3>1, WithoutType
    <3>3. \A j \in 1..Len(entries') :
            entries'[j] = entries[IF j < i THEN j ELSE j + 1]
      BY <2>1, <2>2, <3>1, WithoutElements
    <3>4. CorrelationUnique'
      <4>1. \A j \in 1..Len(entries') :
              (IF j < i THEN j ELSE j + 1) \in 1..Len(entries)
        BY <2>1, <2>2, <3>2
      <4>2. ASSUME NEW j \in 1..Len(entries'), NEW k \in 1..Len(entries'),
                   j < k
            PROVE  entries'[j].adm.ts < entries'[k].adm.ts
        <5> DEFINE at(m) == IF m < i THEN m ELSE m + 1
        <5>1. at(j) < at(k)
          BY <2>1, <2>2, <3>2, <4>2
        <5>2. entries'[j] = entries[at(j)] /\ entries'[k] = entries[at(k)]
          BY <3>3
        <5>3. at(j) \in 1..Len(entries) /\ at(k) \in 1..Len(entries)
          BY <4>1
        <5> HIDE DEF at
        <5> QED
          BY <2>4, <5>1, <5>2, <5>3
      <4>3. \A j \in 1..Len(entries') :
              entries'[j].adm.ts <= latestAdmission.ts
        BY <2>5, <3>3, <4>1
      <4> QED
        BY <2>3, <4>2, <4>3 DEF CorrelationUnique
    <3>5. Len(entries') <= MaxEntries
      BY <2>2, <3>2, PairerAssumption
    <3> QED
      BY <2>3, <3>2, <3>4, <3>5 DEF Inv, PairerTypeOK, PairsExact, PairedOnce,
         ClockAdvances, QueuesBounded, Remembered, ClockAtLast, matchVars
  <2>7. CASE ~entries[i][Other(side)]
    <3>1. entries' = [entries EXCEPT ![i][side] = TRUE]
      BY <1>2, <2>7 DEF Resolve
    <3> HIDE DEF i
    <3>2. entries[i] \in Entry
      BY <2>1, <2>2
    <3>3. [entries[i] EXCEPT ![side] = TRUE] \in Entry
          /\ [entries[i] EXCEPT ![side] = TRUE].adm = entries[i].adm
      BY <3>2 DEF Entry
    <3>4. entries' \in Seq(Entry) /\ Len(entries') = Len(entries)
      BY <2>1, <2>2, <3>1, <3>3
    <3>5. \A j \in 1..Len(entries) : entries'[j].adm = entries[j].adm
      <4>1. entries'[i] = [entries[i] EXCEPT ![side] = TRUE]
        <5>1. i \in DOMAIN entries
          BY <2>1, <2>2
        <5>2. entries' = [entries EXCEPT ![i] = [entries[i] EXCEPT ![side] = TRUE]]
          BY <3>1
        <5> QED
          BY <5>1, <5>2
      <4>2. \A j \in 1..Len(entries) : j # i => entries'[j] = entries[j]
        BY <2>2, <3>1
      <4> QED
        BY <3>3, <4>1, <4>2
    <3>6. CorrelationUnique'
      BY <2>3, <2>4, <2>5, <3>4, <3>5 DEF CorrelationUnique
    <3> QED
      BY <2>2, <2>3, <3>4, <3>6 DEF Inv, PairerTypeOK, PairsExact, PairedOnce,
         ClockAdvances, QueuesBounded, Remembered, ClockAtLast, matchVars
  <2> QED
    BY <2>6, <2>7
<1> QED
  BY <1>1, <1>2

LEMMA ClearPendingPreserves ==
  ASSUME Inv, ClearPending, UNCHANGED matchVars
  PROVE  Inv'
<1>1. entries' = <<>> /\ UNCHANGED latestAdmission
  BY DEF ClearPending
<1>2. CorrelationUnique' /\ Len(entries') <= MaxEntries /\ entries' \in Seq(Entry)
  BY <1>1, PairerAssumption DEF CorrelationUnique
<1> QED
  BY <1>1, <1>2 DEF Inv, PairerTypeOK, PairsExact, PairedOnce,
     ClockAdvances, QueuesBounded, Remembered, ClockAtLast, matchVars

---------------------------------------------------------------------------
(* The pairer.                                                             *)

LEMMA IdentityType ==
  ASSUME NEW p \in Half
  PROVE  Identity(p) \in Admission
BY DEF Half, Packet, Valid, Identity, Admission, Timestamp, NoTimestamp

LEMMA IdentityEqual ==
  ASSUME NEW p \in Half, NEW q \in Half, SameIdentity(p, q)
  PROVE  p.seq = q.seq /\ p.ts = q.ts /\ p.gen = q.gen
BY DEF SameIdentity, Identity

\* The transport time of a pair is later than the last, unless saturated.
LEMMA NextPtsLater ==
  ASSUME NEW ts \in Timestamp, NEW last \in Timestamp \cup {NoTimestamp}
  PROVE  /\ NextTransportPts(ts, last) \in Timestamp
         /\ last < NextTransportPts(ts, last)
            \/ (last = MaxTimestamp /\ NextTransportPts(ts, last) = MaxTimestamp)
BY PairerAssumption DEF NextTransportPts, Timestamp, NoTimestamp, Larger

\* Queueing keeps halves, within the bound.
LEMMA QueuedType ==
  ASSUME NEW own \in Seq(Half), Len(own) <= MaxPending, NEW p \in Half
  PROVE  Queued(own, p) \in Seq(Half) /\ Len(Queued(own, p)) <= MaxPending
<1>1. CASE \E i \in 1..Len(own) : SameIdentity(own[i], p)
  <2>1. Queued(own, p) = [i \in 1..Len(own) |->
                            IF SameIdentity(own[i], p) THEN p ELSE own[i]]
    BY <1>1 DEF Queued
  <2>2. \A i \in 1..Len(own) : own[i] \in Half
    OBVIOUS
  <2> DEFINE same(i) == SameIdentity(own[i], p)
             f == [i \in 1..Len(own) |-> IF same(i) THEN p ELSE own[i]]
  <2> HIDE DEF same
  <2>3. f \in [1..Len(own) -> Half] /\ Len(own) \in Nat
    BY <2>2
  <2>4. f \in Seq(Half) /\ Len(f) = Len(own)
    BY <2>3
  <2> QED
    BY <2>1, <2>4 DEF same
<1>2. CASE ~\E i \in 1..Len(own) : SameIdentity(own[i], p)
  <2>1. Queued(own, p) = Bounded(Append(own, p), MaxPending)
    BY <1>2 DEF Queued
  <2> QED
    BY <2>1, BoundedPush, PairerAssumption
<1> QED
  BY <1>1, <1>2

\* A larger watermark still remembers.
LEMMA LargerType ==
  ASSUME NEW a \in Nat, NEW b \in Nat
  PROVE  Larger(a, b) \in Nat /\ a <= Larger(a, b) /\ b <= Larger(a, b)
BY DEF Larger

\* Raising the watermark, with the completed identities kept, changes nothing
\* that the invariant says of the pairs.
LEMMA WatermarkRaised ==
  ASSUME Inv, watermark' \in Nat, watermark <= watermark',
         UNCHANGED <<completed, lastTransportPts, pairs>>
  PROVE  Remembered' /\ ClockAtLast' /\ PairedOnce' /\ ClockAdvances'
<1>1. \A i \in 1..Len(pairs) : pairs[i].primary.seq \in Nat
  <2>1. \A i \in 1..Len(pairs) : pairs[i] \in Pair
    BY DEF Inv, PairerTypeOK
  <2> QED
    BY <2>1 DEF Pair, Half, Packet
<1>2. Remembered'
  <2>1. Remembered /\ watermark \in Nat
    BY DEF Inv, PairerTypeOK
  <2> QED
    BY <1>1, <2>1 DEF Remembered
<1> QED
  BY <1>2 DEF Inv, PairsExact, ClockAtLast, PairedOnce, ClockAdvances

\* A pair of two matching halves whose identity is not retired.
LEMMA CompletePreserves ==
  ASSUME Inv, NEW p \in Half, NEW q \in Half, SameIdentity(p, q), ~Retired(p),
         Complete(Joined(p, q))
  PROVE  /\ completed' \in Seq(Admission) /\ Len(completed') <= MaxCompleted
         /\ watermark' \in Nat
         /\ lastTransportPts' \in Timestamp \cup {NoTimestamp}
         /\ pairs' \in Seq(Pair)
         /\ PairedOnce' /\ ClockAdvances' /\ Remembered' /\ ClockAtLast'
<1> DEFINE new == Joined(p, q)
           pts == NextTransportPts(p.ts, lastTransportPts)
           n == Len(pairs)
<1>1. /\ PairerTypeOK /\ PairedOnce /\ ClockAdvances /\ Remembered
      /\ ClockAtLast /\ Len(completed) <= MaxCompleted
  BY DEF Inv, PairsExact, QueuesBounded
<1>2. /\ pts \in Timestamp
      /\ lastTransportPts < pts
         \/ (lastTransportPts = MaxTimestamp /\ pts = MaxTimestamp)
  <2>1. p.ts \in Timestamp
    BY DEF Half, Packet, Valid
  <2>2. lastTransportPts \in Timestamp \cup {NoTimestamp}
    BY <1>1 DEF PairerTypeOK
  <2> QED
    BY <2>1, <2>2, NextPtsLater
<1>3. new.primary = p /\ new.alpha = q /\ new.pts = pts
  BY DEF Joined
<1>4. new \in Pair
  BY <1>2 DEF Joined, Pair
<1>5. /\ lastTransportPts' = pts /\ pairs' = Append(pairs, new)
      /\ completed' = Bounded(Append(completed, Identity(p)), MaxCompleted)
      /\ watermark' = IF Len(completed) = MaxCompleted
                      THEN Larger(watermark, completed[1].seq) ELSE watermark
  BY <1>3 DEF Complete
<1> HIDE DEF new, pts
<1>6. pairs \in Seq(Pair) /\ completed \in Seq(Admission) /\ watermark \in Nat
  BY <1>1 DEF PairerTypeOK
<1>7. /\ pairs' \in Seq(Pair) /\ Len(pairs') = n + 1 /\ n \in Nat
      /\ pairs'[n + 1] = new /\ \A i \in 1..n : pairs'[i] = pairs[i]
  BY <1>4, <1>5, <1>6
<1>8. Identity(p) \in Admission
  BY IdentityType
<1>9. completed' \in Seq(Admission) /\ Len(completed') <= MaxCompleted
  BY <1>1, <1>5, <1>6, <1>8, BoundedPush, PairerAssumption
<1>10. watermark' \in Nat /\ watermark <= watermark'
       /\ (Len(completed) = MaxCompleted => completed[1].seq <= watermark')
  <2>1. CASE Len(completed) = MaxCompleted
    <3>1. completed[1] \in Admission
      BY <1>6, <2>1, PairerAssumption
    <3>2. completed[1].seq \in Nat
      BY <3>1 DEF Admission
    <3> QED
      BY <1>5, <1>6, <2>1, <3>2, LargerType
  <2>2. CASE Len(completed) # MaxCompleted
    BY <1>5, <1>6, <2>2
  <2> QED
    BY <2>1, <2>2
<1>11. \A i \in 1..n : pairs[i] \in Pair
  BY <1>6
<1>12. \A i \in 1..n : /\ pairs[i].primary \in Half /\ pairs[i].pts \in Timestamp
                       /\ pairs[i].primary.seq \in Nat
  BY <1>11 DEF Pair, Half, Packet
<1>13. ASSUME NEW i \in 1..n
       PROVE  ~SameIdentity(pairs[i].primary, p)
  <2>1. SUFFICES ASSUME SameIdentity(pairs[i].primary, p) PROVE FALSE
    OBVIOUS
  <2>2. Identity(pairs[i].primary) = Identity(p) /\ pairs[i].primary.seq = p.seq
    BY <1>12, <2>1, IdentityEqual DEF SameIdentity
  <2>3. \/ pairs[i].primary.seq <= watermark
        \/ \E k \in 1..Len(completed) :
             completed[k] = Identity(pairs[i].primary)
    BY <1>1 DEF Remembered
  <2> QED
    BY <2>2, <2>3 DEF Retired
<1>14. ExactPair(new)
  <2>1. pts # NoTimestamp
    BY <1>2 DEF Timestamp, NoTimestamp
  <2> QED
    BY <1>3, <2>1 DEF ExactPair, Half
<1>15. PairedOnce'
  <2>1. \A i \in 1..(n + 1) : ExactPair(pairs'[i])
    BY <1>1, <1>7, <1>14 DEF PairedOnce
  <2>2. ASSUME NEW i \in 1..(n + 1), NEW j \in 1..(n + 1),
               SameIdentity(pairs'[i].primary, pairs'[j].primary)
        PROVE  i = j
    <3>1. CASE i \in 1..n /\ j \in 1..n
      BY <1>1, <1>7, <2>2, <3>1 DEF PairedOnce
    <3>2. CASE i \in 1..n /\ j = n + 1
      BY <1>3, <1>7, <1>13, <2>2, <3>2
    <3>3. CASE i = n + 1 /\ j \in 1..n
      BY <1>3, <1>7, <1>13, <2>2, <3>3 DEF SameIdentity
    <3> QED
      BY <1>7, <3>1, <3>2, <3>3
  <2> QED
    BY <1>7, <2>1, <2>2 DEF PairedOnce, ExactPair
<1>16. ClockAtLast'
  <2>1. \A i \in 1..n : pairs[i].pts <= lastTransportPts
    BY <1>1 DEF ClockAtLast
  <2>2. lastTransportPts \in Timestamp \cup {NoTimestamp}
    BY <1>1 DEF PairerTypeOK
  <2>3. \A i \in 1..(n + 1) : pairs'[i].pts <= pts
    BY <1>2, <1>3, <1>7, <1>12, <2>1, <2>2 DEF Timestamp, NoTimestamp
  <2> QED
    BY <1>5, <1>7, <2>3 DEF ClockAtLast
<1>17. ClockAdvances'
  <2>1. SUFFICES ASSUME NEW i \in 1..(n + 1), NEW j \in 1..(n + 1), i < j
                 PROVE  pairs'[i].pts < pairs'[j].pts
                        \/ pairs'[j].pts = MaxTimestamp
    BY <1>7 DEF ClockAdvances
  <2>2. CASE j \in 1..n
    BY <1>1, <1>7, <2>1, <2>2 DEF ClockAdvances
  <2>3. CASE j = n + 1
    <3>1. i \in 1..n /\ pairs[i].pts <= lastTransportPts
      BY <1>1, <1>7, <2>1, <2>3 DEF ClockAtLast
    <3>2. lastTransportPts \in Timestamp \cup {NoTimestamp}
      BY <1>1 DEF PairerTypeOK
    <3> QED
      BY <1>2, <1>3, <1>7, <1>12, <2>3, <3>1, <3>2 DEF Timestamp, NoTimestamp
  <2> QED
    BY <1>7, <2>2, <2>3
<1>18. Remembered'
  <2>1. \E k \in 1..Len(completed') : completed'[k] = Identity(p)
    BY <1>1, <1>5, <1>6, <1>8, BoundedPushKeeps, PairerAssumption, SMTT(60)
  <2>4. completed \in Seq(Admission) /\ Len(completed) <= MaxCompleted
    BY <1>1, <1>6
  <2>5. MaxCompleted \in Nat \ {0}
    BY PairerAssumption
  <2> DEFINE b == Bounded(Append(completed, Identity(p)), MaxCompleted)
  <2>a. \A j \in 1..Len(completed) :
          \/ Len(completed) = MaxCompleted /\ j = 1
          \/ \E k \in 1..Len(b) : b[k] = completed[j]
    <3>1. SUFFICES ASSUME NEW j \in 1..Len(completed),
                          ~(Len(completed) = MaxCompleted /\ j = 1)
                   PROVE  \E k \in 1..Len(b) : b[k] = completed[j]
      BY Zenon
    <3> QED
      BY <1>8, <2>4, <2>5, <3>1, BoundedPushKept
  <2>2. \A j \in 1..Len(completed) :
          \/ Len(completed) = MaxCompleted /\ j = 1
          \/ \E k \in 1..Len(completed') : completed'[k] = completed[j]
    BY <1>5, <2>a
  <2>3. ASSUME NEW i \in 1..n
        PROVE  \/ pairs[i].primary.seq <= watermark'
               \/ \E k \in 1..Len(completed') :
                    completed'[k] = Identity(pairs[i].primary)
    <3>1. CASE pairs[i].primary.seq <= watermark
      BY <1>6, <1>10, <1>12, <3>1
    <3>2. ASSUME NEW j \in 1..Len(completed),
                 completed[j] = Identity(pairs[i].primary)
          PROVE  \/ pairs[i].primary.seq <= watermark'
                 \/ \E k \in 1..Len(completed') :
                      completed'[k] = Identity(pairs[i].primary)
      <4>1. completed[j].seq = pairs[i].primary.seq
        BY <3>2 DEF Identity
      <4> QED
        BY <1>10, <2>2, <3>2, <4>1
    <3> QED
      BY <1>1, <3>1, <3>2 DEF Remembered
  <2> QED
    BY <1>3, <1>7, <2>1, <2>3 DEF Remembered
<1> QED
  BY <1>2, <1>5, <1>7, <1>9, <1>10, <1>15, <1>16, <1>17, <1>18

\* Submitting the colour half.
LEMMA SubmitPrimaryPreserves ==
  ASSUME Inv, NEW p \in Packet, SubmitPrimary(p)
  PROVE  Inv'
<1>1. UNCHANGED trackerVars
  BY DEF SubmitPrimary
<1>2. CorrelationUnique' /\ Len(entries') <= MaxEntries
      /\ entries' \in Seq(Entry)
      /\ latestAdmission' \in Admission \cup {NoAdmission}
  BY <1>1 DEF Inv, PairsExact, CorrelationUnique, QueuesBounded, PairerTypeOK,
     trackerVars
<1>3. CASE Dropped(p) /\ UNCHANGED matchVars
  BY <1>1, <1>3 DEF Inv, PairerTypeOK, PairsExact, PairedOnce, ClockAdvances,
     CorrelationUnique, QueuesBounded, Remembered, ClockAtLast, trackerVars,
     matchVars
<1>4. CASE /\ ~Dropped(p)
           /\ primaryPackets' = Queued(primaryPackets, p)
           /\ watermark' = IF Overflows(primaryPackets, p)
                           THEN Larger(watermark, primaryPackets[1].seq)
                           ELSE watermark
           /\ UNCHANGED <<alphaPackets, completed, lastTransportPts, pairs>>
  <2>1. p \in Half
    BY <1>4 DEF Dropped, Half
  <2>2. primaryPackets \in Seq(Half) /\ Len(primaryPackets) <= MaxPending
        /\ watermark \in Nat
    BY DEF Inv, PairerTypeOK, PairsExact, QueuesBounded
  <2>3. primaryPackets' \in Seq(Half) /\ Len(primaryPackets') <= MaxPending
    BY <1>4, <2>1, <2>2, QueuedType
  <2>4. watermark' \in Nat /\ watermark <= watermark'
    <3>1. CASE Overflows(primaryPackets, p)
      <4>1. primaryPackets[1] \in Half
        BY <2>2, <3>1, PairerAssumption DEF Overflows
      <4>2. primaryPackets[1].seq \in Nat
        BY <4>1 DEF Half, Packet
      <4> QED
        BY <1>4, <2>2, <3>1, <4>2, LargerType
    <3>2. CASE ~Overflows(primaryPackets, p)
      BY <1>4, <2>2, <3>2
    <3> QED
      BY <3>1, <3>2
  <2>5. Remembered' /\ ClockAtLast' /\ PairedOnce' /\ ClockAdvances'
    BY <1>4, <2>4, WatermarkRaised
  <2> QED
    BY <1>2, <1>4, <2>3, <2>4, <2>5 DEF Inv, PairerTypeOK, PairsExact,
       QueuesBounded
<1>5. ASSUME ~Dropped(p), NEW i \in Matches(alphaPackets, p),
             alphaPackets' = Without(alphaPackets, i),
             Complete(Joined(p, alphaPackets[i])), UNCHANGED primaryPackets
      PROVE  Inv'
  <2>1. p \in Half /\ ~Retired(p)
    BY <1>5 DEF Dropped, Half
  <2>2. alphaPackets \in Seq(Half) /\ Len(alphaPackets) <= MaxPending
    BY DEF Inv, PairerTypeOK, PairsExact, QueuesBounded
  <2>3. i \in 1..Len(alphaPackets) /\ SameIdentity(p, alphaPackets[i])
    BY <1>5 DEF Matches, SameIdentity
  <2>4. alphaPackets[i] \in Half
    BY <2>2, <2>3
  <2>5. /\ completed' \in Seq(Admission) /\ Len(completed') <= MaxCompleted
        /\ watermark' \in Nat
        /\ lastTransportPts' \in Timestamp \cup {NoTimestamp}
        /\ pairs' \in Seq(Pair)
        /\ PairedOnce' /\ ClockAdvances' /\ Remembered' /\ ClockAtLast'
    BY <1>5, <2>1, <2>3, <2>4, CompletePreserves
  <2>6. alphaPackets' \in Seq(Half) /\ Len(alphaPackets') = Len(alphaPackets) - 1
    BY <1>5, <2>2, <2>3, WithoutType
  <2>7. Len(alphaPackets') <= MaxPending
    BY <2>2, <2>6, PairerAssumption
  <2> QED
    BY <1>2, <1>5, <2>5, <2>6, <2>7 DEF Inv, PairerTypeOK, PairsExact,
       QueuesBounded
<1> QED
  BY <1>3, <1>4, <1>5 DEF SubmitPrimary

\* Submitting the alpha half.
LEMMA SubmitAlphaPreserves ==
  ASSUME Inv, NEW p \in Packet, SubmitAlpha(p)
  PROVE  Inv'
<1>1. UNCHANGED trackerVars
  BY DEF SubmitAlpha
<1>2. CorrelationUnique' /\ Len(entries') <= MaxEntries
      /\ entries' \in Seq(Entry)
      /\ latestAdmission' \in Admission \cup {NoAdmission}
  BY <1>1 DEF Inv, PairsExact, CorrelationUnique, QueuesBounded, PairerTypeOK,
     trackerVars
<1>3. CASE Dropped(p) /\ UNCHANGED matchVars
  BY <1>1, <1>3 DEF Inv, PairerTypeOK, PairsExact, PairedOnce, ClockAdvances,
     CorrelationUnique, QueuesBounded, Remembered, ClockAtLast, trackerVars,
     matchVars
<1>4. CASE /\ ~Dropped(p)
           /\ alphaPackets' = Queued(alphaPackets, p)
           /\ watermark' = IF Overflows(alphaPackets, p)
                           THEN Larger(watermark, alphaPackets[1].seq)
                           ELSE watermark
           /\ UNCHANGED <<primaryPackets, completed, lastTransportPts, pairs>>
  <2>1. p \in Half
    BY <1>4 DEF Dropped, Half
  <2>2. alphaPackets \in Seq(Half) /\ Len(alphaPackets) <= MaxPending
        /\ watermark \in Nat
    BY DEF Inv, PairerTypeOK, PairsExact, QueuesBounded
  <2>3. alphaPackets' \in Seq(Half) /\ Len(alphaPackets') <= MaxPending
    BY <1>4, <2>1, <2>2, QueuedType
  <2>4. watermark' \in Nat /\ watermark <= watermark'
    <3>1. CASE Overflows(alphaPackets, p)
      <4>1. alphaPackets[1] \in Half
        BY <2>2, <3>1, PairerAssumption DEF Overflows
      <4>2. alphaPackets[1].seq \in Nat
        BY <4>1 DEF Half, Packet
      <4> QED
        BY <1>4, <2>2, <3>1, <4>2, LargerType
    <3>2. CASE ~Overflows(alphaPackets, p)
      BY <1>4, <2>2, <3>2
    <3> QED
      BY <3>1, <3>2
  <2>5. Remembered' /\ ClockAtLast' /\ PairedOnce' /\ ClockAdvances'
    BY <1>4, <2>4, WatermarkRaised
  <2> QED
    BY <1>2, <1>4, <2>3, <2>4, <2>5 DEF Inv, PairerTypeOK, PairsExact,
       QueuesBounded
<1>5. ASSUME ~Dropped(p), NEW i \in Matches(primaryPackets, p),
             primaryPackets' = Without(primaryPackets, i),
             Complete(Joined(primaryPackets[i], p)), UNCHANGED alphaPackets
      PROVE  Inv'
  <2>1. p \in Half /\ ~Retired(p)
    BY <1>5 DEF Dropped, Half
  <2>2. primaryPackets \in Seq(Half) /\ Len(primaryPackets) <= MaxPending
    BY DEF Inv, PairerTypeOK, PairsExact, QueuesBounded
  <2>3. i \in 1..Len(primaryPackets) /\ SameIdentity(primaryPackets[i], p)
    BY <1>5 DEF Matches
  <2>4. primaryPackets[i] \in Half
    BY <2>2, <2>3
  <2>5. ~Retired(primaryPackets[i])
    BY <2>1, <2>3, <2>4, IdentityEqual DEF Retired, SameIdentity
  <2>6. /\ completed' \in Seq(Admission) /\ Len(completed') <= MaxCompleted
        /\ watermark' \in Nat
        /\ lastTransportPts' \in Timestamp \cup {NoTimestamp}
        /\ pairs' \in Seq(Pair)
        /\ PairedOnce' /\ ClockAdvances' /\ Remembered' /\ ClockAtLast'
    BY <1>5, <2>1, <2>3, <2>4, <2>5, CompletePreserves
  <2>7. primaryPackets' \in Seq(Half)
        /\ Len(primaryPackets') = Len(primaryPackets) - 1
    BY <1>5, <2>2, <2>3, WithoutType
  <2>8. Len(primaryPackets') <= MaxPending
    BY <2>2, <2>7, PairerAssumption
  <2> QED
    BY <1>2, <1>5, <2>6, <2>7, <2>8 DEF Inv, PairerTypeOK, PairsExact,
       QueuesBounded
<1> QED
  BY <1>3, <1>4, <1>5 DEF SubmitAlpha

\* Clearing retires every identity the pairer knew.
LEMMA ClearPairerPreserves ==
  ASSUME Inv, ClearPairer, UNCHANGED trackerVars
  PROVE  Inv'
<1>1. /\ primaryPackets' = <<>> /\ alphaPackets' = <<>> /\ completed' = <<>>
      /\ UNCHANGED <<lastTransportPts, pairs>>
      /\ \A s \in Known \cup {watermark} : s <= watermark'
      /\ watermark' \in Known \cup {watermark}
  BY DEF ClearPairer
<1>2. Known \subseteq Nat
  <2>1. \A i \in 1..Len(primaryPackets) : primaryPackets[i] \in Half
    BY DEF Inv, PairerTypeOK
  <2>2. \A i \in 1..Len(alphaPackets) : alphaPackets[i] \in Half
    BY DEF Inv, PairerTypeOK
  <2>3. \A i \in 1..Len(completed) : completed[i] \in Admission
    BY DEF Inv, PairerTypeOK
  <2> QED
    BY <2>1, <2>2, <2>3 DEF Known, Half, Packet, Admission
<1>3. watermark' \in Nat /\ watermark <= watermark'
  BY <1>1, <1>2 DEF Inv, PairerTypeOK
<1>4. Remembered'
  <2>1. SUFFICES ASSUME NEW i \in 1..Len(pairs)
                 PROVE  pairs[i].primary.seq <= watermark'
    BY <1>1 DEF Remembered
  <2>2. CASE pairs[i].primary.seq <= watermark
    <3>1. pairs[i] \in Pair
      BY DEF Inv, PairerTypeOK
    <3>2. pairs[i].primary.seq \in Nat
      BY <3>1 DEF Pair, Half, Packet
    <3> QED
      BY <1>3, <2>2, <3>2 DEF Inv, PairerTypeOK
  <2>3. ASSUME NEW k \in 1..Len(completed),
               completed[k] = Identity(pairs[i].primary)
        PROVE  pairs[i].primary.seq <= watermark'
    <3>1. completed[k].seq \in Known
      BY DEF Known
    <3>2. completed[k].seq = pairs[i].primary.seq
      BY <2>3 DEF Identity
    <3> QED
      BY <1>1, <3>1, <3>2
  <2> QED
    BY <2>2, <2>3 DEF Inv, Remembered
<1>5. /\ primaryPackets' \in Seq(Half) /\ Len(primaryPackets') <= MaxPending
      /\ alphaPackets' \in Seq(Half) /\ Len(alphaPackets') <= MaxPending
      /\ completed' \in Seq(Admission) /\ Len(completed') <= MaxCompleted
  BY <1>1, PairerAssumption
<1> QED
  BY <1>1, <1>3, <1>4, <1>5 DEF Inv, PairerTypeOK, PairsExact, PairedOnce,
     ClockAdvances, CorrelationUnique, QueuesBounded, ClockAtLast, trackerVars

---------------------------------------------------------------------------

LEMMA InvInitially ==
  ASSUME PairerInit
  PROVE  Inv
BY PairerAssumption DEF PairerInit, Inv, PairerTypeOK, PairsExact, PairedOnce,
   ClockAdvances, CorrelationUnique, QueuesBounded, Remembered, ClockAtLast

LEMMA InvPreserved ==
  ASSUME Inv, [PairerNext]_pairerVars
  PROVE  Inv'
<1>1. CASE UNCHANGED pairerVars
  BY <1>1 DEF Inv, PairerTypeOK, PairsExact, PairedOnce, ClockAdvances,
     CorrelationUnique, QueuesBounded, Remembered, ClockAtLast, pairerVars,
     trackerVars, matchVars
<1>2. CASE PairerNext
  BY <1>2, AdmitPreserves, ResolvePreserves, ClearPendingPreserves,
     SubmitPrimaryPreserves, SubmitAlphaPreserves, ClearPairerPreserves
     DEF PairerNext
<1> QED
  BY <1>1, <1>2

LEMMA PairerInductive == PairerSpec => []Inv
<1>1. PairerInit => Inv
  BY InvInitially
<1>2. Inv /\ [PairerNext]_pairerVars => Inv'
  BY InvPreserved
<1> QED
  BY <1>1, <1>2, PTL DEF PairerSpec

\* Every queue, identity and time of the pairer keeps its type.
THEOREM PairerTypeCorrect == PairerSpec => []PairerTypeOK
<1>1. Inv => PairerTypeOK
  BY DEF Inv
<1> QED
  BY <1>1, PairerInductive, PTL

\* Whatever packets are submitted, in whatever order and however often: the
\* halves of a pair have one identity, no identity is paired twice, the
\* transport clock advances, correlation times are unique, and the queues
\* keep their bounds (alpha_frame_pairer.cpp, submit and admit).
THEOREM PairsExactTheorem == PairerSpec => []PairsExact
<1>1. Inv => PairsExact
  BY DEF Inv
<1> QED
  BY <1>1, PairerInductive, PTL

---------------------------------------------------------------------------
(* The pipeline.                                                           *)

Phase == {"stopped", "capturing", "stopping", "draining", "clearing", "shut"}
TickPc == {"idle", "admit", "encode", "renegotiate", "collect", "plain",
           "resolve", "submit", "pairs"}
WorkerPc == {"idle", "reconfigure", "disable", "encode", "push"}
ControlPc == {"idle", "preparing", "retire", "clear", "alpha", "retireAgain",
              "cleared", "offers"}
ControlKind == {"none", "reinit", "bitrate", "replace", "fallback"}
Telling == {"no", "cutoff", "waiting", "reserve"}
Config == [codec : Codec, alpha : BOOLEAN]

\* What carries the time of a slot shows the frame of that slot.
Colour == {p \in [ts : Timestamp, frame : Timestamp, codec : Codec,
                  key : BOOLEAN] : p.ts = p.frame}
Job == {j \in [adm : Admission, frame : Timestamp] : j.adm.ts = j.frame}
Own == {h \in Half : h.ts = h.frame}
OwnPair == {q \in Pair : q.primary \in Own /\ q.alpha \in Own}

PrimaryEncoder == [up : BOOLEAN, owes : BOOLEAN, inside : Seq(Colour),
                   steady : BOOLEAN, out : Nat]
Worker == [pc : WorkerPc, job : Job \cup {NoJob}, half : Own \cup {NoHalf}]
TickState == [pc : TickPc, key : BOOLEAN, flow : BOOLEAN,
              routed : SUBSET Viewers, adm : Admission \cup {NoAdmission},
              have : Colour \cup {NoPacket}, plain : SUBSET Viewers,
              half : Own \cup {NoHalf}, todo : Seq(OwnPair)]
ViewerState == [alpha : BOOLEAN, waiting : BOOLEAN, cutoff : Nat, last : Nat,
                bound : BOOLEAN, telling : Telling]
Control == [pc : ControlPc, kind : ControlKind, offer : SUBSET Viewers,
            config : Config]

EncodersTyped ==
  /\ config \in Config /\ pendingKey \in BOOLEAN
  /\ primary \in PrimaryEncoder /\ alphaUp \in BOOLEAN
  /\ generation \in Nat \ {0} /\ phase \in Phase

QueuesTyped ==
  /\ job \in Job \cup {NoJob} /\ reconfigure \in BOOLEAN
  /\ ready \in Seq(Own)
  /\ primaryPackets \in Seq(Own) /\ alphaPackets \in Seq(Own)
  /\ pairs \in Seq(OwnPair)

ThreadsTyped ==
  /\ worker \in Worker
  /\ worker.pc = "encode" => worker.job \in Job
  /\ worker.pc = "push" => worker.half \in Own
  /\ tick \in TickState
  /\ tick.pc \in {"plain", "resolve"} => tick.have \in Colour
  /\ tick.pc = "submit" => tick.half \in Own
  /\ tick.pc = "pairs" => tick.todo # <<>>
  /\ tick.adm # NoAdmission => tick.adm.ts = slot
  /\ slot \in 0..MaxSlots
  /\ control \in Control

ViewersTyped ==
  /\ viewer \in [Viewers -> ViewerState]
  /\ shown \in [Viewers -> [enc : Nat, key : BOOLEAN]]

\* A slot comes after every admission; one being admitted, strictly so.
SlotsAdvance ==
  /\ latestAdmission.ts <= slot
  /\ tick.pc = "admit" => latestAdmission.ts < slot

PipelineTypeOK ==
  EncodersTyped /\ QueuesTyped /\ ThreadsTyped /\ ViewersTyped

FrameInv == Inv /\ PipelineTypeOK /\ SlotsAdvance

---------------------------------------------------------------------------

\* The encode thread and the control thread exclude each other, and what the
\* control thread will publish never turns alpha on again.
Excluded ==
  /\ tick.pc \notin {"idle", "renegotiate"} =>
       control.pc \in {"idle", "preparing", "offers"}
  /\ control.pc \notin {"idle", "offers"} =>
       (control.config.alpha => config.alpha)
  /\ control.pc = "preparing" => ~control.config.alpha

\* Pairs are only handled with the alpha track on; with it on, nobody else is
\* sent anything.
Shape ==
  /\ tick.flow => config.alpha /\ tick.pc \notin {"idle", "renegotiate"}
  /\ tick.pc \in {"admit", "resolve", "submit"} => tick.flow
  /\ tick.todo # <<>> => tick.flow
  /\ tick.plain \subseteq tick.routed
  /\ tick.pc # "plain" => tick.plain = {}
  /\ tick.pc \notin {"idle", "renegotiate"} /\ ~tick.flow /\ config.alpha =>
       tick.routed = {}

Locks == Excluded /\ Shape

\* Every colour half on its way to the viewers is in a set.
Carried(S) ==
  /\ primaryPackets \in Seq(S)
  /\ tick.half \in S \cup {NoHalf}
  /\ \A i \in 1..Len(tick.todo) : tick.todo[i].primary \in S

\* Every admission and every colour half belongs to the past.
Past == {h \in Own : h.seq <= latestAdmission.seq /\ h.enc <= primary.out}

PastInv ==
  /\ \A i \in 1..Len(entries) : entries[i].adm.seq <= latestAdmission.seq
  /\ Carried(Past)

\* The halves that would continue the chain of a viewer and are not retired
\* by its cutoff.
Covered(w) == {h \in Own : h.enc = w.last + 1 => h.seq <= w.cutoff}

\* What could continue the old chain of a viewer is covered by its cutoff.
Settled(w) ==
  /\ w.last < primary.out
  /\ Carried(Covered(w))
  /\ tick.pc \in {"plain", "resolve"} /\ primary.out = w.last + 1 =>
       \A i \in 1..Len(entries) : entries[i].adm.seq <= w.cutoff

\* The viewer takes part in the alpha workflow and has its cutoff.
Told(w) == w.alpha /\ w.telling # "cutoff"

ChainOf(v) ==
  LET w == viewer[v] IN
  /\ w.last <= primary.out
  /\ tick.pc = "plain" => w.last < primary.out
  /\ w.bound /\ ~w.waiting => shown[v].enc = w.last \/ w.last < primary.out
  /\ w.bound /\ ~w.waiting /\ Told(w) /\ config.alpha =>
       shown[v].enc = w.last \/ Settled(w)
  /\ tick.pc = "plain" /\ tick.flow /\ v \in tick.plain /\ Told(w) =>
       Settled(w)

ChainInv == \A v \in Viewers : ChainOf(v)

IInv == FrameInv /\ Locks /\ PastInv /\ ChainInv
---------------------------------------------------------------------------
(* Lemmas about the operators.                                             *)

\* A bounded push keeps the type.
LEMMA BoundedType ==
  ASSUME NEW S, NEW s \in Seq(S), NEW e \in S, NEW n \in Nat
  PROVE  Bounded(Append(s, e), n) \in Seq(S)
<1>1. Append(s, e) \in Seq(S) /\ Len(Append(s, e)) = Len(s) + 1
  OBVIOUS
<1>2. Len(s) \in Nat /\ Len(<<>>) = 0
  OBVIOUS
<1>3. Append(s, e) # <<>>
  BY <1>1, <1>2
<1> QED
  BY <1>1, <1>3 DEF Bounded

\* What resolve returns is the admission of that time, from the tracker.
LEMMA ResolvedIs ==
  ASSUME Inv, NEW ts \in Timestamp, NEW side \in {"primary", "alpha"}
  PROVE  \/ Resolved(ts, side) = NoAdmission
         \/ /\ Resolved(ts, side) \in Admission
            /\ Resolved(ts, side).ts = ts
            /\ \E i \in 1..Len(entries) : Resolved(ts, side) = entries[i].adm
<1> DEFINE i == Resolution(ts, side)
<1>1. CASE Unresolved(ts, side) = {}
  BY <1>1 DEF Resolved, Resolution
<1>2. CASE Unresolved(ts, side) # {}
  <2>1. i \in Unresolved(ts, side)
    BY <1>2 DEF Resolution
  <2>2. i \in 1..Len(entries) /\ entries[i].adm.ts = ts /\ i # 0
    BY <2>1 DEF Unresolved
  <2>3. entries[i] \in Entry
    BY <2>2 DEF Inv, PairerTypeOK
  <2>4. Resolved(ts, side) = entries[i].adm
    BY <2>2 DEF Resolved
  <2> HIDE DEF i
  <2> QED
    BY <2>2, <2>3, <2>4 DEF Entry
<1> QED
  BY <1>1, <1>2

\* The half a packet becomes shows the packet's frame, and its admission
\* sequence is one the tracker holds.
LEMMA HalfIs ==
  ASSUME Inv, PipelineTypeOK, NEW packet \in Colour,
         NEW side \in {"primary", "alpha"}, NEW enc \in Nat
  PROVE  \/ HalfOf(packet, side, enc) = NoHalf
         \/ /\ HalfOf(packet, side, enc) \in Own
            /\ HalfOf(packet, side, enc).enc = enc
            /\ \E i \in 1..Len(entries) :
                 HalfOf(packet, side, enc).seq = entries[i].adm.seq
<1> DEFINE adm == Resolved(packet.ts, side)
           half == [ts |-> packet.ts, gen |-> adm.gen, seq |-> adm.seq,
                    codec |-> packet.codec, key |-> packet.key, enc |-> enc,
                    frame |-> packet.frame]
<1>1. CASE adm = NoAdmission \/ adm.gen # generation
  BY <1>1 DEF HalfOf
<1>2. CASE ~(adm = NoAdmission \/ adm.gen # generation)
  <2>1. HalfOf(packet, side, enc) = half
    BY <1>2 DEF HalfOf
  <2>2. packet.ts \in Timestamp /\ packet.frame = packet.ts
        /\ packet.codec \in Codec /\ packet.key \in BOOLEAN
    BY DEF Colour
  <2>3. /\ adm \in Admission
        /\ \E i \in 1..Len(entries) : adm = entries[i].adm
    BY <1>2, <2>2, ResolvedIs
  <2>4. adm.gen \in Nat \ {0}
    BY <1>2 DEF PipelineTypeOK, EncodersTyped
  <2>5. adm.seq \in Nat \ {0}
    BY <2>3 DEF Admission
  <2> HIDE DEF adm
  <2>6. half \in Packet
    BY <2>2, <2>4, <2>5 DEF Packet, Timestamp
  <2>7. Valid(half)
    BY <2>2, <2>4, <2>5 DEF Valid, Timestamp, NoTimestamp
  <2> QED
    BY <2>1, <2>2, <2>3, <2>6, <2>7 DEF Own, Half
<1> QED
  BY <1>1, <1>2

\* A queue keeps whatever is true of the halves put into it.
LEMMA QueuedStays ==
  ASSUME NEW S, NEW own \in Seq(S), NEW p \in S
  PROVE  Queued(own, p) \in Seq(S)
<1>1. CASE \E i \in 1..Len(own) : SameIdentity(own[i], p)
  <2>1. Queued(own, p) = [i \in 1..Len(own) |->
                            IF SameIdentity(own[i], p) THEN p ELSE own[i]]
    BY <1>1 DEF Queued
  <2>2. Len(own) \in Nat /\ \A i \in 1..Len(own) : own[i] \in S
    OBVIOUS
  <2> QED
    BY <2>1, <2>2
<1>2. CASE ~\E i \in 1..Len(own) : SameIdentity(own[i], p)
  <2>1. Queued(own, p) = Bounded(Append(own, p), MaxPending)
    BY <1>2 DEF Queued
  <2> QED
    BY <2>1, BoundedType, PairerAssumption
<1> QED
  BY <1>1, <1>2

\* The same for both queues of the pairer and for the pairs made of them.
LEMMA SubmitPrimaryStays ==
  ASSUME Inv, NEW S \in SUBSET Half, NEW T \in SUBSET Half,
         primaryPackets \in Seq(S), alphaPackets \in Seq(T),
         NEW p \in S, SubmitPrimary(p)
  PROVE  /\ primaryPackets' \in Seq(S) /\ alphaPackets' \in Seq(T)
         /\ \/ pairs' = pairs
            \/ \E q \in Pair : /\ q.primary \in S /\ q.alpha \in T
                               /\ pairs' = Append(pairs, q)
<1>1. CASE UNCHANGED matchVars
  BY <1>1 DEF matchVars
<1>2. CASE /\ primaryPackets' = Queued(primaryPackets, p)
           /\ UNCHANGED <<alphaPackets, completed, lastTransportPts, pairs>>
  BY <1>2, QueuedStays
<1>3. ASSUME NEW i \in Matches(alphaPackets, p),
             alphaPackets' = Without(alphaPackets, i),
             Complete(Joined(p, alphaPackets[i])), UNCHANGED primaryPackets
      PROVE  /\ primaryPackets' \in Seq(S) /\ alphaPackets' \in Seq(T)
             /\ \E q \in Pair : /\ q.primary \in S /\ q.alpha \in T
                                /\ pairs' = Append(pairs, q)
  <2>1. i \in 1..Len(alphaPackets)
    BY <1>3 DEF Matches
  <2>2. alphaPackets' \in Seq(T) /\ alphaPackets[i] \in T
    BY <1>3, <2>1, WithoutType
  <2>3. PICK q : q = Joined(p, alphaPackets[i])
    OBVIOUS
  <2>4. p.ts \in Timestamp
    BY DEF Half, Packet, Valid
  <2>5. lastTransportPts \in Timestamp \cup {NoTimestamp}
    BY DEF Inv, PairerTypeOK
  <2>6. q.pts \in Timestamp
    BY <2>3, <2>4, <2>5, NextPtsLater DEF Joined
  <2>7. q \in Pair /\ q.primary = p /\ q.alpha = alphaPackets[i]
    BY <2>2, <2>3, <2>6 DEF Joined, Pair
  <2> QED
    BY <1>3, <2>2, <2>3, <2>7 DEF Complete
<1> QED
  BY <1>1, <1>2, <1>3 DEF SubmitPrimary

LEMMA SubmitAlphaStays ==
  ASSUME Inv, NEW S \in SUBSET Half, NEW T \in SUBSET Half,
         primaryPackets \in Seq(S), alphaPackets \in Seq(T),
         NEW p \in T, SubmitAlpha(p)
  PROVE  /\ primaryPackets' \in Seq(S) /\ alphaPackets' \in Seq(T)
         /\ \/ pairs' = pairs
            \/ \E q \in Pair : /\ q.primary \in S /\ q.alpha \in T
                               /\ pairs' = Append(pairs, q)
<1>1. CASE UNCHANGED matchVars
  BY <1>1 DEF matchVars
<1>2. CASE /\ alphaPackets' = Queued(alphaPackets, p)
           /\ UNCHANGED <<primaryPackets, completed, lastTransportPts, pairs>>
  BY <1>2, QueuedStays
<1>3. ASSUME NEW i \in Matches(primaryPackets, p),
             primaryPackets' = Without(primaryPackets, i),
             Complete(Joined(primaryPackets[i], p)), UNCHANGED alphaPackets
      PROVE  /\ primaryPackets' \in Seq(S) /\ alphaPackets' \in Seq(T)
             /\ \E q \in Pair : /\ q.primary \in S /\ q.alpha \in T
                                /\ pairs' = Append(pairs, q)
  <2>1. i \in 1..Len(primaryPackets)
    BY <1>3 DEF Matches
  <2>2. primaryPackets' \in Seq(S) /\ primaryPackets[i] \in S
    BY <1>3, <2>1, WithoutType
  <2>3. PICK q : q = Joined(primaryPackets[i], p)
    OBVIOUS
  <2>4. primaryPackets[i].ts \in Timestamp
    BY <2>2 DEF Half, Packet, Valid
  <2>5. lastTransportPts \in Timestamp \cup {NoTimestamp}
    BY DEF Inv, PairerTypeOK
  <2>6. q.pts \in Timestamp
    BY <2>3, <2>4, <2>5, NextPtsLater DEF Joined
  <2>7. q \in Pair /\ q.primary = primaryPackets[i] /\ q.alpha = p
    BY <2>2, <2>3, <2>6 DEF Joined, Pair
  <2> QED
    BY <1>3, <2>2, <2>3, <2>7 DEF Complete
<1> QED
  BY <1>1, <1>2, <1>3 DEF SubmitAlpha

\* Resolving and clearing only take admissions away from the tracker.
LEMMA ResolveKeepsAdmissions ==
  ASSUME Inv, NEW ts \in Timestamp, NEW side \in {"primary", "alpha"},
         Resolve(ts, side)
  PROVE  \A j \in 1..Len(entries') :
           \E k \in 1..Len(entries) : entries'[j].adm = entries[k].adm
<1> DEFINE i == Resolution(ts, side)
<1>0. entries \in Seq(Entry)
  BY DEF Inv, PairerTypeOK
<1>1. CASE i = 0
  BY <1>1 DEF Resolve
<1>2. CASE i # 0
  <2>1. i \in 1..Len(entries)
    BY <1>2 DEF Resolution, Unresolved
  <2>2. CASE entries[i][Other(side)]
    <3>1. entries' = Without(entries, i)
      BY <1>2, <2>2 DEF Resolve
    <3> HIDE DEF i
    <3>2. /\ \A j \in 1..Len(entries') :
               entries'[j] = entries[IF j < i THEN j ELSE j + 1]
          /\ Len(entries') = Len(entries) - 1
      BY <1>0, <2>1, <3>1, WithoutElements
    <3>3. \A j \in 1..Len(entries') :
            (IF j < i THEN j ELSE j + 1) \in 1..Len(entries)
      BY <1>0, <2>1, <3>2
    <3> QED
      BY <3>2, <3>3
  <2>3. CASE ~entries[i][Other(side)]
    <3>1. entries' = [entries EXCEPT ![i][side] = TRUE]
      BY <1>2, <2>3 DEF Resolve
    <3> HIDE DEF i
    <3>2. entries[i] \in Entry
      BY <1>0, <2>1
    <3>3. [entries[i] EXCEPT ![side] = TRUE].adm = entries[i].adm
      BY <3>2 DEF Entry
    <3>4. Len(entries') = Len(entries)
      BY <1>0, <3>1
    <3>5. ASSUME NEW j \in 1..Len(entries)
          PROVE  entries'[j].adm = entries[j].adm
      <4>1. CASE j = i
        <5>1. i \in DOMAIN entries
          BY <1>0, <2>1
        <5>2. entries' = [entries EXCEPT
                           ![i] = [entries[i] EXCEPT ![side] = TRUE]]
          BY <3>1
        <5>3. entries'[i] = [entries[i] EXCEPT ![side] = TRUE]
          BY <5>1, <5>2
        <5> QED
          BY <3>3, <4>1, <5>3
      <4>2. CASE j # i
        BY <1>0, <3>1, <4>2
      <4> QED
        BY <4>1, <4>2
    <3> QED
      BY <3>4, <3>5
  <2> QED
    BY <2>2, <2>3
<1> QED
  BY <1>1, <1>2

---------------------------------------------------------------------------
(* The pairer inside the pipeline.                                         *)

\* Every step of the pipeline is a step of the pairer or leaves it alone.
LEMMA PairerStep ==
  ASSUME FrameInv, [Next]_vars
  PROVE  [PairerNext]_pairerVars
<1>1. ASSUME Tick PROVE [PairerNext]_pairerVars
  <2>1. CASE AdmitFrame
    <3>1. slot \in Timestamp /\ generation \in Nat
      BY PipelineAssumption, PairerAssumption DEF FrameInv, PipelineTypeOK,
         ThreadsTyped, EncodersTyped, Timestamp
    <3> QED
      BY <2>1, <3>1 DEF AdmitFrame, PairerNext
  <2>2. CASE Collect
    <3>1. Head(ready) \in Packet
      BY <2>2 DEF Collect, FrameInv, PipelineTypeOK, QueuesTyped, Own, Half
    <3> QED
      BY <2>2, <3>1 DEF Collect, PairerNext
  <2>3. CASE ResolvePrimary
    <3>1. tick.have.ts \in Timestamp
      BY <2>3 DEF ResolvePrimary, FrameInv, PipelineTypeOK, ThreadsTyped, Colour
    <3> QED
      BY <2>3, <3>1 DEF ResolvePrimary, PairerNext
  <2>4. CASE SubmitColour
    <3>1. tick.half \in Packet
      BY <2>4 DEF SubmitColour, FrameInv, PipelineTypeOK, ThreadsTyped, Own,
         Half
    <3> QED
      BY <2>4, <3>1 DEF SubmitColour, PairerNext
  <2>5. CASE BeginTick \/ FrameWithoutPlane \/ EncodeReturns \/ EncodeUntimed
             \/ EncodeYieldsNothing \/ RecoverEncoder \/ FallBackToH264
    BY <2>5 DEF BeginTick, TakeSlot, FrameWithoutPlane, EncodeReturns,
       EncodeUntimed, EncodeYieldsNothing, RecoverEncoder, FallBackToH264
  <2>6. CASE Renegotiate \/ Collected \/ SendPlain \/ RejectPair \/ DispatchPair
    BY <2>6 DEF Renegotiate, Collected, SendPlain, RejectPair, DispatchPair
  <2> QED
    BY <1>1, <2>1, <2>2, <2>3, <2>4, <2>5, <2>6 DEF Tick
<1>2. ASSUME AlphaThread PROVE [PairerNext]_pairerVars
  <2>1. CASE EncodeAlpha
    <3>1. worker.job.adm.ts \in Timestamp
      BY <2>1 DEF EncodeAlpha, FrameInv, PipelineTypeOK, ThreadsTyped, Job,
         Admission
    <3> QED
      BY <2>1, <3>1 DEF EncodeAlpha, PairerNext
  <2>2. CASE TakeReconfigure \/ TakeJob \/ Reconfigure \/ DisableAlpha
             \/ EncodeAlphaFails \/ PushAlpha
    BY <2>2 DEF TakeReconfigure, TakeJob, Reconfigure, DisableAlpha,
       EncodeAlphaFails, PushAlpha
  <2> QED
    BY <1>2, <2>1, <2>2 DEF AlphaThread
<1>3. ASSUME ViewerStep PROVE [PairerNext]_pairerVars
  BY <1>3 DEF ViewerStep, NewTransport, AnnounceAlpha, AnnounceCutoff,
     AnnounceWaiting, WithdrawAlpha, RefreshWaiting, RefreshCutoff, messageRest
<1>4. ASSUME ControlThread PROVE [PairerNext]_pairerVars
  <2>1. CASE ControlBitrate \/ ControlRetire
    BY <2>1 DEF ControlBitrate, ControlRetire, RetireGeneration, PairerNext
  <2>2. CASE ControlClear \/ ControlCommit \/ ControlFallback
    BY <2>2 DEF ControlClear, ControlCommit, ControlFallback, ClearPairs,
       PairerNext
  <2>3. CASE ControlReinit \/ ControlPrepare \/ ControlHandOver
             \/ ControlRejected \/ ControlAlpha \/ ControlOffers
    BY <2>3 DEF ControlReinit, ControlPrepare, ControlHandOver,
       ControlRejected, ControlAlpha, ControlOffers
  <2> QED
    BY <1>4, <2>1, <2>2, <2>3 DEF ControlThread
<1>5. ASSUME Capture PROVE [PairerNext]_pairerVars
  <2>1. CASE StartCapture \/ JoinAlpha \/ ShutEncoders
    BY <2>1 DEF StartCapture, JoinAlpha, ShutEncoders, RetireGeneration,
       PairerNext
  <2>2. CASE ClearQueues
    BY <2>2 DEF ClearQueues, ClearPairs, PairerNext
  <2>3. CASE StopCapture \/ JoinEncode \/ PeriodicKeyframe
    BY <2>3 DEF StopCapture, JoinEncode, PeriodicKeyframe
  <2> QED
    BY <1>5, <2>1, <2>2, <2>3 DEF Capture
<1>6. CASE UNCHANGED vars
  BY <1>6 DEF vars
<1> QED
  BY <1>1, <1>2, <1>3, <1>4, <1>5, <1>6 DEF Next

---------------------------------------------------------------------------
(* Types, and what the captured frames become.                             *)

\* The idle states and the states of a restarted encoder are well typed.
LEMMA IdleTyped ==
  /\ IdleTick \in TickState /\ IdleWorker \in Worker /\ IdleControl \in Control
  /\ \A p \in PrimaryEncoder : Fresh(p) \in PrimaryEncoder
                             /\ Down(p) \in PrimaryEncoder
<1>1. IdleTick \in TickState
  BY DEF IdleTick, TickState, TickPc
<1>2. IdleWorker \in Worker
  BY DEF IdleWorker, Worker, WorkerPc
<1>3. IdleControl \in Control
  BY DEF IdleControl, Control, ControlPc, ControlKind, Config, Codec
<1>4. ASSUME NEW p \in PrimaryEncoder
      PROVE  Fresh(p) \in PrimaryEncoder /\ Down(p) \in PrimaryEncoder
  BY DEF Fresh, Down, PrimaryEncoder
<1> QED
  BY <1>1, <1>2, <1>3, <1>4

\* The frame an output slot hands to the colour encoder.
LEMMA SubmittedTyped ==
  ASSUME FrameInv, NEW key \in BOOLEAN
  PROVE  Submitted(key) \in Colour
<1>1. slot \in Timestamp
  BY PipelineAssumption, PairerAssumption DEF FrameInv, PipelineTypeOK,
     ThreadsTyped, Timestamp
<1>2. tick.adm # NoAdmission => tick.adm.ts = slot
  BY DEF FrameInv, PipelineTypeOK, ThreadsTyped
<1>3. config.codec \in Codec
  BY DEF FrameInv, PipelineTypeOK, EncodersTyped, Config
<1> QED
  BY <1>1, <1>2, <1>3 DEF Submitted, Colour

\* The packet that leaves the colour encoder, and what stays inside.
LEMMA EncoderTyped ==
  ASSUME FrameInv, NEW key \in BOOLEAN
  PROVE  /\ Append(primary.inside, Submitted(key)) \in Seq(Colour)
         /\ Head(Append(primary.inside, Submitted(key))) \in Colour
         /\ Tail(Append(primary.inside, Submitted(key))) \in Seq(Colour)
<1>1. primary.inside \in Seq(Colour) /\ Submitted(key) \in Colour
  BY SubmittedTyped DEF FrameInv, PipelineTypeOK, EncodersTyped, PrimaryEncoder
<1>2. /\ Append(primary.inside, Submitted(key)) \in Seq(Colour)
      /\ Len(Append(primary.inside, Submitted(key))) = Len(primary.inside) + 1
      /\ Len(primary.inside) \in Nat /\ Len(<<>>) = 0
  BY <1>1
<1>3. Append(primary.inside, Submitted(key)) # <<>>
  BY <1>2
<1> QED
  BY <1>2, <1>3

LEMMA KeyDueTyped ==
  ASSUME FrameInv
  PROVE  KeyDue \in BOOLEAN
BY DEF KeyDue, FrameInv, PipelineTypeOK, EncodersTyped, ThreadsTyped, TickState,
   PrimaryEncoder

\* The configuration and the encoders.
LEMMA EncodersStep ==
  ASSUME FrameInv, [Next]_vars
  PROVE  EncodersTyped'
<1> USE DEF EncodersTyped
<1>0. EncodersTyped
  BY DEF FrameInv, PipelineTypeOK
<1>1. ASSUME Tick PROVE EncodersTyped'
  <2>1. CASE BeginTick \/ AdmitFrame \/ FrameWithoutPlane \/ Collect \/ SendPlain
             \/ ResolvePrimary \/ SubmitColour
    BY <1>0, <2>1 DEF BeginTick, TakeSlot, AdmitFrame, FrameWithoutPlane,
       Collect, SendPlain, ResolvePrimary, SubmitColour, encoderVars
  <2>2. CASE EncodeReturns
    BY <1>0, <2>2, EncoderTyped DEF EncodeReturns, PrimaryEncoder, Rearm
  <2>3. CASE EncodeUntimed
    BY <1>0, <2>3, EncoderTyped, KeyDueTyped DEF EncodeUntimed, PrimaryEncoder
  <2>4. CASE EncodeYieldsNothing
    BY <1>0, <2>4, EncoderTyped, KeyDueTyped DEF EncodeYieldsNothing,
       PrimaryEncoder, Rearm
  <2>5. CASE RecoverEncoder
    BY <1>0, <2>5, IdleTyped DEF RecoverEncoder, Config, Codec
  <2>6. CASE FallBackToH264
    BY <1>0, <2>6, IdleTyped DEF FallBackToH264, Config, Codec
  <2>7. CASE Renegotiate
    BY <1>0, <2>7 DEF Renegotiate, Rebuild, encoderVars
  <2>8. CASE Collected
    BY <1>0, <2>8 DEF Collected, PrimaryEncoder
  <2>9. CASE RejectPair
    BY <1>0, <2>9 DEF RejectPair, PrimaryEncoder
  <2>10. CASE DispatchPair
    BY <1>0, <2>10 DEF DispatchPair, encoderVars
  <2> QED
    BY <1>1, <2>1, <2>2, <2>3, <2>4, <2>5, <2>6, <2>7, <2>8, <2>9, <2>10 DEF Tick
<1>2. ASSUME AlphaThread PROVE EncodersTyped'
  BY <1>0, <1>2 DEF AlphaThread, TakeReconfigure, TakeJob, Reconfigure,
     DisableAlpha, EncodeAlpha, EncodeAlphaFails, PushAlpha, encoderVars, Config
<1>3. ASSUME ViewerStep PROVE EncodersTyped'
  BY <1>0, <1>3 DEF ViewerStep, NewTransport, AnnounceAlpha, AnnounceCutoff,
     AnnounceWaiting, WithdrawAlpha, RefreshWaiting, RefreshCutoff, messageRest,
     encoderVars, Rebuild
<1>4. ASSUME ControlThread PROVE EncodersTyped'
  <2>0. control \in Control
    BY DEF FrameInv, PipelineTypeOK, ThreadsTyped
  <2>1. CASE ControlReinit \/ ControlHandOver \/ ControlRejected \/ ControlPrepare
    BY <1>0, <2>1, IdleTyped DEF ControlReinit, ControlHandOver,
       ControlRejected, ControlPrepare, PrimaryEncoder
  <2>2. CASE ControlBitrate
    <3>1. UNCHANGED <<phase, config, primary, alphaUp>>
      BY <2>2 DEF ControlBitrate, encoderVars
    <3>2. pendingKey' \in BOOLEAN
      BY <1>0, <2>2 DEF ControlBitrate
    <3>3. generation' \in Nat \ {0}
      BY <1>0, <2>2 DEF ControlBitrate, RetireGeneration
    <3> QED
      BY <1>0, <3>1, <3>2, <3>3
  <2>7. CASE ControlRetire
    BY <1>0, <2>7 DEF ControlRetire, RetireGeneration, encoderVars
  <2>6. CASE ControlClear \/ ControlOffers
    BY <1>0, <2>6 DEF ControlClear, ControlOffers, Rebuild, encoderVars
  <2>3. CASE ControlAlpha
    BY <1>0, <2>0, <2>3 DEF ControlAlpha, Config
  <2>4. CASE ControlCommit
    BY <1>0, <2>0, <2>4 DEF ControlCommit, encoderVars, Control
  <2>5. CASE ControlFallback
    <3>1. primary' \in PrimaryEncoder
      BY <1>0, <2>5, IdleTyped DEF ControlFallback
    <3>2. config' \in Config
      <4>1. \/ config' = config
            \/ config' = [codec |-> "H264", alpha |-> FALSE]
        BY <2>5 DEF ControlFallback
      <4>2. [codec |-> "H264", alpha |-> FALSE] \in Config
        BY DEF Config, Codec
      <4> QED
        BY <1>0, <4>1, <4>2
    <3>3. pendingKey' \in BOOLEAN
      BY <1>0, <2>5 DEF ControlFallback
    <3>4. UNCHANGED <<phase, generation, alphaUp>>
      BY <2>5 DEF ControlFallback
    <3> QED
      BY <1>0, <3>1, <3>2, <3>3, <3>4
  <2> QED
    BY <1>4, <2>1, <2>2, <2>3, <2>4, <2>5, <2>6,
       <2>7 DEF ControlThread
<1>5. ASSUME Capture PROVE EncodersTyped'
  <2>0. ASSUME NEW b, RetireGeneration(b) PROVE generation' \in Nat \ {0}
    BY <1>0, <2>0 DEF RetireGeneration
  <2>1. CASE StartCapture
    <3>1. primary' = Fresh(primary) /\ pendingKey' = FALSE
          /\ phase' = "capturing" /\ generation' \in Nat \ {0}
      BY <2>0, <2>1 DEF StartCapture
    <3>2. config' \in Config /\ alphaUp' \in BOOLEAN
      BY <1>0, <2>1 DEF StartCapture, Config, Codec
    <3> QED
      BY <1>0, <3>1, <3>2, IdleTyped DEF Phase
  <2>2. CASE StopCapture \/ JoinEncode \/ ClearQueues \/ PeriodicKeyframe
    BY <1>0, <2>2 DEF StopCapture, JoinEncode, ClearQueues, PeriodicKeyframe,
       encoderVars, Phase
  <2>4. CASE JoinAlpha
    BY <1>0, <2>0, <2>4 DEF JoinAlpha, encoderVars, Phase
  <2>3. CASE ShutEncoders
    <3>1. primary' = Down(primary) /\ pendingKey' = FALSE /\ alphaUp' = FALSE
          /\ phase' = "stopped" /\ generation' \in Nat \ {0}
          /\ UNCHANGED config
      BY <2>0, <2>3 DEF ShutEncoders
    <3> QED
      BY <1>0, <3>1, IdleTyped DEF Phase
  <2> QED
    BY <1>5, <2>1, <2>2, <2>3, <2>4 DEF Capture
<1>6. CASE UNCHANGED vars
  BY <1>0, <1>6 DEF vars, encoderVars
<1> QED
  BY <1>1, <1>2, <1>3, <1>4, <1>5, <1>6 DEF Next

\* A frame is admitted under the time of its own slot.
LEMMA AdmittedInItsSlot ==
  ASSUME FrameInv, tick.pc = "admit"
  PROVE  /\ ~Rejected(slot, generation)
         /\ AdmissionOf(slot, generation) \in Admission
         /\ AdmissionOf(slot, generation).ts = slot
         /\ slot \in Timestamp
<1>1. slot \in Timestamp
  BY PipelineAssumption, PairerAssumption DEF FrameInv, PipelineTypeOK,
     ThreadsTyped, Timestamp
<1>2. latestAdmission.ts \in Int /\ latestAdmission.ts < slot
  BY DEF FrameInv, Inv, PairerTypeOK, SlotsAdvance, Admission, NoAdmission,
     Timestamp, NoTimestamp
<1>3. Correlated(slot) = slot
  BY <1>1, <1>2 DEF Correlated, Timestamp
<1>4. generation \in Nat \ {0}
  BY DEF FrameInv, PipelineTypeOK, EncodersTyped
<1>5. ~Rejected(slot, generation)
  BY <1>1, <1>3, <1>4, PairerAssumption DEF Rejected, Timestamp, NoTimestamp
<1>6. AdmissionOf(slot, generation) \in Admission
  BY <1>1, <1>4, <1>5, AdmissionType DEF FrameInv, Inv
<1> QED
  BY <1>1, <1>3, <1>5, <1>6 DEF AdmissionOf

\* The alpha half of a job shows the frame of the job.
LEMMA AlphaHalfTyped ==
  ASSUME FrameInv, worker.pc = "encode", NEW key \in BOOLEAN
  PROVE  LET packet == [ts |-> worker.job.adm.ts, frame |-> worker.job.frame,
                        codec |-> "VP9", key |-> key] IN
         /\ packet \in Colour
         /\ HalfOf(packet, "alpha", 0) \in Own \cup {NoHalf}
<1> DEFINE packet == [ts |-> worker.job.adm.ts, frame |-> worker.job.frame,
                      codec |-> "VP9", key |-> key]
<1>1. worker.job \in Job
  BY DEF FrameInv, PipelineTypeOK, ThreadsTyped
<1>2. packet \in Colour
  BY <1>1 DEF Job, Colour, Codec
<1> HIDE DEF packet
<1>3. HalfOf(packet, "alpha", 0) \in Own \cup {NoHalf}
  BY <1>2, HalfIs DEF FrameInv
<1> QED
  BY <1>2, <1>3 DEF packet

\* What the encode thread hands to the pairer.
LEMMA SubmitsTyped ==
  ASSUME FrameInv
  PROVE  /\ Collect => \/ pairs' = pairs
                       \/ \E q \in OwnPair : pairs' = Append(pairs, q)
         /\ SubmitColour => \/ pairs' = pairs
                            \/ \E q \in OwnPair : pairs' = Append(pairs, q)
         /\ Collect \/ SubmitColour => /\ primaryPackets' \in Seq(Own)
                                       /\ alphaPackets' \in Seq(Own)
<1>1. Own \in SUBSET Half
  BY DEF Own
<1>2. primaryPackets \in Seq(Own) /\ alphaPackets \in Seq(Own) /\ Inv
  BY DEF FrameInv, PipelineTypeOK, QueuesTyped
<1>3. ASSUME Collect
      PROVE  /\ primaryPackets' \in Seq(Own) /\ alphaPackets' \in Seq(Own)
             /\ \/ pairs' = pairs
                \/ \E q \in OwnPair : pairs' = Append(pairs, q)
  <2>1. Head(ready) \in Own /\ SubmitAlpha(Head(ready))
    BY <1>3 DEF Collect, FrameInv, PipelineTypeOK, QueuesTyped
  <2> QED
    BY <1>1, <1>2, <2>1, SubmitAlphaStays DEF OwnPair
<1>4. ASSUME SubmitColour
      PROVE  /\ primaryPackets' \in Seq(Own) /\ alphaPackets' \in Seq(Own)
             /\ \/ pairs' = pairs
                \/ \E q \in OwnPair : pairs' = Append(pairs, q)
  <2>1. tick.half \in Own /\ SubmitPrimary(tick.half)
    BY <1>4 DEF SubmitColour, FrameInv, PipelineTypeOK, ThreadsTyped
  <2> QED
    BY <1>1, <1>2, <2>1, SubmitPrimaryStays DEF OwnPair
<1> QED
  BY <1>3, <1>4

\* The queues between the threads.
LEMMA QueuesStep ==
  ASSUME FrameInv, [Next]_vars
  PROVE  QueuesTyped'
<1> USE DEF QueuesTyped
<1>0. QueuesTyped
  BY DEF FrameInv, PipelineTypeOK
<1>7. ASSUME Collect \/ SubmitColour
      PROVE  pairs' \in Seq(OwnPair)
  <2>1. \/ pairs' = pairs
        \/ \E q \in OwnPair : pairs' = Append(pairs, q)
    BY <1>7, SubmitsTyped
  <2>2. pairs \in Seq(OwnPair)
    BY <1>0
  <2>3. \A q \in OwnPair : Append(pairs, q) \in Seq(OwnPair)
    BY <2>2
  <2> QED
    BY <2>1, <2>2, <2>3
<1>1. ASSUME Tick PROVE QueuesTyped'
  <2>1. CASE BeginTick \/ FrameWithoutPlane \/ EncodeReturns \/ EncodeUntimed
             \/ EncodeYieldsNothing \/ RecoverEncoder \/ FallBackToH264
    BY <1>0, <2>1 DEF BeginTick, TakeSlot, FrameWithoutPlane, EncodeReturns,
       EncodeUntimed, EncodeYieldsNothing, RecoverEncoder, FallBackToH264,
       queueVars, pairerVars, matchVars
  <2>2. CASE Renegotiate \/ Collected \/ SendPlain \/ RejectPair \/ DispatchPair
    BY <1>0, <2>2 DEF Renegotiate, Collected, SendPlain, RejectPair,
       DispatchPair, queueVars, pairerVars, matchVars
  <2>3. CASE AdmitFrame
    <3>1. tick.pc = "admit"
      BY <2>3 DEF AdmitFrame
    <3>2. job' = [adm |-> AdmissionOf(slot, generation), frame |-> slot]
      BY <2>3, <3>1, AdmittedInItsSlot DEF AdmitFrame
    <3>3. job' \in Job
      BY <3>1, <3>2, AdmittedInItsSlot DEF Job
    <3> QED
      BY <1>0, <2>3, <3>3 DEF AdmitFrame, Admit, matchVars
  <2>4. CASE Collect
    <3>1. ready' \in Seq(Own)
      BY <1>0, <2>4 DEF Collect
    <3>2. UNCHANGED <<job, reconfigure>>
      BY <2>4 DEF Collect
    <3> QED
      BY <1>0, <1>7, <2>4, <3>1, <3>2, SubmitsTyped
  <2>5. CASE ResolvePrimary
    BY <1>0, <2>5 DEF ResolvePrimary, queueVars, matchVars
  <2>6. CASE SubmitColour
    <3>1. UNCHANGED <<job, reconfigure, ready>>
      BY <2>6 DEF SubmitColour, queueVars
    <3> QED
      BY <1>0, <1>7, <2>6, <3>1, SubmitsTyped
  <2> QED
    BY <1>1, <2>1, <2>2, <2>3, <2>4, <2>5, <2>6 DEF Tick
<1>2. ASSUME AlphaThread PROVE QueuesTyped'
  <2>1. CASE TakeReconfigure \/ TakeJob \/ DisableAlpha \/ EncodeAlphaFails
    BY <1>0, <2>1 DEF TakeReconfigure, TakeJob, DisableAlpha,
       EncodeAlphaFails, queueVars, pairerVars, matchVars
  <2>2. CASE Reconfigure
    BY <1>0, <2>2 DEF Reconfigure, pairerVars, matchVars
  <2>3. CASE EncodeAlpha
    BY <1>0, <2>3 DEF EncodeAlpha, queueVars, matchVars
  <2>4. CASE PushAlpha
    <3>1. worker.half \in Own
      BY <2>4 DEF PushAlpha, FrameInv, PipelineTypeOK, ThreadsTyped
    <3>2. ready' \in Seq(Own)
      BY <1>0, <2>4, <3>1, BoundedType, PipelineAssumption DEF PushAlpha
    <3> QED
      BY <1>0, <2>4, <3>2 DEF PushAlpha, pairerVars, matchVars
  <2> QED
    BY <1>2, <2>1, <2>2, <2>3, <2>4 DEF AlphaThread
<1>3. ASSUME ViewerStep PROVE QueuesTyped'
  BY <1>0, <1>3 DEF ViewerStep, NewTransport, AnnounceAlpha, AnnounceCutoff,
     AnnounceWaiting, WithdrawAlpha, RefreshWaiting, RefreshCutoff, messageRest,
     queueVars, pairerVars, matchVars
<1>4. ASSUME ControlThread PROVE QueuesTyped'
  <2>1. CASE ControlReinit \/ ControlPrepare \/ ControlHandOver
             \/ ControlRejected \/ ControlAlpha \/ ControlOffers
    BY <1>0, <2>1 DEF ControlReinit, ControlPrepare, ControlHandOver,
       ControlRejected, ControlAlpha, ControlOffers, queueVars, pairerVars,
       matchVars
  <2>2. CASE ControlBitrate \/ ControlRetire
    BY <1>0, <2>2 DEF ControlBitrate, ControlRetire, RetireGeneration,
       pairerVars, matchVars
  <2>3. CASE ControlClear \/ ControlCommit \/ ControlFallback
    <3>1. /\ ready' = <<>> /\ primaryPackets' = <<>> /\ alphaPackets' = <<>>
          /\ UNCHANGED <<job, reconfigure, pairs>>
      BY <2>3 DEF ControlClear, ControlCommit, ControlFallback, ClearPairs,
         ClearPairer
    <3> QED
      BY <1>0, <3>1
  <2> QED
    BY <1>4, <2>1, <2>2, <2>3 DEF ControlThread
<1>5. ASSUME Capture PROVE QueuesTyped'
  <2>1. CASE StartCapture \/ JoinAlpha \/ ShutEncoders
    BY <1>0, <2>1 DEF StartCapture, JoinAlpha, ShutEncoders, RetireGeneration,
       matchVars
  <2>2. CASE ClearQueues
    BY <1>0, <2>2 DEF ClearQueues, ClearPairs, ClearPairer
  <2>3. CASE StopCapture \/ JoinEncode \/ PeriodicKeyframe
    BY <1>0, <2>3 DEF StopCapture, JoinEncode, PeriodicKeyframe, queueVars,
       pairerVars, matchVars
  <2> QED
    BY <1>5, <2>1, <2>2, <2>3 DEF Capture
<1>6. CASE UNCHANGED vars
  BY <1>0, <1>6 DEF vars, queueVars, pairerVars, matchVars
<1> QED
  BY <1>1, <1>2, <1>3, <1>4, <1>5, <1>6 DEF Next

\* The alpha thread.
LEMMA WorkerStep ==
  ASSUME FrameInv, [Next]_vars
  PROVE  /\ worker' \in Worker
         /\ worker'.pc = "encode" => worker'.job \in Job
         /\ worker'.pc = "push" => worker'.half \in Own
<1>0. /\ worker \in Worker
      /\ worker.pc = "encode" => worker.job \in Job
      /\ worker.pc = "push" => worker.half \in Own
  BY DEF FrameInv, PipelineTypeOK, ThreadsTyped
<1>1. CASE UNCHANGED worker
  BY <1>0, <1>1
<1>2. CASE TakeReconfigure
  BY <1>0, <1>2 DEF TakeReconfigure, Worker, WorkerPc
<1>3. CASE TakeJob
  <2>1. job \in Job
    BY <1>3 DEF TakeJob, FrameInv, PipelineTypeOK, QueuesTyped
  <2> QED
    BY <1>0, <1>3, <2>1 DEF TakeJob, Worker, WorkerPc
<1>4. CASE Reconfigure \/ DisableAlpha
  BY <1>0, <1>4, IdleTyped DEF Reconfigure, DisableAlpha, Worker, WorkerPc,
     IdleWorker
<1>5. CASE EncodeAlpha
  <2>1. worker.pc = "encode"
    BY <1>5 DEF EncodeAlpha
  <2>2. PICK key \in BOOLEAN :
          LET half == HalfOf([ts |-> worker.job.adm.ts,
                              frame |-> worker.job.frame, codec |-> "VP9",
                              key |-> key], "alpha", 0) IN
          worker' = IF half = NoHalf THEN IdleWorker
                    ELSE [IdleWorker EXCEPT !.pc = "push", !.half = half]
    BY <1>5 DEF EncodeAlpha
  <2> DEFINE half == HalfOf([ts |-> worker.job.adm.ts,
                             frame |-> worker.job.frame, codec |-> "VP9",
                             key |-> key], "alpha", 0)
  <2>3. half \in Own \cup {NoHalf}
    BY <2>1, AlphaHalfTyped
  <2> HIDE DEF half
  <2>4. worker' = IF half = NoHalf THEN IdleWorker
                  ELSE [IdleWorker EXCEPT !.pc = "push", !.half = half]
    BY <2>2 DEF half
  <2> QED
    BY <2>3, <2>4, IdleTyped DEF Worker, WorkerPc, IdleWorker
<1>6. CASE EncodeAlphaFails \/ PushAlpha
  <2>1. worker' = IdleWorker
    BY <1>6 DEF EncodeAlphaFails, PushAlpha
  <2>2. IdleWorker.pc = "idle"
    BY DEF IdleWorker
  <2> QED
    BY <2>1, <2>2, IdleTyped
<1>7. ASSUME Tick \/ ViewerStep PROVE UNCHANGED worker
  BY <1>7 DEF Tick, BeginTick, TakeSlot, AdmitFrame, FrameWithoutPlane,
     EncodeReturns, EncodeUntimed, EncodeYieldsNothing, RecoverEncoder,
     FallBackToH264, Renegotiate, Collect, Collected, SendPlain, ResolvePrimary,
     SubmitColour, RejectPair, DispatchPair, ViewerStep, NewTransport,
     AnnounceAlpha, AnnounceCutoff, AnnounceWaiting, WithdrawAlpha,
     RefreshWaiting, RefreshCutoff, messageRest, threadVars
<1>8. ASSUME ControlThread \/ Capture \/ UNCHANGED vars PROVE UNCHANGED worker
  BY <1>8 DEF ControlThread, ControlReinit, ControlPrepare, ControlHandOver,
     ControlRejected, ControlBitrate, ControlRetire, ControlClear,
     ControlAlpha, ControlCommit, ControlFallback, ControlOffers, Capture,
     StartCapture, StopCapture, JoinEncode, JoinAlpha, ClearQueues,
     ShutEncoders, PeriodicKeyframe, threadVars, vars
<1> QED
  BY <1>1, <1>2, <1>3, <1>4, <1>5, <1>6, <1>7, <1>8 DEF Next, AlphaThread

\* The control thread.
LEMMA ControlStep ==
  ASSUME FrameInv, [Next]_vars
  PROVE  control' \in Control
<1>0. control \in Control /\ config \in Config
  BY DEF FrameInv, PipelineTypeOK, ThreadsTyped, EncodersTyped
<1>1. CASE UNCHANGED control
  BY <1>0, <1>1
<1>2. ASSUME ControlThread PROVE control' \in Control
  <2>1. CASE ControlReinit \/ ControlPrepare \/ ControlRejected
             \/ ControlBitrate
    BY <1>0, <2>1, IdleTyped DEF ControlReinit, ControlPrepare,
       ControlRejected, ControlBitrate, Control, ControlPc, ControlKind
  <2>2. CASE ControlHandOver \/ ControlRetire \/ ControlClear \/ ControlCommit
    BY <1>0, <2>2, IdleTyped DEF ControlHandOver, ControlRetire, ControlClear,
       ControlCommit, ControlTo, Control, ControlPc
  <2>3. CASE ControlAlpha
    <3>1. PICK ok \in BOOLEAN :
            control' = [control EXCEPT !.pc = "retireAgain",
              !.config.alpha = @ /\ (ok \/ control.kind = "fallback")]
      BY <2>3 DEF ControlAlpha
    <3>2. [control.config EXCEPT
             !.alpha = @ /\ (ok \/ control.kind = "fallback")] \in Config
      BY <1>0 DEF Control, Config
    <3> QED
      BY <1>0, <3>1, <3>2 DEF Control, ControlPc
  <2>4. CASE ControlFallback \/ ControlOffers
    BY <1>0, <2>4, IdleTyped DEF ControlFallback, ControlOffers, Control,
       ControlPc
  <2> QED
    BY <1>2, <2>1, <2>2, <2>3, <2>4 DEF ControlThread
<1>3. ASSUME Tick \/ ViewerStep PROVE UNCHANGED control
  BY <1>3 DEF Tick, BeginTick, TakeSlot, AdmitFrame, FrameWithoutPlane,
     EncodeReturns, EncodeUntimed, EncodeYieldsNothing, RecoverEncoder,
     FallBackToH264, Renegotiate, Collect, Collected, SendPlain, ResolvePrimary,
     SubmitColour, RejectPair, DispatchPair, ViewerStep, NewTransport,
     AnnounceAlpha, AnnounceCutoff, AnnounceWaiting, WithdrawAlpha,
     RefreshWaiting, RefreshCutoff, messageRest, threadVars
<1>4. ASSUME AlphaThread \/ Capture \/ UNCHANGED vars PROVE UNCHANGED control
  BY <1>4 DEF AlphaThread, TakeReconfigure, TakeJob, Reconfigure, DisableAlpha,
     EncodeAlpha, EncodeAlphaFails, PushAlpha, Capture, StartCapture,
     StopCapture, JoinEncode, JoinAlpha, ClearQueues, ShutEncoders,
     PeriodicKeyframe, threadVars, vars
<1> QED
  BY <1>1, <1>2, <1>3, <1>4 DEF Next

\* The encode thread turns to its pairs, or is done with the slot.
LEMMA ToPairsTyped ==
  ASSUME tick \in TickState, NEW todo \in Seq(OwnPair)
  PROVE  /\ ToPairs(todo) \in TickState
         /\ ToPairs(todo).pc \in {"idle", "pairs"}
         /\ ToPairs(todo).pc = "pairs" =>
              ToPairs(todo).todo # <<>> /\ ToPairs(todo).adm = tick.adm
         /\ ToPairs(todo).pc = "idle" => ToPairs(todo) = IdleTick
<1>1. CASE todo = <<>>
  BY <1>1, IdleTyped DEF ToPairs, IdleTick
<1>2. CASE todo # <<>>
  <2>1. ToPairs(todo) = [tick EXCEPT !.pc = "pairs", !.plain = {},
                           !.half = NoHalf, !.have = NoPacket, !.todo = todo]
    BY <1>2 DEF ToPairs
  <2> QED
    BY <1>2, <2>1 DEF TickState, TickPc
<1> QED
  BY <1>1, <1>2

\* The pairs it has after a half was submitted.
LEMMA ExtendedTyped ==
  ASSUME FrameInv, NEW todo \in Seq(OwnPair), Collect \/ SubmitColour
  PROVE  Extended(todo) \in Seq(OwnPair)
<1>1. pairs \in Seq(OwnPair)
  BY DEF FrameInv, PipelineTypeOK, QueuesTyped
<1>2. CASE pairs' = pairs
  BY <1>2 DEF Extended
<1>3. ASSUME NEW q \in OwnPair, pairs' = Append(pairs, q), pairs' # pairs
      PROVE  Extended(todo) = Append(todo, q) /\ Extended(todo) \in Seq(OwnPair)
  <2>1. pairs'[Len(pairs')] = q
    BY <1>1, <1>3
  <2>2. Extended(todo) = Append(todo, q)
    BY <1>3, <2>1 DEF Extended
  <2> QED
    BY <2>2
<1> QED
  BY <1>2, <1>3, SubmitsTyped

LEMMA PlainSentTyped ==
  ASSUME tick \in TickState
  PROVE  /\ PlainSent \in TickState
         /\ PlainSent.pc \in {"idle", "pairs", "resolve"}
         /\ PlainSent.pc = "pairs" =>
              PlainSent.todo # <<>> /\ PlainSent.adm = tick.adm
         /\ PlainSent.pc = "resolve" =>
              PlainSent = [tick EXCEPT !.pc = "resolve", !.plain = {}]
         /\ PlainSent.pc = "idle" => PlainSent = IdleTick
<1>1. tick.todo \in Seq(OwnPair)
  BY DEF TickState
<1>2. CASE tick.flow
  <2>1. PlainSent = [tick EXCEPT !.pc = "resolve", !.plain = {}]
    BY <1>2 DEF PlainSent
  <2> QED
    BY <2>1 DEF TickState, TickPc
<1>3. CASE ~tick.flow
  <2>1. PlainSent = ToPairs(tick.todo)
    BY <1>3 DEF PlainSent
  <2> HIDE DEF PlainSent
  <2> QED
    BY <1>1, <2>1, ToPairsTyped
<1> QED
  BY <1>2, <1>3

\* Admissions only grow while a frame is admitted.
LEMMA LatestStep ==
  ASSUME FrameInv, [Next]_vars
  PROVE  UNCHANGED latestAdmission \/ AdmitFrame
<1>1. ASSUME Tick PROVE UNCHANGED latestAdmission \/ AdmitFrame
  BY <1>1 DEF Tick, BeginTick, TakeSlot, FrameWithoutPlane, EncodeReturns,
     EncodeUntimed, EncodeYieldsNothing, RecoverEncoder, FallBackToH264,
     Renegotiate, Collect, Collected, SendPlain, ResolvePrimary, SubmitColour,
     RejectPair, DispatchPair, pairerVars, trackerVars, Resolve, SubmitPrimary,
     SubmitAlpha
<1>2. ASSUME AlphaThread \/ ViewerStep PROVE UNCHANGED latestAdmission
  BY <1>2 DEF AlphaThread, TakeReconfigure, TakeJob, Reconfigure, DisableAlpha,
     EncodeAlpha, EncodeAlphaFails, PushAlpha, Resolve, ViewerStep,
     NewTransport, AnnounceAlpha, AnnounceCutoff, AnnounceWaiting,
     WithdrawAlpha, RefreshWaiting, RefreshCutoff, messageRest, pairerVars,
     trackerVars
<1>3. ASSUME ControlThread PROVE UNCHANGED latestAdmission
  BY <1>3 DEF ControlThread, ControlReinit, ControlPrepare, ControlHandOver,
     ControlRejected, ControlBitrate, ControlRetire, ControlClear,
     ControlAlpha, ControlCommit, ControlFallback, ControlOffers,
     RetireGeneration, ClearPending, pairerVars, trackerVars
<1>4. ASSUME Capture \/ UNCHANGED vars PROVE UNCHANGED latestAdmission
  BY <1>4 DEF Capture, StartCapture, StopCapture, JoinEncode, JoinAlpha,
     ClearQueues, ShutEncoders, PeriodicKeyframe, RetireGeneration,
     ClearPending, pairerVars, trackerVars, vars
<1> QED
  BY <1>1, <1>2, <1>3, <1>4 DEF Next

\* Only the encode thread has a slot.
LEMMA TickAlone ==
  ASSUME FrameInv, [Next]_vars, ~Tick
  PROVE  UNCHANGED <<tick, slot>>
<1>1. ASSUME AlphaThread \/ ViewerStep PROVE UNCHANGED <<tick, slot>>
  BY <1>1 DEF AlphaThread, TakeReconfigure, TakeJob, Reconfigure, DisableAlpha,
     EncodeAlpha, EncodeAlphaFails, PushAlpha, ViewerStep,
     NewTransport, AnnounceAlpha, AnnounceCutoff, AnnounceWaiting,
     WithdrawAlpha, RefreshWaiting, RefreshCutoff, messageRest, threadVars
<1>2. ASSUME ControlThread PROVE UNCHANGED <<tick, slot>>
  BY <1>2 DEF ControlThread, ControlReinit, ControlPrepare, ControlHandOver,
     ControlRejected, ControlBitrate, ControlRetire, ControlClear,
     ControlAlpha, ControlCommit, ControlFallback, ControlOffers
<1>3. ASSUME Capture \/ UNCHANGED vars PROVE UNCHANGED <<tick, slot>>
  BY <1>3 DEF Capture, StartCapture, StopCapture, JoinEncode, JoinAlpha,
     ClearQueues, ShutEncoders, PeriodicKeyframe, threadVars, vars
<1> QED
  BY <1>1, <1>2, <1>3 DEF Next

\* The encode thread and its slot.
LEMMA TickStep ==
  ASSUME FrameInv, [Next]_vars
  PROVE  /\ tick' \in TickState
         /\ tick'.pc \in {"plain", "resolve"} => tick'.have \in Colour
         /\ tick'.pc = "submit" => tick'.half \in Own
         /\ tick'.pc = "pairs" => tick'.todo # <<>>
         /\ tick'.adm # NoAdmission => tick'.adm.ts = slot'
         /\ slot' \in 0..MaxSlots
         /\ SlotsAdvance'
<1> DEFINE TickTyped ==
             /\ tick \in TickState
             /\ tick.pc \in {"plain", "resolve"} => tick.have \in Colour
             /\ tick.pc = "submit" => tick.half \in Own
             /\ tick.pc = "pairs" => tick.todo # <<>>
             /\ tick.adm # NoAdmission => tick.adm.ts = slot
             /\ slot \in 0..MaxSlots
<1>0. TickTyped /\ SlotsAdvance /\ slot \in Nat /\ latestAdmission.ts \in Int
  BY PipelineAssumption DEF FrameInv, PipelineTypeOK, ThreadsTyped, Inv,
     PairerTypeOK, Admission, NoAdmission, Timestamp, NoTimestamp
<1>1. SUFFICES TickTyped' /\ SlotsAdvance'
  OBVIOUS
<1>2. CASE ~Tick
  <2>1. UNCHANGED <<tick, slot>> /\ UNCHANGED latestAdmission
    BY <1>2, TickAlone, LatestStep DEF Tick
  <2> QED
    BY <1>0, <2>1 DEF SlotsAdvance
<1>3. CASE BeginTick
  <2>1. slot' = slot + 1 /\ slot < MaxSlots /\ UNCHANGED latestAdmission
    BY <1>3 DEF BeginTick, TakeSlot, pairerVars, trackerVars
  <2>2. PICK routed \in SUBSET Viewers :
          LET flow == routed # {} /\ config.alpha IN
          tick' = [IdleTick EXCEPT !.pc = IF flow THEN "admit" ELSE "encode",
                     !.key = pendingKey, !.flow = flow, !.routed = routed]
    BY <1>3 DEF BeginTick, TakeSlot
  <2>3. config.alpha \in BOOLEAN /\ pendingKey \in BOOLEAN
    BY DEF FrameInv, PipelineTypeOK, EncodersTyped, Config
  <2>4. /\ tick' \in TickState /\ tick'.pc \in {"admit", "encode"}
        /\ tick'.adm = NoAdmission
    BY ZenonT(40), <2>2, <2>3, IdleTyped DEF TickState, TickPc, IdleTick
  <2> QED
    BY <1>0, <2>1, <2>4, PipelineAssumption DEF SlotsAdvance
<1>4. CASE AdmitFrame
  <2>1. tick' = [tick EXCEPT !.pc = "encode", !.adm = AdmissionOf(slot, generation)]
        /\ slot' = slot /\ tick.pc = "admit"
    BY <1>4 DEF AdmitFrame
  <2>2. /\ AdmissionOf(slot, generation) \in Admission
        /\ AdmissionOf(slot, generation).ts = slot
        /\ latestAdmission' = AdmissionOf(slot, generation)
    BY <1>4, <2>1, AdmittedInItsSlot DEF AdmitFrame, Admit
  <2>3. tick' \in TickState /\ tick'.pc = "encode" /\ tick'.adm.ts = slot
    BY <1>0, <2>1, <2>2 DEF TickState, TickPc
  <2> QED
    BY <1>0, <2>1, <2>2, <2>3 DEF SlotsAdvance
<1>5. CASE FrameWithoutPlane
  <2>1. tick' = [tick EXCEPT !.pc = "encode"] /\ UNCHANGED <<slot, latestAdmission>>
    BY <1>5 DEF FrameWithoutPlane, Goto, pairerVars, trackerVars
  <2>2. tick' \in TickState /\ tick'.pc = "encode" /\ tick'.adm = tick.adm
    BY <1>0, <2>1 DEF TickState, TickPc
  <2> QED
    BY <1>0, <2>1, <2>2 DEF SlotsAdvance
<1>6. CASE EncodeReturns \/ EncodeUntimed \/ EncodeYieldsNothing \/ RecoverEncoder
  <2>1. UNCHANGED <<slot, latestAdmission>>
    BY <1>6 DEF EncodeReturns, EncodeUntimed, EncodeYieldsNothing,
       RecoverEncoder, pairerVars, trackerVars
  <2>2. \E packet \in Colour \cup {NoPacket} : AfterEncode(packet)
    <3>1. CASE EncodeReturns
      BY <3>1, EncoderTyped DEF EncodeReturns
    <3>2. CASE EncodeUntimed \/ EncodeYieldsNothing
      BY <3>2 DEF EncodeUntimed, EncodeYieldsNothing
    <3>3. CASE RecoverEncoder
      BY <3>3, EncoderTyped, KeyDueTyped DEF RecoverEncoder
    <3> QED
      BY <1>6, <3>1, <3>2, <3>3
  <2>3. tick' \in TickState /\ tick'.pc = "collect" /\ tick'.adm = NoAdmission
    BY ZenonT(40), <1>0, <2>2 DEF AfterEncode, TickState, TickPc
  <2> QED
    BY <1>0, <2>1, <2>3 DEF SlotsAdvance
<1>7. CASE FallBackToH264
  <2>1. /\ tick' = [IdleTick EXCEPT !.pc = "renegotiate", !.routed = Viewers]
        /\ UNCHANGED <<slot, latestAdmission>>
    BY <1>7 DEF FallBackToH264, pairerVars, trackerVars
  <2>2. tick' \in TickState /\ tick'.pc = "renegotiate"
        /\ tick'.adm = NoAdmission
    BY <2>1, IdleTyped DEF TickState, TickPc, IdleTick
  <2> QED
    BY <1>0, <2>1, <2>2 DEF SlotsAdvance
<1>8. CASE Renegotiate
  <2>1. /\ UNCHANGED <<slot, latestAdmission>>
        /\ \/ \E v \in tick.routed : tick' = [tick EXCEPT !.routed = @ \ {v}]
           \/ tick' = IdleTick
        /\ tick.pc = "renegotiate"
    BY <1>8 DEF Renegotiate, pairerVars, trackerVars
  <2>2. /\ tick' \in TickState /\ tick'.pc \in {"renegotiate", "idle"}
        /\ tick'.adm \in {tick.adm, NoAdmission}
    <3>1. CASE tick' = IdleTick
      BY <3>1, IdleTyped DEF IdleTick
    <3>2. ASSUME NEW v \in tick.routed, tick' = [tick EXCEPT !.routed = @ \ {v}]
          PROVE  /\ tick' \in TickState /\ tick'.pc = "renegotiate"
                 /\ tick'.adm = tick.adm
      BY <1>0, <2>1, <3>2 DEF TickState
    <3> QED
      BY <2>1, <3>1, <3>2
  <2> QED
    BY <1>0, <2>1, <2>2 DEF SlotsAdvance
<1>9. CASE Collect
  <2>1. /\ tick' = [tick EXCEPT !.todo = Extended(tick.todo)]
        /\ slot' = slot /\ latestAdmission' = latestAdmission
        /\ tick.pc = "collect"
    BY <1>9 DEF Collect, SubmitAlpha, trackerVars
  <2>2. Extended(tick.todo) \in Seq(OwnPair)
    BY <1>0, <1>9, ExtendedTyped DEF TickState
  <2>3. tick' \in TickState /\ tick'.pc = "collect" /\ tick'.adm = tick.adm
    BY <1>0, <2>1, <2>2 DEF TickState
  <2> QED
    BY <1>0, <2>1, <2>3 DEF SlotsAdvance
<1>10. CASE Collected
  <2>1. UNCHANGED <<slot, latestAdmission>>
    BY <1>10 DEF Collected, pairerVars, trackerVars
  <2>2. tick.have \in Colour \cup {NoPacket} /\ tick.todo \in Seq(OwnPair)
    BY <1>0 DEF TickState
  <2>3. CASE tick.have = NoPacket
    <3>1. tick' = ToPairs(tick.todo)
      BY <1>10, <2>3 DEF Collected
    <3> QED
      BY <1>0, <2>1, <2>2, <3>1, ToPairsTyped DEF SlotsAdvance, IdleTick
  <2>4. CASE tick.have # NoPacket
    <3>1. \/ tick' = PlainSent
          \/ \E plain \in SUBSET Viewers :
               tick' = [tick EXCEPT !.pc = "plain", !.plain = plain]
      BY <1>0, <1>10, <2>4 DEF Collected, TickState
    <3>2. CASE tick' = PlainSent
      <4>1. tick'.pc = "resolve" => tick'.have = tick.have /\ tick'.adm = tick.adm
        BY <1>0, <3>2, PlainSentTyped DEF TickState
      <4> QED
        BY <1>0, <2>1, <2>2, <2>4, <3>2, <4>1, PlainSentTyped
           DEF SlotsAdvance, IdleTick
    <3>3. ASSUME NEW plain \in SUBSET Viewers,
                 tick' = [tick EXCEPT !.pc = "plain", !.plain = plain]
          PROVE  TickTyped' /\ SlotsAdvance'
      <4>1. /\ tick' \in TickState /\ tick'.pc = "plain"
            /\ tick'.have = tick.have /\ tick'.adm = tick.adm
        BY <1>0, <3>3 DEF TickState, TickPc
      <4> QED
        BY <1>0, <2>1, <2>2, <2>4, <4>1 DEF SlotsAdvance
    <3> QED
      BY <3>1, <3>2, <3>3
  <2> QED
    BY <2>3, <2>4
<1>11. CASE SendPlain
  <2>1. /\ UNCHANGED <<slot, latestAdmission>>
        /\ tick' = PlainSent /\ tick.pc = "plain"
    BY <1>11 DEF SendPlain, pairerVars, trackerVars
  <2>2. tick'.pc = "resolve" => tick'.have = tick.have /\ tick'.adm = tick.adm
    BY <1>0, <2>1, PlainSentTyped DEF TickState
  <2> QED
    BY <1>0, <2>1, <2>2, PlainSentTyped DEF SlotsAdvance, IdleTick
<1>12. CASE ResolvePrimary
  <2>1. UNCHANGED <<slot, latestAdmission>> /\ tick.pc = "resolve"
    BY <1>12 DEF ResolvePrimary, Resolve
  <2>2. tick.todo \in Seq(OwnPair) /\ primary.out \in Nat
    BY <1>0 DEF TickState, FrameInv, PipelineTypeOK, EncodersTyped,
       PrimaryEncoder
  <2> DEFINE half == HalfOf(tick.have, "primary", primary.out)
  <2>3. half \in Own \cup {NoHalf}
    BY <1>0, <2>1, <2>2, HalfIs DEF FrameInv
  <2>4. tick' = IF half = NoHalf THEN ToPairs(tick.todo)
                ELSE [tick EXCEPT !.pc = "submit", !.have = NoPacket,
                                  !.half = half]
    BY <1>12 DEF ResolvePrimary
  <2> HIDE DEF half
  <2>5. CASE half = NoHalf
    BY <1>0, <2>1, <2>2, <2>4, <2>5, ToPairsTyped DEF SlotsAdvance, IdleTick
  <2>6. CASE half # NoHalf
    <3>1. /\ tick' \in TickState /\ tick'.pc = "submit"
          /\ tick'.half \in Own /\ tick'.adm = tick.adm
      BY <1>0, <2>3, <2>4, <2>6 DEF TickState, TickPc
    <3> QED
      BY <1>0, <2>1, <3>1 DEF SlotsAdvance
  <2> QED
    BY <2>5, <2>6
<1>13. CASE SubmitColour
  <2>1. /\ UNCHANGED <<slot, latestAdmission>>
        /\ tick' = ToPairs(Extended(tick.todo))
    BY <1>13 DEF SubmitColour, SubmitPrimary, trackerVars
  <2>2. Extended(tick.todo) \in Seq(OwnPair)
    BY <1>0, <1>13, ExtendedTyped DEF TickState
  <2> QED
    BY <1>0, <2>1, <2>2, ToPairsTyped DEF SlotsAdvance, IdleTick
<1>14. CASE RejectPair \/ DispatchPair
  <2>1. /\ UNCHANGED <<slot, latestAdmission>> /\ tick.pc = "pairs"
        /\ tick' = ToPairs(Tail(tick.todo))
    BY <1>14 DEF RejectPair, DispatchPair, pairerVars, trackerVars
  <2>2. Tail(tick.todo) \in Seq(OwnPair)
    BY <1>0, <2>1 DEF TickState
  <2>3. PICK todo \in Seq(OwnPair) : tick' = ToPairs(todo)
    BY <2>1, <2>2
  <2>4. UNCHANGED <<slot, latestAdmission>>
    BY <2>1
  <2> QED
    BY <1>0, <2>3, <2>4, ToPairsTyped DEF SlotsAdvance, IdleTick
<1> HIDE DEF TickTyped
<1> QED
  BY <1>2, <1>3, <1>4, <1>5, <1>6, <1>7, <1>8, <1>9, <1>10, <1>11, <1>12,
     <1>13, <1>14 DEF Tick

\* A cutoff never goes back, and covers every admission so far.
LEMMA CutoffIs ==
  ASSUME Inv, NEW old \in Nat
  PROVE  /\ Cutoff(old) \in Nat /\ old <= Cutoff(old)
         /\ latestAdmission.seq \in Nat /\ latestAdmission.seq <= Cutoff(old)
<1>1. latestAdmission.seq \in Nat
  BY DEF Inv, PairerTypeOK, Admission, NoAdmission
<1> QED
  BY <1>1, LargerType DEF Cutoff

\* What a message, a reset or a rejected pair makes of a viewer.
LEMMA ViewerTyped ==
  ASSUME Inv, NEW w \in ViewerState
  PROVE  /\ OnNewTransport(w) \in ViewerState
         /\ Wait(w) \in ViewerState
         /\ [w EXCEPT !.cutoff = Cutoff(@)] \in ViewerState
         /\ [w EXCEPT !.bound = FALSE, !.cutoff = Cutoff(@)] \in ViewerState
<1>1. Cutoff(w.cutoff) \in Nat
  BY CutoffIs DEF ViewerState
<1> QED
  BY <1>1 DEF OnNewTransport, Wait, ViewerState

LEMMA RebuildTyped ==
  ASSUME FrameInv, NEW v \in Viewers, Rebuild(v)
  PROVE  ViewersTyped'
<1>1. viewer \in [Viewers -> ViewerState]
      /\ shown \in [Viewers -> [enc : Nat, key : BOOLEAN]]
  BY DEF FrameInv, PipelineTypeOK, ViewersTyped
<1>2. viewer[v] \in ViewerState
  BY <1>1
<1>3. viewer' \in [Viewers -> ViewerState]
  <2>1. \/ viewer' = [viewer EXCEPT ![v] = OnNewTransport(viewer[v])]
        \/ viewer' = [viewer EXCEPT ![v] = [viewer[v] EXCEPT
                        !.bound = FALSE, !.cutoff = Cutoff(@)]]
        \/ viewer' = [viewer EXCEPT ![v] = [viewer[v] EXCEPT
                        !.cutoff = Cutoff(@)]]
    BY <1>1 DEF Rebuild
  <2> QED
    BY <1>1, <1>2, <2>1, ViewerTyped DEF FrameInv
<1>4. NothingShown \in [enc : Nat, key : BOOLEAN]
  BY DEF NothingShown
<1>5. shown' \in [Viewers -> [enc : Nat, key : BOOLEAN]]
  <2>1. shown' = [shown EXCEPT ![v] = NothingShown] \/ shown' = shown
    BY DEF Rebuild
  <2> QED
    BY <1>1, <1>4, <2>1
<1> QED
  BY <1>3, <1>5 DEF ViewersTyped

\* What becomes of a viewer that is offered a pair.
LEMMA OfferedTyped ==
  ASSUME Inv, NEW w \in ViewerState, NEW pair \in Pair, NEW sent \in BOOLEAN
  PROVE  Offered(w, pair, sent) \in ViewerState
<1>1. Wait(w) \in ViewerState
  BY ViewerTyped
<1>2. pair.primary.seq \in Nat /\ pair.primary.enc \in Nat
  BY DEF Pair, Half, Packet
<1>3. Larger(w.cutoff, pair.primary.seq) \in Nat
  BY <1>2, LargerType DEF ViewerState
<1>4. [w EXCEPT !.waiting = TRUE, !.cutoff = Larger(@, pair.primary.seq)]
        \in ViewerState
  BY <1>3 DEF ViewerState
<1>5. [w EXCEPT !.last = pair.primary.enc,
         !.waiting = IF CanStart(pair) THEN FALSE ELSE @] \in ViewerState
  BY <1>2 DEF ViewerState
<1> QED
  BY <1>1, <1>4, <1>5 DEF Offered

\* The viewers.
LEMMA ViewersStep ==
  ASSUME FrameInv, [Next]_vars
  PROVE  ViewersTyped'
<1>0. /\ viewer \in [Viewers -> ViewerState]
      /\ shown \in [Viewers -> [enc : Nat, key : BOOLEAN]]
      /\ Inv
  BY DEF FrameInv, PipelineTypeOK, ViewersTyped
<1>1. CASE UNCHANGED viewerVars
  BY <1>0, <1>1 DEF viewerVars, ViewersTyped
<1>2. ASSUME NEW v \in Viewers, Rebuild(v) PROVE ViewersTyped'
  BY <1>2, RebuildTyped
<1>3. CASE NewTransport \/ Renegotiate \/ ControlOffers
  <2>1. (\E v \in Viewers : Rebuild(v)) \/ UNCHANGED viewerVars
    BY <1>3 DEF NewTransport, Renegotiate, ControlOffers, FrameInv,
       PipelineTypeOK, ThreadsTyped, TickState, Control
  <2> QED
    BY <1>1, <1>2, <2>1
<1>4. CASE AnnounceAlpha \/ AnnounceWaiting \/ WithdrawAlpha \/ RefreshWaiting
  <2>1. shown' = shown
    BY <1>4 DEF AnnounceAlpha, AnnounceWaiting, WithdrawAlpha, RefreshWaiting
  <2>2. PICK v \in Viewers :
          \/ viewer' = [viewer EXCEPT ![v].alpha = TRUE,
                                      ![v].telling = "cutoff"]
          \/ viewer' = [viewer EXCEPT ![v].waiting = TRUE, ![v].telling = "no"]
          \/ viewer' = [viewer EXCEPT ![v].alpha = FALSE]
          \/ viewer' = [viewer EXCEPT ![v].waiting = TRUE,
                                      ![v].telling = "reserve"]
    BY <1>4 DEF AnnounceAlpha, AnnounceWaiting, WithdrawAlpha, RefreshWaiting
  <2>3. viewer[v] \in ViewerState
    BY <1>0
  <2>4. /\ [viewer[v] EXCEPT !.alpha = TRUE, !.telling = "cutoff"]
             \in ViewerState
        /\ [viewer[v] EXCEPT !.waiting = TRUE, !.telling = "no"]
             \in ViewerState
        /\ [viewer[v] EXCEPT !.alpha = FALSE] \in ViewerState
        /\ [viewer[v] EXCEPT !.waiting = TRUE, !.telling = "reserve"]
             \in ViewerState
    BY <2>3 DEF ViewerState, Telling
  <2>5. viewer' \in [Viewers -> ViewerState]
    BY <1>0, <2>2, <2>4
  <2> QED
    BY <1>0, <2>1, <2>5 DEF ViewersTyped
<1>5. CASE AnnounceCutoff \/ RefreshCutoff
  <2>1. shown' = shown
    BY <1>5 DEF AnnounceCutoff, RefreshCutoff
  <2>2. PICK v \in Viewers, t \in Telling :
          viewer' = [viewer EXCEPT ![v].cutoff = Cutoff(@), ![v].telling = t]
    BY <1>5 DEF AnnounceCutoff, RefreshCutoff, Telling
  <2>3. Cutoff(viewer[v].cutoff) \in Nat
    BY <1>0, CutoffIs DEF ViewerState
  <2>4. viewer' \in [Viewers -> ViewerState]
    BY ZenonT(40), <1>0, <2>2, <2>3 DEF ViewerState
  <2> QED
    BY <1>0, <2>1, <2>4 DEF ViewersTyped
<1>6. CASE SendPlain
  <2>1. shown' = shown
    BY <1>6 DEF SendPlain
  <2>2. PICK sent \in SUBSET tick.plain :
          viewer' = [v \in Viewers |-> IF v \in sent /\ tick.have.key
                       THEN [viewer[v] EXCEPT !.waiting = FALSE] ELSE viewer[v]]
    BY <1>6 DEF SendPlain
  <2>3. viewer' \in [Viewers -> ViewerState]
    BY <1>0, <2>2 DEF ViewerState
  <2> QED
    BY <1>0, <2>1, <2>3 DEF ViewersTyped
<1>7. CASE RejectPair
  <2>1. shown' = shown
    BY <1>7 DEF RejectPair
  <2>2. viewer' = [v \in Viewers |-> IF v \in AlphaViewers(Head(tick.todo))
                                     THEN Wait(viewer[v]) ELSE viewer[v]]
    BY <1>7 DEF RejectPair
  <2>3. viewer' \in [Viewers -> ViewerState]
    BY <1>0, <2>2, ViewerTyped
  <2> QED
    BY <1>0, <2>1, <2>3 DEF ViewersTyped
<1>8. CASE DispatchPair
  <2>1. Head(tick.todo) \in Pair
    <3>1. tick.todo \in Seq(OwnPair) /\ tick.todo # <<>>
      BY <1>8 DEF DispatchPair, FrameInv, PipelineTypeOK, ThreadsTyped,
         TickState
    <3> QED
      BY <3>1 DEF OwnPair
  <2> DEFINE pair == Head(tick.todo)
  <2>2. PICK sent \in SUBSET AlphaViewers(pair) :
          /\ viewer' = [v \in Viewers |->
               IF v \in AlphaViewers(pair)
               THEN Offered(viewer[v], pair, v \in sent) ELSE viewer[v]]
          /\ shown' = [v \in Viewers |->
               IF v \in sent /\ Delivered(viewer[v], pair)
               THEN [enc |-> pair.primary.enc, key |-> pair.primary.key]
               ELSE shown[v]]
    BY <1>8 DEF DispatchPair
  <2> HIDE DEF pair
  <2>3. ASSUME NEW v \in Viewers
        PROVE  Offered(viewer[v], pair, v \in sent) \in ViewerState
    <3>1. (v \in sent) \in BOOLEAN /\ viewer[v] \in ViewerState
      BY <1>0
    <3>2. pair \in Pair
      BY <2>1 DEF pair
    <3> QED
      BY <1>0, <3>1, <3>2, OfferedTyped
  <2>4. viewer' \in [Viewers -> ViewerState]
    BY <1>0, <2>2, <2>3
  <2>5. pair.primary.enc \in Nat /\ pair.primary.key \in BOOLEAN
    BY <2>1 DEF pair, Pair, Half, Packet
  <2>6. shown' \in [Viewers -> [enc : Nat, key : BOOLEAN]]
    BY <1>0, <2>2, <2>5
  <2> QED
    BY <2>4, <2>6 DEF ViewersTyped
<1>9. ASSUME Tick PROVE UNCHANGED viewerVars \/ Renegotiate \/ SendPlain
                         \/ RejectPair \/ DispatchPair
  BY <1>9 DEF Tick, BeginTick, TakeSlot, AdmitFrame, FrameWithoutPlane,
     EncodeReturns, EncodeUntimed, EncodeYieldsNothing, RecoverEncoder,
     FallBackToH264, Collect, Collected, ResolvePrimary, SubmitColour
<1>10. ASSUME AlphaThread \/ Capture \/ UNCHANGED vars
       PROVE  UNCHANGED viewerVars
  BY <1>10 DEF AlphaThread, TakeReconfigure, TakeJob, Reconfigure,
     DisableAlpha, EncodeAlpha, EncodeAlphaFails, PushAlpha, Capture,
     StartCapture, StopCapture, JoinEncode, JoinAlpha, ClearQueues,
     ShutEncoders, PeriodicKeyframe, vars
<1>11. ASSUME ControlThread PROVE UNCHANGED viewerVars \/ ControlOffers
  BY <1>11 DEF ControlThread, ControlReinit, ControlPrepare, ControlHandOver,
     ControlRejected, ControlBitrate, ControlRetire, ControlClear,
     ControlAlpha, ControlCommit, ControlFallback
<1> QED
  BY <1>1, <1>3, <1>4, <1>5, <1>6, <1>7, <1>8, <1>9, <1>10, <1>11
     DEF Next, ViewerStep

---------------------------------------------------------------------------
(* Both halves show one frame.                                             *)

LEMMA FrameInvInitially ==
  ASSUME Init
  PROVE  FrameInv
<1>1. PairerInit
  BY DEF Init
<1>2. Inv
  BY <1>1, InvInitially
<1>3. EncodersTyped
  <2>1. <<>> \in Seq(Colour)
    OBVIOUS
  <2>2. primary \in PrimaryEncoder
    BY <2>1 DEF Init, PrimaryEncoder
  <2>3. config \in Config
    BY DEF Init, Config, Codec
  <2>4. pendingKey = FALSE /\ alphaUp = FALSE
    BY DEF Init
  <2>5. generation = 1 /\ phase = "stopped"
    BY DEF Init
  <2>6. pendingKey \in BOOLEAN /\ alphaUp \in BOOLEAN
    BY <2>4
  <2>7. generation \in Nat \ {0} /\ phase \in Phase
    BY <2>5 DEF Phase
  <2> QED
    BY <2>2, <2>3, <2>6, <2>7 DEF EncodersTyped
<1>4. QueuesTyped
  <2>1. /\ ready = <<>> /\ primaryPackets = <<>> /\ alphaPackets = <<>>
        /\ pairs = <<>> /\ job = NoJob /\ reconfigure = FALSE
    BY <1>1 DEF Init, PairerInit
  <2>2. <<>> \in Seq(Own) /\ <<>> \in Seq(OwnPair)
    OBVIOUS
  <2> QED
    BY <2>1, <2>2 DEF QueuesTyped
<1>5. ThreadsTyped
  BY IdleTyped, PipelineAssumption DEF Init, ThreadsTyped, IdleTick, IdleWorker
<1>6. ViewersTyped
  BY DEF Init, ViewersTyped, ViewerState, Telling, NothingShown
<1>7. SlotsAdvance
  BY <1>1 DEF Init, SlotsAdvance, PairerInit, NoAdmission, NoTimestamp, IdleTick
<1> QED
  BY <1>2, <1>3, <1>4, <1>5, <1>6, <1>7 DEF FrameInv, PipelineTypeOK

LEMMA FrameInvPreserved ==
  ASSUME FrameInv, [Next]_vars
  PROVE  FrameInv'
<1>1. Inv'
  BY PairerStep, InvPreserved DEF FrameInv
<1>2. ThreadsTyped'
  BY WorkerStep, ControlStep, TickStep DEF ThreadsTyped
<1>3. SlotsAdvance'
  BY TickStep
<1> QED
  BY <1>1, <1>2, <1>3, EncodersStep, QueuesStep, ViewersStep
     DEF FrameInv, PipelineTypeOK

LEMMA FrameInductive == Spec => []FrameInv
<1>1. Init => FrameInv
  BY FrameInvInitially
<1>2. FrameInv /\ [Next]_vars => FrameInv'
  BY FrameInvPreserved
<1> QED
  BY <1>1, <1>2, PTL DEF Spec

\* The pipeline's variables keep their types, and everything that carries the
\* time of an output slot shows the frame of that slot.
THEOREM PipelineTyped == Spec => []PipelineTypeOK
<1>1. FrameInv => PipelineTypeOK
  BY DEF FrameInv
<1> QED
  BY <1>1, FrameInductive, PTL

\* The pipeline uses the pairer only as the pairer's own specification allows,
\* from the encode thread, the alpha thread and the control thread alike.
THEOREM PipelineUsesPairer == Spec => PairerSpec
<1>1. Init => PairerInit
  BY DEF Init
<1>2. FrameInv /\ [Next]_vars => [PairerNext]_pairerVars
  BY PairerStep
<1> QED
  BY <1>1, <1>2, FrameInductive, PTL DEF Spec, PairerSpec

\* Halves are paired by identity, at most once, on a clock that advances and
\* within the bounds, whatever the threads of the pipeline do.
THEOREM PipelinePairsExact == Spec => []PairsExact
<1>1. FrameInv => PairsExact
  BY DEF FrameInv, Inv
<1> QED
  BY <1>1, FrameInductive, PTL

\* Both halves of every pair show the same captured frame, for any delays and
\* losses of the encoders and any number of retired generations.
THEOREM OneFrameTheorem == Spec => []PairsShowOneFrame
<1>1. FrameInv => PairsShowOneFrame
  <2> SUFFICES ASSUME FrameInv, NEW i \in 1..Len(pairs)
               PROVE  pairs[i].primary.frame = pairs[i].alpha.frame
    BY DEF PairsShowOneFrame
  <2>1. pairs[i] \in OwnPair
    BY DEF FrameInv, PipelineTypeOK, QueuesTyped
  <2>2. pairs[i].primary.ts = pairs[i].alpha.ts
    BY DEF FrameInv, Inv, PairsExact, PairedOnce, ExactPair, SameIdentity,
       Identity
  <2> QED
    BY <2>1, <2>2 DEF OwnPair, Own
<1> QED
  BY <1>1, FrameInductive, PTL

---------------------------------------------------------------------------
(* Who may run beside whom.                                                *)

\* What remains of a slot when the encode thread turns to its pairs.
LEMMA ToPairsKeeps ==
  ASSUME tick \in TickState, NEW todo \in Seq(OwnPair)
  PROVE  /\ ToPairs(todo).todo = todo /\ ToPairs(todo).half = NoHalf
         /\ ToPairs(todo).plain = {}
         /\ \/ ToPairs(todo) = IdleTick
            \/ /\ ToPairs(todo).pc = "pairs" /\ todo # <<>>
               /\ ToPairs(todo).flow = tick.flow
               /\ ToPairs(todo).routed = tick.routed
<1>1. CASE todo = <<>>
  BY <1>1 DEF ToPairs, IdleTick
<1>2. CASE todo # <<>>
  BY <1>2 DEF ToPairs, TickState
<1> QED
  BY <1>1, <1>2

LEMMA PlainSentKeeps ==
  ASSUME tick \in TickState
  PROVE  /\ PlainSent.todo = tick.todo /\ PlainSent.half \in {tick.half, NoHalf}
         /\ PlainSent.plain = {}
         /\ \/ PlainSent = IdleTick
            \/ /\ PlainSent.pc \in {"pairs", "resolve"}
               /\ PlainSent.pc = "resolve" => tick.flow
               /\ PlainSent.flow = tick.flow /\ PlainSent.routed = tick.routed
<1>1. tick.todo \in Seq(OwnPair)
  BY DEF TickState
<1>2. CASE tick.flow
  BY <1>2 DEF PlainSent, TickState
<1>3. CASE ~tick.flow
  <2>1. PlainSent = ToPairs(tick.todo)
    BY <1>3 DEF PlainSent
  <2> HIDE DEF PlainSent
  <2> QED
    BY <1>1, <2>1, ToPairsKeeps
<1> QED
  BY <1>2, <1>3

\* Recovery and fallback of the colour encoder leave the alpha track alone.
LEMMA SlotKeepsAlpha ==
  ASSUME FrameInv, Tick
  PROVE  config'.alpha = config.alpha
<1>0. config \in Config
  BY DEF FrameInv, PipelineTypeOK, EncodersTyped
<1>1. CASE RecoverEncoder
  <2>1. config' \in {config, [config EXCEPT !.codec = "H264"]}
    BY <1>1 DEF RecoverEncoder
  <2> QED
    BY <1>0, <2>1 DEF Config
<1>2. CASE FallBackToH264
  <2>1. config' = [config EXCEPT !.codec = "H264"]
    BY <1>2 DEF FallBackToH264
  <2> QED
    BY <1>0, <2>1 DEF Config
<1>3. ASSUME ~RecoverEncoder, ~FallBackToH264 PROVE UNCHANGED config
  BY <1>3 DEF Tick, BeginTick, TakeSlot, AdmitFrame, FrameWithoutPlane,
     EncodeReturns, EncodeUntimed, EncodeYieldsNothing, Renegotiate, Collect,
     Collected, SendPlain, ResolvePrimary, SubmitColour, RejectPair,
     DispatchPair
<1> QED
  BY <1>1, <1>2, <1>3

\* The alpha track may be turned off, never on; while the encode thread is
\* inside a slot only it touches the configuration, and leaves alpha alone.
LEMMA AlphaStaysOff ==
  ASSUME FrameInv, Excluded, [Next]_vars
  PROVE  /\ config'.alpha => config.alpha
         /\ \/ config'.alpha = config.alpha
            \/ /\ tick.pc \in {"idle", "renegotiate"} /\ UNCHANGED tick
               /\ ControlCommit \/ ControlFallback
                  \/ DisableAlpha \/ StartCapture
<1>0. config \in Config /\ control \in Control
  BY DEF FrameInv, PipelineTypeOK, EncodersTyped, ThreadsTyped
<1>1. CASE UNCHANGED config
  BY <1>1
<1>2. CASE Tick
  BY <1>2, SlotKeepsAlpha
<1>3. CASE DisableAlpha
  BY <1>0, <1>3 DEF DisableAlpha, SendFree, Config
<1>4. CASE StartCapture
  <2>1. PICK started \in {config} \cup
               (IF config = [codec |-> "VP9", alpha |-> FALSE]
                THEN {[codec |-> "H264", alpha |-> FALSE]} ELSE {}),
             ok \in BOOLEAN :
          config' = [started EXCEPT !.alpha = @ /\ ok]
    BY <1>4 DEF StartCapture
  <2>2. started \in Config /\ (started.alpha => config.alpha)
    <3>1. CASE started = config
      BY <1>0, <3>1
    <3>2. CASE started = [codec |-> "H264", alpha |-> FALSE]
      BY <3>2 DEF Config, Codec
    <3> QED
      BY <2>1, <3>1, <3>2
  <2>3. config'.alpha => config.alpha
    BY <2>1, <2>2 DEF Config
  <2> QED
    BY <1>4, <2>3 DEF StartCapture, SendFree, threadVars
<1>5. CASE ControlCommit
  BY <1>5 DEF ControlCommit, Excluded
<1>6. CASE ControlFallback
  <2>1. config' = [codec |-> "H264", alpha |-> FALSE] \/ UNCHANGED config
    BY <1>6 DEF ControlFallback
  <2>2. tick.pc \in {"idle", "renegotiate"} /\ UNCHANGED tick
    BY <1>6 DEF ControlFallback, Excluded
  <2> QED
    BY <1>6, <2>1, <2>2
<1>7. ASSUME AlphaThread \/ ViewerStep PROVE UNCHANGED config \/ DisableAlpha
  BY <1>7 DEF AlphaThread, TakeReconfigure, TakeJob, Reconfigure,
     EncodeAlpha, EncodeAlphaFails, PushAlpha, ViewerStep, NewTransport,
     AnnounceAlpha, AnnounceCutoff, AnnounceWaiting, WithdrawAlpha,
     RefreshWaiting, RefreshCutoff, messageRest
<1>8. ASSUME ControlThread
      PROVE  UNCHANGED config \/ ControlCommit \/ ControlFallback
  BY <1>8 DEF ControlThread, ControlReinit, ControlPrepare, ControlHandOver,
     ControlRejected, ControlBitrate, ControlRetire, ControlClear,
     ControlAlpha, ControlOffers
<1>9. ASSUME Capture \/ UNCHANGED vars
      PROVE  UNCHANGED config \/ StartCapture
  BY <1>9 DEF Capture, StopCapture, JoinEncode, JoinAlpha, ClearQueues,
     ShutEncoders, PeriodicKeyframe, vars
<1> QED
  BY <1>1, <1>2, <1>3, <1>4, <1>5, <1>6, <1>7, <1>8, <1>9 DEF Next

\* A slot begins with the control thread out of the way, and runs without it.
LEMMA SlotBegins ==
  ASSUME FrameInv, Tick
  PROVE  /\ UNCHANGED control
         /\ \/ BeginTick
            \/ tick.pc \notin {"idle", "renegotiate"}
            \/ Renegotiate
BY DEF Tick, BeginTick, TakeSlot, AdmitFrame, FrameWithoutPlane, EncodeReturns,
   EncodeUntimed, EncodeYieldsNothing, RecoverEncoder, FallBackToH264,
   Renegotiate, Collect, Collected, SendPlain, ResolvePrimary, SubmitColour,
   RejectPair, DispatchPair

LEMMA ExcludedStep ==
  ASSUME FrameInv, Excluded, [Next]_vars
  PROVE  Excluded'
<1>0. config \in Config /\ control \in Control /\ tick \in TickState
  BY DEF FrameInv, PipelineTypeOK, EncodersTyped, ThreadsTyped
<1>1. CASE Tick
  <2>1. UNCHANGED control /\ config'.alpha = config.alpha
    BY SlotBegins, SlotKeepsAlpha, <1>1
  <2>2. tick'.pc \notin {"idle", "renegotiate"} =>
          control.pc \in {"idle", "preparing", "offers"}
    <3>1. CASE BeginTick
      BY <3>1 DEF BeginTick, TakeSlot, SendFree
    <3>2. CASE tick.pc \notin {"idle", "renegotiate"}
      BY <3>2 DEF Excluded
    <3>3. CASE Renegotiate
      BY <1>0, <3>3 DEF Renegotiate, IdleTick, TickState
    <3> QED
      BY <1>1, <3>1, <3>2, <3>3, SlotBegins
  <2> QED
    BY <2>1, <2>2 DEF Excluded
<1>2. CASE ~Tick
  <2>1. UNCHANGED tick
    BY <1>2, TickAlone
  <2>2. CASE UNCHANGED <<control, config>>
    BY <2>1, <2>2 DEF Excluded
  <2>3. CASE ControlReinit \/ ControlPrepare \/ ControlRejected
             \/ ControlBitrate
    <3>1. /\ tick.pc \in {"idle", "renegotiate"} /\ UNCHANGED config
          /\ control'.config = config \/ control' = control
          /\ control'.pc = "preparing" => ~control'.config.alpha
      <4>1. CASE ControlReinit
        BY <4>1 DEF ControlReinit, Controllable, SendFree, IdleControl, Excluded
      <4>2. CASE ControlPrepare
        BY <4>2 DEF ControlPrepare, Controllable, SendFree, IdleControl
      <4>3. CASE ControlRejected
        BY <4>3 DEF ControlRejected, SendFree, IdleControl
      <4>4. CASE ControlBitrate
        BY <4>4 DEF ControlBitrate, Controllable, SendFree, IdleControl,
           Excluded
      <4> QED
        BY <2>3, <4>1, <4>2, <4>3, <4>4
    <3> QED
      BY <2>1, <3>1 DEF Excluded
  <2>4. CASE ControlHandOver \/ ControlRetire \/ ControlClear
    <3>1. /\ control.pc \in {"preparing", "retire", "retireAgain", "clear"}
          /\ tick.pc \in {"idle", "renegotiate"} /\ UNCHANGED config
      BY <2>4 DEF ControlHandOver, ControlRetire, ControlClear, Excluded
    <3>2. \/ control' = IdleControl
          \/ /\ control'.config = control.config
             /\ control'.pc \in {"retire", "clear", "cleared", "alpha"}
      BY <2>4, <1>0 DEF ControlHandOver, ControlRetire, ControlClear, ControlTo,
         Control
    <3> QED
      BY <2>1, <3>1, <3>2 DEF Excluded, IdleControl
  <2>5. CASE ControlAlpha
    <3>1. PICK ok \in BOOLEAN :
            control' = [control EXCEPT !.pc = "retireAgain",
              !.config.alpha = @ /\ (ok \/ control.kind = "fallback")]
      BY <2>5 DEF ControlAlpha
    <3>2. /\ control'.pc = "retireAgain"
          /\ control'.config.alpha => control.config.alpha
      BY <1>0, <3>1 DEF Control, Config
    <3>3. control.pc = "alpha" /\ UNCHANGED config
      BY <2>5 DEF ControlAlpha
    <3> QED
      BY <2>1, <3>2, <3>3 DEF Excluded
  <2>6. CASE ControlCommit \/ ControlFallback \/ ControlOffers
    <3>1. control'.pc \in {"idle", "offers"}
      <4>1. CASE ControlCommit
        BY <4>1 DEF ControlCommit, IdleControl
      <4>2. CASE ControlFallback
        <5>1. \/ control' = [control EXCEPT !.pc = "offers", !.offer = Viewers]
              \/ control' = IdleControl
          BY <4>2 DEF ControlFallback
        <5>2. [control EXCEPT !.pc = "offers", !.offer = Viewers].pc = "offers"
          BY <1>0 DEF Control
        <5>3. IdleControl.pc = "idle"
          BY DEF IdleControl
        <5> QED
          BY <5>1, <5>2, <5>3
      <4>3. CASE ControlOffers
        <5>1. \/ \E v \in control.offer :
                   control' = [control EXCEPT !.offer = @ \ {v}]
              \/ control' = IdleControl
          BY <4>3 DEF ControlOffers
        <5> QED
          BY <1>0, <4>3, <5>1 DEF IdleControl, Control, ControlOffers
      <4> QED
        BY <2>6, <4>1, <4>2, <4>3
    <3> QED
      BY <2>1, <3>1 DEF Excluded
  <2>7. CASE DisableAlpha \/ StartCapture
    <3>1. UNCHANGED control /\ control.pc \in {"idle", "preparing", "offers"}
      BY <2>7 DEF DisableAlpha, StartCapture, SendFree, threadVars
    <3> QED
      BY <2>1, <3>1 DEF Excluded
  <2>8. ASSUME ControlThread
        PROVE  \/ ControlReinit \/ ControlPrepare \/ ControlRejected
               \/ ControlBitrate \/ ControlHandOver \/ ControlRetire
               \/ ControlClear \/ ControlAlpha \/ ControlCommit
               \/ ControlFallback \/ ControlOffers
    BY <2>8 DEF ControlThread
  <2>9. ASSUME ~ControlThread, ~DisableAlpha, ~StartCapture
        PROVE  UNCHANGED <<control, config>>
    BY <1>2, <2>9 DEF Next, AlphaThread, TakeReconfigure, TakeJob, Reconfigure,
       EncodeAlpha, EncodeAlphaFails, PushAlpha, ViewerStep, NewTransport,
       AnnounceAlpha, AnnounceCutoff, AnnounceWaiting, WithdrawAlpha,
       RefreshWaiting, RefreshCutoff, messageRest, Capture, StopCapture,
       JoinEncode, JoinAlpha, ClearQueues, ShutEncoders, PeriodicKeyframe,
       threadVars, vars
  <2> QED
    BY <2>2, <2>3, <2>4, <2>5, <2>6, <2>7, <2>8, <2>9
<1> QED
  BY <1>1, <1>2

LEMMA ShapeStep ==
  ASSUME FrameInv, Excluded, Shape, [Next]_vars
  PROVE  Shape'
<1>0. /\ tick \in TickState /\ config \in Config
      /\ tick.todo \in Seq(OwnPair)
  BY DEF FrameInv, PipelineTypeOK, EncodersTyped, ThreadsTyped, TickState
<1>1. CASE ~Tick
  <2>1. UNCHANGED tick
    BY <1>1, TickAlone
  <2>2. CASE config'.alpha = config.alpha
    BY <2>1, <2>2 DEF Shape
  <2>3. CASE config'.alpha # config.alpha
    <3>1. tick.pc \in {"idle", "renegotiate"}
      BY <2>3, AlphaStaysOff
    <3> QED
      BY <2>1, <3>1 DEF Shape
  <2> QED
    BY <2>2, <2>3
<1>2. ASSUME Tick PROVE config'.alpha = config.alpha
  BY <1>2, SlotKeepsAlpha
<1>3. ASSUME Tick, tick' = IdleTick PROVE Shape'
  BY <1>3 DEF IdleTick, Shape
<1>4. ASSUME Tick, tick'.pc \notin {"idle", "renegotiate"},
             tick'.flow = tick.flow, tick'.routed = tick.routed,
             tick'.plain \subseteq tick.routed,
             tick'.pc # "plain" => tick'.plain = {},
             tick'.todo # <<>> => tick.flow,
             tick'.pc \in {"admit", "resolve", "submit"} => tick.flow,
             tick.pc \notin {"idle", "renegotiate"}
      PROVE  Shape'
  BY <1>2, <1>4 DEF Shape
<1>5. CASE BeginTick
  <2>1. PICK routed \in SUBSET Viewers :
          LET flow == routed # {} /\ config.alpha IN
          tick' = [IdleTick EXCEPT !.pc = IF flow THEN "admit" ELSE "encode",
                     !.key = pendingKey, !.flow = flow, !.routed = routed]
    BY <1>5 DEF BeginTick, TakeSlot
  <2>2. /\ tick'.flow = (routed # {} /\ config.alpha)
        /\ tick'.pc = IF routed # {} /\ config.alpha THEN "admit" ELSE "encode"
        /\ tick'.routed = routed /\ tick'.plain = {} /\ tick'.todo = <<>>
    BY <2>1 DEF IdleTick
  <2>3. UNCHANGED config
    BY <1>5 DEF BeginTick, TakeSlot
  <2> QED
    BY <2>2, <2>3 DEF Shape
<1>6. CASE AdmitFrame
  <2>1. /\ tick' = [tick EXCEPT !.pc = "encode",
                                !.adm = AdmissionOf(slot, generation)]
        /\ tick.pc = "admit" /\ Tick
    BY <1>6 DEF AdmitFrame, Tick
  <2> QED
    BY <1>0, <1>4, <2>1 DEF TickState, Shape
<1>7. CASE FrameWithoutPlane
  <2>1. tick' = [tick EXCEPT !.pc = "encode"] /\ tick.pc = "admit" /\ Tick
    BY <1>7 DEF FrameWithoutPlane, Goto, Tick
  <2> QED
    BY <1>0, <1>4, <2>1 DEF TickState, Shape
<1>8. CASE EncodeReturns \/ EncodeUntimed \/ EncodeYieldsNothing
           \/ RecoverEncoder
  <2>1. Tick /\ tick.pc = "encode"
    BY <1>8 DEF Tick, EncodeReturns, EncodeUntimed, EncodeYieldsNothing,
       RecoverEncoder
  <2>2. PICK packet : AfterEncode(packet)
    BY <1>8 DEF EncodeReturns, EncodeUntimed, EncodeYieldsNothing,
       RecoverEncoder
  <2>3. tick' = [tick EXCEPT !.pc = "collect", !.have = packet,
                             !.adm = NoAdmission, !.key = FALSE]
    BY <2>2 DEF AfterEncode
  <2> QED
    BY <1>0, <1>4, <2>1, <2>3 DEF TickState, Shape
<1>9. CASE FallBackToH264
  <2>1. tick' = [IdleTick EXCEPT !.pc = "renegotiate", !.routed = Viewers]
    BY <1>9 DEF FallBackToH264
  <2> QED
    BY <2>1 DEF IdleTick, Shape
<1>10. CASE Renegotiate
  <2>1. \/ tick' = IdleTick
        \/ \E v \in tick.routed : tick' = [tick EXCEPT !.routed = @ \ {v}]
    BY <1>10 DEF Renegotiate
  <2>2. Tick /\ tick.pc = "renegotiate"
    BY <1>10 DEF Tick, Renegotiate
  <2>3. PICK v : tick' = [tick EXCEPT !.routed = @ \ {v}] \/ tick' = IdleTick
    BY <2>1
  <2>4. CASE tick' = [tick EXCEPT !.routed = @ \ {v}]
    <3>1. /\ tick'.pc = "renegotiate" /\ tick'.flow = tick.flow
          /\ tick'.todo = tick.todo /\ tick'.plain = tick.plain
      BY <1>0, <2>2, <2>4 DEF TickState
    <3> QED
      BY <1>2, <2>2, <3>1 DEF Shape
  <2> QED
    BY <1>3, <2>2, <2>3, <2>4
<1>11. CASE Collect
  <2>1. PICK todo : tick' = [tick EXCEPT !.todo = todo]
    BY <1>11 DEF Collect
  <2>2. Tick /\ tick.pc = "collect" /\ tick.flow
    BY <1>11 DEF Tick, Collect
  <2> QED
    BY <1>0, <1>4, <2>1, <2>2 DEF Shape, TickState
<1>12. CASE Collected
  <2>1. Tick /\ tick.pc = "collect"
    BY <1>12 DEF Tick, Collected
  <2>2. PICK plain \in SUBSET tick.routed :
          \/ tick' = ToPairs(tick.todo) \/ tick' = PlainSent
          \/ tick' = [tick EXCEPT !.pc = "plain", !.plain = plain]
    <3> DEFINE plain == {v \in tick.routed :
                             /\ ~(tick.flow /\ viewer[v].alpha)
                             /\ viewer[v].waiting => tick.have.key}
    <3>1. \/ tick' = ToPairs(tick.todo) \/ tick' = PlainSent
          \/ tick' = [tick EXCEPT !.pc = "plain", !.plain = plain]
      BY <1>12 DEF Collected
    <3> QED
      BY <3>1
  <2>3. CASE tick' = [tick EXCEPT !.pc = "plain", !.plain = plain]
    BY <1>0, <1>4, <2>1, <2>2, <2>3 DEF Shape, TickState
  <2>4. CASE tick' = ToPairs(tick.todo)
    BY <1>0, <1>3, <1>4, <2>1, <2>4, ToPairsKeeps DEF Shape
  <2>5. CASE tick' = PlainSent
    BY <1>0, <1>3, <1>4, <2>1, <2>5, PlainSentKeeps DEF Shape
  <2> QED
    BY <2>2, <2>3, <2>4, <2>5
<1>13. CASE SendPlain
  <2>1. Tick /\ tick.pc = "plain" /\ tick' = PlainSent
    BY <1>13 DEF Tick, SendPlain
  <2> QED
    BY <1>0, <1>3, <1>4, <2>1, PlainSentKeeps DEF Shape
<1>14. CASE ResolvePrimary
  <2>1. Tick /\ tick.pc = "resolve"
    BY <1>14 DEF Tick, ResolvePrimary
  <2>2. PICK half : \/ tick' = ToPairs(tick.todo)
                    \/ tick' = [tick EXCEPT !.pc = "submit",
                                  !.have = NoPacket, !.half = half]
    BY <1>14 DEF ResolvePrimary
  <2>3. CASE tick' = ToPairs(tick.todo)
    BY <1>0, <1>3, <1>4, <2>1, <2>3, ToPairsKeeps DEF Shape
  <2>4. CASE tick' = [tick EXCEPT !.pc = "submit", !.have = NoPacket,
                        !.half = half]
    BY <1>0, <1>4, <2>1, <2>4 DEF Shape, TickState
  <2> QED
    BY <2>2, <2>3, <2>4
<1>15. CASE SubmitColour \/ RejectPair \/ DispatchPair
  <2>1. Tick /\ tick.pc \in {"submit", "pairs"} /\ tick.flow
    BY <1>15 DEF Tick, SubmitColour, RejectPair, DispatchPair, Shape, FrameInv,
       PipelineTypeOK, ThreadsTyped
  <2>2. PICK todo \in Seq(OwnPair) : tick' = ToPairs(todo)
    <3>1. CASE SubmitColour
      BY <1>0, <3>1, ExtendedTyped DEF SubmitColour
    <3>2. CASE RejectPair \/ DispatchPair
      <4>1. tick.todo # <<>>
        BY <3>2 DEF RejectPair, DispatchPair, FrameInv, PipelineTypeOK,
           ThreadsTyped
      <4>2. Tail(tick.todo) \in Seq(OwnPair)
        BY <1>0, <4>1
      <4> QED
        BY <3>2, <4>2 DEF RejectPair, DispatchPair
    <3> QED
      BY <1>15, <3>1, <3>2
  <2> QED
    BY <1>0, <1>3, <1>4, <2>1, <2>2, ToPairsKeeps DEF Shape
<1> QED
  BY <1>1, <1>5, <1>6, <1>7, <1>8, <1>9, <1>10, <1>11, <1>12, <1>13, <1>14,
     <1>15 DEF Tick

---------------------------------------------------------------------------
(* The colour halves on their way, and the counters that number them.      *)

\* A restarted encoder goes on counting its packets.
LEMMA RestartKeepsOut ==
  ASSUME NEW p
  PROVE  Fresh(p).out = p.out /\ Down(p).out = p.out
BY DEF Fresh, Down

\* The colour packets are numbered when they are collected.
LEMMA OutStep ==
  ASSUME FrameInv, [Next]_vars
  PROVE  /\ primary'.out \in Nat /\ primary.out \in Nat
         /\ \/ primary'.out = primary.out
            \/ Collected /\ primary'.out = primary.out + 1
<1>0. primary \in PrimaryEncoder
  BY DEF FrameInv, PipelineTypeOK, EncodersTyped
<1>1. CASE UNCHANGED primary
  BY <1>0, <1>1 DEF PrimaryEncoder
<1>2. ASSUME Tick
      PROVE  \/ primary'.out = primary.out
             \/ Collected /\ primary'.out = primary.out + 1
  <2>1. CASE EncodeReturns \/ EncodeUntimed \/ EncodeYieldsNothing
    <3>1. PICK owes, inside : \/ UNCHANGED primary
                              \/ primary' = [primary EXCEPT !.owes = owes,
                                               !.inside = inside]
      <4>1. CASE EncodeReturns
        BY <4>1 DEF EncodeReturns
      <4>2. CASE EncodeUntimed
        BY <4>2 DEF EncodeUntimed
      <4>3. CASE EncodeYieldsNothing
        BY <4>3 DEF EncodeYieldsNothing
      <4> QED
        BY <2>1, <4>1, <4>2, <4>3
    <3> QED
      BY <1>0, <3>1 DEF PrimaryEncoder
  <2>2. CASE RecoverEncoder \/ FallBackToH264
    <3>1. primary' \in {Fresh(primary), Down(primary)}
      BY <2>2 DEF RecoverEncoder, FallBackToH264
    <3> QED
      BY <3>1, RestartKeepsOut
  <2>3. CASE Collected
    <3>1. UNCHANGED primary \/ primary' = [primary EXCEPT !.out = @ + 1]
      BY <2>3 DEF Collected
    <3> QED
      BY <1>0, <2>3, <3>1 DEF PrimaryEncoder
  <2>4. CASE RejectPair
    <3>1. UNCHANGED primary \/ primary' = [primary EXCEPT !.owes = primary.up]
      BY <2>4 DEF RejectPair
    <3> QED
      BY <1>0, <3>1 DEF PrimaryEncoder
  <2>5. ASSUME ~EncodeReturns, ~EncodeUntimed, ~EncodeYieldsNothing,
               ~RecoverEncoder, ~FallBackToH264, ~Collected, ~RejectPair
        PROVE  UNCHANGED primary
    BY <1>2, <2>5 DEF Tick, BeginTick, TakeSlot, AdmitFrame, FrameWithoutPlane,
       Renegotiate, Collect, SendPlain, ResolvePrimary, SubmitColour,
       DispatchPair, encoderVars
  <2> QED
    BY <2>1, <2>2, <2>3, <2>4, <2>5
<1>3. ASSUME ControlThread PROVE primary'.out = primary.out
  <2>1. CASE ControlReinit \/ ControlRejected \/ ControlFallback
    <3>1. primary' \in {primary, Fresh(primary), Down(primary)}
      BY <2>1 DEF ControlReinit, ControlRejected, ControlFallback
    <3> QED
      BY <3>1, RestartKeepsOut
  <2>2. CASE ControlPrepare \/ ControlHandOver
    <3>1. PICK b : \/ primary' = [primary EXCEPT !.steady = b]
                   \/ primary' = Fresh(primary)
      BY <2>2 DEF ControlPrepare, ControlHandOver
    <3> QED
      BY <1>0, <3>1 DEF PrimaryEncoder, Fresh
  <2>3. CASE ControlBitrate \/ ControlRetire \/ ControlClear \/ ControlAlpha
             \/ ControlCommit \/ ControlOffers
    BY <2>3 DEF ControlBitrate, ControlRetire, ControlClear, ControlAlpha,
       ControlCommit, ControlOffers, encoderVars
  <2> QED
    BY <1>3, <2>1, <2>2, <2>3 DEF ControlThread
<1>4. ASSUME Capture \/ UNCHANGED vars PROVE primary'.out = primary.out
  <2>1. primary' \in {primary, Fresh(primary), Down(primary)}
    BY <1>4 DEF Capture, StartCapture, StopCapture, JoinEncode, JoinAlpha,
       ClearQueues, ShutEncoders, PeriodicKeyframe, encoderVars, vars
  <2> QED
    BY <2>1, RestartKeepsOut
<1>5. ASSUME AlphaThread \/ ViewerStep PROVE UNCHANGED primary
  BY <1>5 DEF AlphaThread, TakeReconfigure, TakeJob, Reconfigure, DisableAlpha,
     EncodeAlpha, EncodeAlphaFails, PushAlpha, ViewerStep, NewTransport,
     AnnounceAlpha, AnnounceCutoff, AnnounceWaiting, WithdrawAlpha,
     RefreshWaiting, RefreshCutoff, messageRest, encoderVars
<1> QED
  BY <1>0, <1>1, <1>2, <1>3, <1>4, <1>5 DEF Next, PrimaryEncoder

\* Except when a frame is admitted the tracker only loses admissions.
LEMMA EntriesStep ==
  ASSUME FrameInv, [Next]_vars, ~AdmitFrame
  PROVE  \A j \in 1..Len(entries') :
           \E k \in 1..Len(entries) : entries'[j].adm = entries[k].adm
<1>1. CASE UNCHANGED entries
  BY <1>1
<1>2. CASE entries' = <<>>
  BY <1>2
<1>3. CASE ResolvePrimary
  <2>1. tick.have.ts \in Timestamp
    BY <1>3 DEF ResolvePrimary, FrameInv, PipelineTypeOK, ThreadsTyped, Colour
  <2> QED
    BY <1>3, <2>1, ResolveKeepsAdmissions DEF ResolvePrimary, FrameInv
<1>4. CASE EncodeAlpha
  <2>1. worker.job.adm.ts \in Timestamp
    BY <1>4 DEF EncodeAlpha, FrameInv, PipelineTypeOK, ThreadsTyped, Job,
       Admission
  <2> QED
    BY <1>4, <2>1, ResolveKeepsAdmissions DEF EncodeAlpha, FrameInv
<1>5. ASSUME Tick, ~ResolvePrimary PROVE UNCHANGED entries
  BY <1>5 DEF Tick, BeginTick, TakeSlot, FrameWithoutPlane, EncodeReturns,
     EncodeUntimed, EncodeYieldsNothing, RecoverEncoder, FallBackToH264,
     Renegotiate, Collect, Collected, SendPlain, SubmitColour, RejectPair,
     DispatchPair, pairerVars, trackerVars, SubmitPrimary, SubmitAlpha
<1>6. ASSUME AlphaThread \/ ViewerStep, ~EncodeAlpha PROVE UNCHANGED entries
  BY <1>6 DEF AlphaThread, TakeReconfigure, TakeJob, Reconfigure, DisableAlpha,
     EncodeAlphaFails, PushAlpha, ViewerStep,
     NewTransport, AnnounceAlpha, AnnounceCutoff, AnnounceWaiting,
     WithdrawAlpha, RefreshWaiting, RefreshCutoff, messageRest, pairerVars,
     trackerVars
<1>7. ASSUME ControlThread PROVE UNCHANGED entries \/ entries' = <<>>
  BY <1>7 DEF ControlThread, ControlReinit, ControlPrepare, ControlHandOver,
     ControlRejected, ControlBitrate, ControlRetire, ControlClear,
     ControlAlpha, ControlCommit, ControlFallback, ControlOffers,
     RetireGeneration, ClearPending, pairerVars, trackerVars
<1>8. ASSUME Capture \/ UNCHANGED vars
      PROVE  UNCHANGED entries \/ entries' = <<>>
  BY <1>8 DEF Capture, StartCapture, StopCapture, JoinEncode, JoinAlpha,
     ClearQueues, ShutEncoders, PeriodicKeyframe, RetireGeneration,
     ClearPending, pairerVars, trackerVars, vars
<1> QED
  BY <1>1, <1>2, <1>3, <1>4, <1>5, <1>6, <1>7, <1>8 DEF Next

\* A set of halves that holds every colour half on its way keeps doing so, if
\* it holds the one that the encode thread is about to make.
LEMMA CarriedStep ==
  ASSUME FrameInv, [Next]_vars, NEW S \in SUBSET Own, Carried(S),
         ResolvePrimary =>
           HalfOf(tick.have, "primary", primary.out) \in S \cup {NoHalf}
  PROVE  /\ primaryPackets' \in Seq(S)
         /\ tick'.half \in S \cup {NoHalf}
         /\ \A i \in 1..Len(tick'.todo) : tick'.todo[i].primary \in S
<1>0. /\ tick \in TickState /\ tick.todo \in Seq(OwnPair) /\ Inv
      /\ primaryPackets \in Seq(Own) /\ alphaPackets \in Seq(Own)
      /\ ready \in Seq(Own) /\ pairs \in Seq(OwnPair)
      /\ Own \in SUBSET Half /\ S \in SUBSET Half
  BY DEF FrameInv, PipelineTypeOK, ThreadsTyped, QueuesTyped, TickState, Own
<1>1. /\ primaryPackets \in Seq(S) /\ tick.half \in S \cup {NoHalf}
      /\ \A i \in 1..Len(tick.todo) : tick.todo[i].primary \in S
  BY DEF Carried
<1> DEFINE Clean(todo) == \A i \in 1..Len(todo) : todo[i].primary \in S
           Kept == /\ primaryPackets' \in Seq(S)
                   /\ tick'.half \in S \cup {NoHalf}
                   /\ Clean(tick'.todo)
<1>2. ASSUME NEW q \in OwnPair, q.primary \in S,
             NEW todo \in Seq(OwnPair), Clean(todo)
      PROVE  Clean(Append(todo, q))
  BY <1>2
<1>3. ASSUME NEW todo \in Seq(OwnPair), Clean(todo),
             \/ pairs' = pairs
             \/ \E q \in Pair : /\ q.primary \in S /\ q.alpha \in Own
                                /\ pairs' = Append(pairs, q)
      PROVE  Clean(Extended(todo))
  <2>1. CASE pairs' = pairs
    BY <1>3, <2>1 DEF Extended
  <2>2. ASSUME NEW q \in Pair, q.primary \in S, q.alpha \in Own,
               pairs' = Append(pairs, q), pairs' # pairs
        PROVE  Clean(Extended(todo))
    <3>1. pairs'[Len(pairs')] = q
      BY <1>0, <2>2
    <3>2. Extended(todo) = Append(todo, q)
      BY <2>2, <3>1 DEF Extended
    <3>3. q \in OwnPair
      BY <2>2 DEF OwnPair
    <3> QED
      BY <1>2, <1>3, <2>2, <3>2, <3>3
  <2> QED
    BY <1>3, <2>1, <2>2
<1> SUFFICES Kept
  OBVIOUS
<1> HIDE DEF Clean
<1>4. Clean(<<>>)
  BY DEF Clean
<1>5. Clean(tick.todo)
  BY <1>1 DEF Clean
<1>6. ASSUME UNCHANGED primaryPackets, tick'.half \in {tick.half, NoHalf},
             tick'.todo \in {tick.todo, <<>>}
      PROVE  Kept
  BY <1>1, <1>4, <1>5, <1>6
<1>7. ASSUME ~Tick PROVE Kept
  <2>1. UNCHANGED tick
    BY <1>7, TickAlone
  <2>2. UNCHANGED primaryPackets \/ primaryPackets' = <<>>
    <3>1. ASSUME AlphaThread \/ ViewerStep PROVE UNCHANGED primaryPackets
      BY <3>1 DEF AlphaThread, TakeReconfigure, TakeJob, Reconfigure,
         DisableAlpha, EncodeAlpha, EncodeAlphaFails, PushAlpha, ViewerStep,
         NewTransport, AnnounceAlpha, AnnounceCutoff, AnnounceWaiting,
         WithdrawAlpha, RefreshWaiting, RefreshCutoff, messageRest, pairerVars,
         matchVars
    <3>2. ASSUME ControlThread
          PROVE  UNCHANGED primaryPackets \/ primaryPackets' = <<>>
      BY <3>2 DEF ControlThread, ControlReinit, ControlPrepare,
         ControlHandOver, ControlRejected, ControlBitrate, ControlRetire,
         ControlClear, ControlAlpha, ControlCommit, ControlFallback,
         ControlOffers, ClearPairs, ClearPairer, pairerVars, matchVars
    <3>3. ASSUME Capture \/ UNCHANGED vars
          PROVE  UNCHANGED primaryPackets \/ primaryPackets' = <<>>
      BY <3>3 DEF Capture, StartCapture, StopCapture, JoinEncode, JoinAlpha,
         ClearQueues, ShutEncoders, PeriodicKeyframe, ClearPairs, ClearPairer,
         pairerVars, matchVars, vars
    <3> QED
      BY <1>7, <3>1, <3>2, <3>3 DEF Next
  <2>3. <<>> \in Seq(S)
    OBVIOUS
  <2> QED
    BY <1>1, <1>5, <2>1, <2>2, <2>3
<1>8. CASE BeginTick \/ FallBackToH264
  <2>1. tick'.half = NoHalf /\ tick'.todo = <<>>
    BY <1>8 DEF BeginTick, TakeSlot, FallBackToH264, IdleTick
  <2>2. UNCHANGED primaryPackets
    BY <1>8 DEF BeginTick, TakeSlot, FallBackToH264, pairerVars, matchVars
  <2> QED
    BY <1>6, <2>1, <2>2
<1>9. CASE AdmitFrame \/ FrameWithoutPlane \/ EncodeReturns \/ EncodeUntimed
           \/ EncodeYieldsNothing \/ RecoverEncoder
  <2>1. UNCHANGED primaryPackets
    BY <1>9 DEF AdmitFrame, Admit, FrameWithoutPlane, EncodeReturns,
       EncodeUntimed, EncodeYieldsNothing, RecoverEncoder, pairerVars, matchVars
  <2>2. tick'.half = tick.half /\ tick'.todo = tick.todo
    <3>1. PICK pc, have, adm, key :
            tick' = [tick EXCEPT !.pc = pc, !.have = have, !.adm = adm,
                                 !.key = key]
            \/ tick' = [tick EXCEPT !.pc = pc, !.adm = adm]
            \/ tick' = [tick EXCEPT !.pc = pc]
      <4>1. CASE AdmitFrame
        BY <4>1 DEF AdmitFrame
      <4>2. CASE FrameWithoutPlane
        BY <4>2 DEF FrameWithoutPlane, Goto
      <4>3. CASE EncodeReturns \/ EncodeUntimed \/ EncodeYieldsNothing
                 \/ RecoverEncoder
        <5>1. PICK packet : AfterEncode(packet)
          BY <4>3 DEF EncodeReturns, EncodeUntimed, EncodeYieldsNothing,
             RecoverEncoder
        <5> QED
          BY <5>1 DEF AfterEncode
      <4> QED
        BY <1>9, <4>1, <4>2, <4>3
    <3> QED
      BY <1>0, <3>1 DEF TickState
  <2> QED
    BY <1>6, <2>1, <2>2
<1>10. CASE Renegotiate
  <2>1. PICK v : tick' = IdleTick \/ tick' = [tick EXCEPT !.routed = @ \ {v}]
    BY <1>10 DEF Renegotiate
  <2>2. tick'.half \in {tick.half, NoHalf} /\ tick'.todo \in {tick.todo, <<>>}
    BY <1>0, <2>1 DEF IdleTick, TickState
  <2>3. UNCHANGED primaryPackets
    BY <1>10 DEF Renegotiate, pairerVars, matchVars
  <2> QED
    BY <1>6, <2>2, <2>3
<1>11. CASE Collect
  <2>1. tick' = [tick EXCEPT !.todo = Extended(tick.todo)]
    BY <1>11 DEF Collect
  <2>2. tick'.half = tick.half /\ tick'.todo = Extended(tick.todo)
    BY <1>0, <2>1 DEF TickState
  <2>3. SubmitAlpha(Head(ready)) /\ Head(ready) \in Own
    BY <1>0, <1>11 DEF Collect
  <2>4. /\ primaryPackets' \in Seq(S)
        /\ \/ pairs' = pairs
           \/ \E q \in Pair : /\ q.primary \in S /\ q.alpha \in Own
                              /\ pairs' = Append(pairs, q)
    BY <1>0, <1>1, <2>3, SubmitAlphaStays
  <2>5. Clean(Extended(tick.todo))
    BY <1>0, <1>3, <1>5, <2>4
  <2> QED
    BY <1>1, <2>2, <2>4, <2>5
<1>12. CASE Collected \/ SendPlain
  <2>1. PICK plain : \/ tick' = ToPairs(tick.todo) \/ tick' = PlainSent
                     \/ tick' = [tick EXCEPT !.pc = "plain", !.plain = plain]
    BY <1>12 DEF Collected, SendPlain
  <2>2. tick'.half \in {tick.half, NoHalf} /\ tick'.todo = tick.todo
    <3>1. CASE tick' = [tick EXCEPT !.pc = "plain", !.plain = plain]
      BY <1>0, <3>1 DEF TickState
    <3> QED
      BY <1>0, <2>1, <3>1, ToPairsKeeps, PlainSentKeeps
  <2>3. UNCHANGED primaryPackets
    BY <1>12 DEF Collected, SendPlain, pairerVars, matchVars
  <2> QED
    BY <1>6, <2>2, <2>3
<1>13. CASE ResolvePrimary
  <2> DEFINE half == HalfOf(tick.have, "primary", primary.out)
  <2>1. /\ half \in S \cup {NoHalf}
        /\ tick' = IF half = NoHalf THEN ToPairs(tick.todo)
                   ELSE [tick EXCEPT !.pc = "submit", !.have = NoPacket,
                                     !.half = half]
        /\ UNCHANGED primaryPackets
    BY <1>13 DEF ResolvePrimary, matchVars
  <2> HIDE DEF half
  <2>2. tick'.half \in S \cup {NoHalf} /\ tick'.todo = tick.todo
    <3>1. CASE half = NoHalf
      BY <1>0, <2>1, <3>1, ToPairsKeeps
    <3>2. CASE half # NoHalf
      BY <1>0, <2>1, <3>2 DEF TickState
    <3> QED
      BY <3>1, <3>2
  <2> QED
    BY <1>1, <1>5, <2>1, <2>2
<1>14. CASE SubmitColour
  <2>1. tick.half \in S
    <3>1. tick.half \in Own
      BY <1>14 DEF SubmitColour, FrameInv, PipelineTypeOK, ThreadsTyped
    <3>2. NoHalf \notin Own
      BY DEF NoHalf, Own, Half, Valid
    <3> QED
      BY <1>1, <3>1, <3>2
  <2>2. SubmitPrimary(tick.half) /\ tick' = ToPairs(Extended(tick.todo))
    BY <1>14 DEF SubmitColour
  <2>3. Extended(tick.todo) \in Seq(OwnPair)
    BY <1>0, <1>14, ExtendedTyped
  <2>4. tick'.todo = Extended(tick.todo) /\ tick'.half = NoHalf
    BY <1>0, <2>2, <2>3, ToPairsKeeps
  <2>5. primaryPackets' \in Seq(S) /\ Clean(Extended(tick.todo))
    <3>1. /\ primaryPackets' \in Seq(S)
          /\ \/ pairs' = pairs
             \/ \E q \in Pair : /\ q.primary \in S /\ q.alpha \in Own
                                /\ pairs' = Append(pairs, q)
      BY <1>0, <1>1, <2>1, <2>2, SubmitPrimaryStays
    <3> QED
      BY <1>0, <1>3, <1>5, <3>1
  <2> QED
    BY <2>4, <2>5
<1>15. CASE RejectPair \/ DispatchPair
  <2>1. tick' = ToPairs(Tail(tick.todo)) /\ UNCHANGED primaryPackets
    BY <1>15 DEF RejectPair, DispatchPair, pairerVars, matchVars
  <2>2. tick.todo # <<>>
    BY <1>15 DEF RejectPair, DispatchPair, FrameInv, PipelineTypeOK,
       ThreadsTyped
  <2>3. Tail(tick.todo) \in Seq(OwnPair)
    BY <1>0, <2>2
  <2>4. Clean(Tail(tick.todo))
    BY <1>0, <1>5, <2>2 DEF Clean
  <2> QED
    BY <1>0, <1>1, <2>1, <2>3, <2>4, ToPairsKeeps
<1> QED
  BY <1>7, <1>8, <1>9, <1>10, <1>11, <1>12, <1>13, <1>14, <1>15
     DEF Tick

\* A larger set carries whatever a smaller one does.
LEMMA CarriedMore ==
  ASSUME NEW S, NEW T, S \subseteq T, tick.todo \in Seq(OwnPair), Carried(S)
  PROVE  Carried(T)
<1>1. primaryPackets \in Seq(T)
  BY DEF Carried
<1> QED
  BY <1>1 DEF Carried

\* The half the encode thread makes of a colour packet has the number of the
\* packet and an admission sequence of the tracker.
LEMMA ResolvedHalf ==
  ASSUME FrameInv, ResolvePrimary
  PROVE  LET half == HalfOf(tick.have, "primary", primary.out) IN
         \/ half = NoHalf
         \/ /\ half \in Own /\ half.enc = primary.out
            /\ \E i \in 1..Len(entries) : half.seq = entries[i].adm.seq
<1>1. tick.have \in Colour /\ primary.out \in Nat /\ Inv /\ PipelineTypeOK
  BY DEF ResolvePrimary, FrameInv, PipelineTypeOK, ThreadsTyped, EncodersTyped,
     PrimaryEncoder
<1> QED
  BY <1>1, HalfIs

\* The sequence of the latest admission only grows.
LEMMA LatestGrows ==
  ASSUME FrameInv, [Next]_vars
  PROVE  /\ latestAdmission.seq \in Nat /\ latestAdmission'.seq \in Nat
         /\ latestAdmission.seq <= latestAdmission'.seq
         /\ AdmitFrame => \A i \in 1..Len(entries') :
              \/ entries'[i].adm.seq = latestAdmission'.seq
              \/ \E k \in 1..Len(entries) :
                   entries'[i].adm.seq = entries[k].adm.seq
<1>0. latestAdmission.seq \in Nat /\ entries \in Seq(Entry)
  BY DEF FrameInv, Inv, PairerTypeOK, Admission, NoAdmission
<1>1. CASE ~AdmitFrame
  BY <1>0, <1>1, LatestStep
<1>2. CASE AdmitFrame
  <2>1. Admit(slot, generation)
    BY <1>2 DEF AdmitFrame
  <2>2. CASE Rejected(slot, generation)
    BY <1>0, <2>1, <2>2 DEF Admit, trackerVars
  <2>3. CASE ~Rejected(slot, generation)
    <3> DEFINE adm == AdmissionOf(slot, generation)
               e == [adm |-> adm, primary |-> FALSE, alpha |-> FALSE]
    <3>1. /\ latestAdmission' = adm
          /\ entries' = Bounded(Append(entries, e), MaxEntries)
          /\ adm.seq = latestAdmission.seq + 1
      BY <2>1, <2>3 DEF Admit, AdmissionOf
    <3>2. slot \in Timestamp /\ generation \in Nat
      BY PipelineAssumption, PairerAssumption DEF FrameInv, PipelineTypeOK,
         ThreadsTyped, EncodersTyped, Timestamp
    <3>3. adm \in Admission
      BY <2>3, <3>2, AdmissionType DEF FrameInv, Inv
    <3> HIDE DEF adm
    <3>4. e \in Entry
      BY <3>3 DEF Entry
    <3>5. e.adm = adm
      OBVIOUS
    <3> HIDE DEF e
    <3>6. \A i \in 1..Len(entries') :
            \/ entries'[i] = e
            \/ \E k \in 1..Len(entries) : entries'[i] = entries[k]
      <4>1. /\ Append(entries, e) \in Seq(Entry)
            /\ Len(Append(entries, e)) = Len(entries) + 1
            /\ Append(entries, e) # <<>>
            /\ \A k \in 1..(Len(entries) + 1) :
                 Append(entries, e)[k] =
                   IF k = Len(entries) + 1 THEN e ELSE entries[k]
        BY <1>0, <3>4
      <4>2. CASE entries' = Append(entries, e)
        BY <1>0, <4>1, <4>2
      <4>3. CASE entries' = Tail(Append(entries, e))
        BY <1>0, <4>1, <4>3
      <4> QED
        BY <3>1, <4>2, <4>3 DEF Bounded
    <3> QED
      BY <1>0, <3>1, <3>5, <3>6
  <2> QED
    BY <2>2, <2>3
<1> QED
  BY <1>1, <1>2

LEMMA PastStep ==
  ASSUME FrameInv, PastInv, [Next]_vars
  PROVE  PastInv'
<1>1. PICK S \in SUBSET Own : S = Past'
  BY DEF Past
<1>2. Past \subseteq S
  <2> SUFFICES ASSUME NEW h \in Past PROVE h \in Past'
    BY <1>1
  <2>1. h.seq \in Nat /\ h.enc \in Nat
    BY DEF Past, Own, Half, Packet
  <2> QED
    BY <2>1, LatestGrows, OutStep DEF Past
<1>3. Carried(S)
  <2>1. tick.todo \in Seq(OwnPair)
    BY DEF FrameInv, PipelineTypeOK, ThreadsTyped, TickState
  <2> QED
    BY <1>2, <2>1, CarriedMore DEF PastInv
<1>4. ResolvePrimary =>
        HalfOf(tick.have, "primary", primary.out) \in S \cup {NoHalf}
  <2> SUFFICES ASSUME ResolvePrimary,
                      HalfOf(tick.have, "primary", primary.out) # NoHalf
               PROVE  HalfOf(tick.have, "primary", primary.out) \in Past
    BY <1>2
  <2> QED
    BY ResolvedHalf, OutStep DEF PastInv, Past
<1>5. \A i \in 1..Len(entries') : entries'[i].adm.seq <= latestAdmission'.seq
  <2>1. entries \in Seq(Entry)
    BY DEF FrameInv, Inv, PairerTypeOK
  <2>2. ASSUME NEW k \in 1..Len(entries) PROVE entries[k].adm.seq \in Nat
    <3>1. entries[k] \in Entry
      BY <2>1
    <3> QED
      BY <3>1 DEF Entry, Admission
  <2> SUFFICES ASSUME NEW i \in 1..Len(entries')
               PROVE  entries'[i].adm.seq <= latestAdmission'.seq
    OBVIOUS
  <2>3. \/ entries'[i].adm.seq = latestAdmission'.seq
        \/ \E k \in 1..Len(entries) : entries'[i].adm.seq = entries[k].adm.seq
    <3>1. CASE AdmitFrame
      BY <3>1, LatestGrows
    <3>2. CASE ~AdmitFrame
      BY <3>2, EntriesStep
    <3> QED
      BY <3>1, <3>2
  <2>4. \A k \in 1..Len(entries) : entries[k].adm.seq <= latestAdmission.seq
    BY DEF PastInv
  <2> QED
    BY <2>2, <2>3, <2>4, LatestGrows
<1>6. Carried(S)'
  BY <1>3, <1>4, CarriedStep DEF Carried
<1> QED
  BY <1>1, <1>5, <1>6 DEF PastInv, Carried

---------------------------------------------------------------------------
(* The chain of a viewer.                                                  *)

\* The plain sends begin with a newly numbered packet, for viewers that are
\* not served in pairs.
LEMMA PlainStep ==
  ASSUME FrameInv, [Next]_vars, tick'.pc \in {"plain", "resolve"}
  PROVE  \/ /\ tick.pc \in {"plain", "resolve"} /\ ~Collected
            /\ tick'.pc = "plain" => UNCHANGED tick
         \/ /\ Collected /\ primary'.out = primary.out + 1
            /\ UNCHANGED viewerVars
            /\ \A v \in tick'.plain : ~(tick'.flow /\ viewer[v].alpha)
<1>0. tick \in TickState /\ tick.todo \in Seq(OwnPair)
      /\ primary \in PrimaryEncoder
  BY DEF FrameInv, PipelineTypeOK, ThreadsTyped, EncodersTyped, TickState
<1>1. CASE ~Tick
  BY <1>1, TickAlone DEF Tick
<1>2. CASE Collected
  <2>1. tick.have # NoPacket
    BY <1>0, <1>2, ToPairsTyped DEF Collected
  <2> DEFINE plain == {v \in tick.routed :
                         /\ ~(tick.flow /\ viewer[v].alpha)
                         /\ viewer[v].waiting => tick.have.key}
  <2>2. /\ primary' = [primary EXCEPT !.out = @ + 1]
        /\ UNCHANGED viewerVars
        /\ tick' = IF plain = {} THEN PlainSent
                   ELSE [tick EXCEPT !.pc = "plain", !.plain = plain]
    BY <1>2, <2>1 DEF Collected
  <2>3. primary'.out = primary.out + 1
    BY <1>0, <2>2 DEF PrimaryEncoder
  <2>4. CASE tick' = PlainSent
    BY <1>0, <1>2, <2>2, <2>3, <2>4, PlainSentKeeps
  <2>5. CASE tick' = [tick EXCEPT !.pc = "plain", !.plain = plain]
    <3>1. tick'.plain = plain /\ tick'.flow = tick.flow
      BY <1>0, <2>5 DEF TickState
    <3> QED
      BY <1>2, <2>2, <2>3, <3>1
  <2> QED
    BY <2>2, <2>4, <2>5
<1>3. CASE SendPlain
  BY <1>0, <1>3, PlainSentTyped DEF SendPlain, Collected
<1>4. CASE BeginTick \/ FallBackToH264
  BY <1>4 DEF BeginTick, TakeSlot, FallBackToH264, IdleTick
<1>5. CASE AdmitFrame \/ FrameWithoutPlane
  BY <1>0, <1>5 DEF AdmitFrame, FrameWithoutPlane, Goto, TickState
<1>6. CASE EncodeReturns \/ EncodeUntimed \/ EncodeYieldsNothing
           \/ RecoverEncoder
  <2>1. PICK packet : AfterEncode(packet)
    BY <1>6 DEF EncodeReturns, EncodeUntimed, EncodeYieldsNothing,
       RecoverEncoder
  <2> QED
    BY <1>0, <2>1 DEF AfterEncode, TickState
<1>7. CASE Renegotiate
  <2>1. PICK v : tick' = IdleTick \/ tick' = [tick EXCEPT !.routed = @ \ {v}]
    BY <1>7 DEF Renegotiate
  <2>2. tick'.pc \in {"idle", "renegotiate"}
    BY <1>0, <1>7, <2>1 DEF Renegotiate, IdleTick, TickState
  <2> QED
    BY <2>2
<1>8. CASE Collect
  <2>1. tick' = [tick EXCEPT !.todo = Extended(tick.todo)]
        /\ tick.pc = "collect"
    BY <1>8 DEF Collect
  <2> QED
    BY <1>0, <2>1 DEF TickState
<1>9. CASE ResolvePrimary
  <2>1. PICK half : \/ tick' = ToPairs(tick.todo)
                    \/ tick' = [tick EXCEPT !.pc = "submit",
                                  !.have = NoPacket, !.half = half]
    BY <1>9 DEF ResolvePrimary
  <2>2. tick' # ToPairs(tick.todo)
    BY <1>0, ToPairsTyped
  <2>3. tick'.pc = "submit"
    <3>1. [tick EXCEPT !.pc = "submit", !.have = NoPacket, !.half = half].pc
            = "submit"
      BY <1>0 DEF TickState
    <3> QED
      BY <2>1, <2>2, <3>1
  <2> QED
    BY <2>3
<1>10. CASE SubmitColour
  <2>1. Extended(tick.todo) \in Seq(OwnPair)
    BY <1>0, <1>10, ExtendedTyped
  <2> QED
    BY <1>0, <1>10, <2>1, ToPairsTyped DEF SubmitColour
<1>11. CASE RejectPair \/ DispatchPair
  <2>1. tick.todo # <<>> /\ tick' = ToPairs(Tail(tick.todo))
    BY <1>11 DEF RejectPair, DispatchPair, FrameInv, PipelineTypeOK,
       ThreadsTyped
  <2>2. Tail(tick.todo) \in Seq(OwnPair)
    BY <1>0, <2>1
  <2> QED
    BY <1>0, <2>1, <2>2, ToPairsTyped
<1> QED
  BY <1>1, <1>2, <1>3, <1>4, <1>5, <1>6, <1>7, <1>8, <1>9, <1>10, <1>11 DEF Tick

\* A cutoff at the latest admission covers everything on its way.
LEMMA SettledByCutoff ==
  ASSUME FrameInv, PastInv, NEW w \in ViewerState,
         latestAdmission.seq <= w.cutoff, w.last < primary.out
  PROVE  Settled(w)
<1>0. /\ w.cutoff \in Nat /\ latestAdmission.seq \in Nat
      /\ tick.todo \in Seq(OwnPair) /\ entries \in Seq(Entry)
  BY DEF ViewerState, FrameInv, Inv, PairerTypeOK, Admission, NoAdmission,
     PipelineTypeOK, ThreadsTyped, TickState
<1>1. Past \subseteq Covered(w)
  <2> SUFFICES ASSUME NEW h \in Past PROVE h \in Covered(w)
    OBVIOUS
  <2>1. h.seq \in Nat /\ h.seq <= latestAdmission.seq /\ h \in Own
    BY DEF Past, Own, Half, Packet
  <2> QED
    BY <1>0, <2>1 DEF Covered
<1>2. Carried(Covered(w))
  BY <1>0, <1>1, CarriedMore DEF PastInv
<1>3. ASSUME NEW i \in 1..Len(entries) PROVE entries[i].adm.seq <= w.cutoff
  <2>1. entries[i] \in Entry
    BY <1>0
  <2>2. entries[i].adm.seq \in Nat
    BY <2>1 DEF Entry, Admission
  <2> QED
    BY <1>0, <2>2 DEF PastInv
<1> QED
  BY <1>2, <1>3 DEF Settled

\* A larger cutoff covers more.
LEMMA SettledMore ==
  ASSUME FrameInv, NEW w \in ViewerState, NEW x \in ViewerState,
         x.last = w.last, w.cutoff <= x.cutoff, Settled(w)
  PROVE  Settled(x)
<1>0. /\ w.cutoff \in Nat /\ x.cutoff \in Nat
      /\ tick.todo \in Seq(OwnPair) /\ entries \in Seq(Entry)
  BY DEF ViewerState, FrameInv, Inv, PairerTypeOK, PipelineTypeOK,
     ThreadsTyped, TickState
<1>1. Covered(w) \subseteq Covered(x)
  <2> SUFFICES ASSUME NEW h \in Covered(w) PROVE h \in Covered(x)
    OBVIOUS
  <2>1. h.seq \in Nat /\ h \in Own
    BY DEF Covered, Own, Half, Packet
  <2> QED
    BY <1>0, <2>1 DEF Covered
<1>2. Carried(Covered(x))
  BY <1>0, <1>1, CarriedMore DEF Settled
<1>3. ASSUME NEW i \in 1..Len(entries), entries[i].adm.seq <= w.cutoff
      PROVE  entries[i].adm.seq <= x.cutoff
  <2>1. entries[i] \in Entry
    BY <1>0
  <2>2. entries[i].adm.seq \in Nat
    BY <2>1 DEF Entry, Admission
  <2> QED
    BY <1>0, <1>3, <2>2
<1> QED
  BY <1>2, <1>3 DEF Settled

\* What is covered stays covered: a half that is made later either carries a
\* later number, or was admitted before the cutoff.
LEMMA SettledStays ==
  ASSUME FrameInv, NEW w \in ViewerState, Settled(w), [Next]_vars
  PROVE  Settled(w)'
<1>0. w.last \in Nat /\ primary.out \in Nat /\ w.last < primary.out
  BY OutStep DEF ViewerState, Settled
<1>1. PICK S \in SUBSET Own : S = Covered(w)
  BY DEF Covered
<1>2. ResolvePrimary =>
        HalfOf(tick.have, "primary", primary.out) \in S \cup {NoHalf}
  <2> SUFFICES ASSUME ResolvePrimary,
                      HalfOf(tick.have, "primary", primary.out) # NoHalf
               PROVE  HalfOf(tick.have, "primary", primary.out) \in Covered(w)
    BY <1>1
  <2>1. tick.pc = "resolve"
    BY DEF ResolvePrimary
  <2> QED
    BY <1>0, <2>1, ResolvedHalf DEF Covered, Settled
<1>3. Carried(S)'
  <2>1. Carried(S)
    BY <1>1 DEF Settled
  <2> QED
    BY <1>2, <2>1, CarriedStep DEF Carried
<1>4. w.last < primary'.out
  BY <1>0, OutStep
<1>5. ASSUME tick'.pc \in {"plain", "resolve"}, primary'.out = w.last + 1,
             NEW i \in 1..Len(entries')
      PROVE  entries'[i].adm.seq <= w.cutoff
  <2>1. tick.pc \in {"plain", "resolve"} /\ ~Collected
    BY <1>0, <1>5, PlainStep
  <2>2. primary.out = w.last + 1
    BY <1>5, <2>1, OutStep
  <2>3. ~AdmitFrame
    BY <2>1 DEF AdmitFrame
  <2>4. PICK k \in 1..Len(entries) : entries'[i].adm = entries[k].adm
    BY <2>3, <1>5, EntriesStep
  <2> QED
    BY <2>1, <2>2, <2>4 DEF Settled
<1> QED
  BY <1>1, <1>3, <1>4, <1>5 DEF Settled, Carried, Covered

\* What a step may do to a viewer: send it a pair, or leave its place in the
\* chain alone and only ever raise its cutoff.
Outcome(v) ==
  LET w == viewer[v]
      x == viewer'[v] IN
  \/ /\ tick.pc = "pairs" /\ x.last = shown'[v].enc /\ x.last <= primary.out
     /\ ~Collected
  \/ /\ x.last = w.last /\ w.cutoff <= x.cutoff
     /\ Told(x) => Told(w) \/ latestAdmission.seq <= x.cutoff
     /\ x.bound /\ ~x.waiting =>
          \/ w.bound /\ ~w.waiting /\ shown'[v] = shown[v]
          \/ tick.pc = "plain" /\ v \in tick.plain

LEMMA OutcomeUnchanged ==
  ASSUME FrameInv, NEW v \in Viewers, viewer'[v] = viewer[v],
         shown'[v] = shown[v]
  PROVE  Outcome(v)
<1>1. viewer[v] \in ViewerState
  BY DEF FrameInv, PipelineTypeOK, ViewersTyped
<1> QED
  BY <1>1 DEF Outcome, ViewerState

LEMMA OutcomeOfRebuild ==
  ASSUME FrameInv, NEW v \in Viewers, NEW u \in Viewers, Rebuild(u)
  PROVE  Outcome(v)
<1>0. /\ viewer \in [Viewers -> ViewerState] /\ viewer[v] \in ViewerState
      /\ shown \in [Viewers -> [enc : Nat, key : BOOLEAN]] /\ Inv
  BY DEF FrameInv, PipelineTypeOK, ViewersTyped
<1>1. CASE u # v
  <2>1. viewer'[v] = viewer[v] /\ shown'[v] = shown[v]
    BY <1>0, <1>1 DEF Rebuild
  <2> QED
    BY <2>1, OutcomeUnchanged
<1>2. CASE u = v
  <2> DEFINE w == viewer[v]  c == Cutoff(w.cutoff)
  <2>1. /\ w.cutoff <= c /\ latestAdmission.seq <= c /\ c \in Nat
    BY <1>0, CutoffIs DEF ViewerState
  <2>2. \/ viewer'[v] = OnNewTransport(w)
        \/ viewer'[v] = [w EXCEPT !.bound = FALSE, !.cutoff = Cutoff(@)]
        \/ /\ viewer'[v] = [w EXCEPT !.cutoff = Cutoff(@)]
           /\ shown'[v] = shown[v]
    BY <1>0, <1>2 DEF Rebuild
  <2>3. CASE viewer'[v] = OnNewTransport(w)
    <3>1. /\ viewer'[v].last = w.last /\ viewer'[v].cutoff = c
          /\ viewer'[v].waiting = TRUE
      BY <1>0, <2>3 DEF OnNewTransport, ViewerState
    <3> QED
      BY <2>1, <3>1 DEF Outcome
  <2>4. CASE viewer'[v] = [w EXCEPT !.bound = FALSE, !.cutoff = Cutoff(@)]
    <3>1. /\ viewer'[v].last = w.last /\ viewer'[v].cutoff = c
          /\ viewer'[v].bound = FALSE
      BY <1>0, <2>4 DEF ViewerState
    <3> QED
      BY <2>1, <3>1 DEF Outcome
  <2>5. CASE /\ viewer'[v] = [w EXCEPT !.cutoff = Cutoff(@)]
             /\ shown'[v] = shown[v]
    <3>1. /\ viewer'[v].last = w.last /\ viewer'[v].cutoff = c
          /\ viewer'[v].bound = w.bound /\ viewer'[v].waiting = w.waiting
      BY <1>0, <2>5 DEF ViewerState
    <3> QED
      BY <2>1, <2>5, <3>1 DEF Outcome
  <2> QED
    BY <2>2, <2>3, <2>4, <2>5
<1> QED
  BY <1>1, <1>2

\* A viewer's messages.
LEMMA OutcomeOfMessage ==
  ASSUME FrameInv, NEW v \in Viewers,
         AnnounceAlpha \/ AnnounceCutoff \/ AnnounceWaiting \/ WithdrawAlpha
         \/ RefreshWaiting \/ RefreshCutoff
  PROVE  Outcome(v)
<1>0. /\ viewer \in [Viewers -> ViewerState] /\ viewer[v] \in ViewerState
      /\ Inv
  BY DEF FrameInv, PipelineTypeOK, ViewersTyped
<1> DEFINE w == viewer[v]  c == Cutoff(w.cutoff)
<1>1. w.cutoff <= c /\ latestAdmission.seq <= c /\ c \in Nat /\ w.cutoff \in Nat
  BY <1>0, CutoffIs DEF ViewerState
<1>2. shown'[v] = shown[v]
  BY DEF AnnounceAlpha, AnnounceCutoff, AnnounceWaiting, WithdrawAlpha,
     RefreshWaiting, RefreshCutoff
<1>3. \/ viewer'[v] = w
      \/ viewer'[v] = [w EXCEPT !.alpha = TRUE, !.telling = "cutoff"]
      \/ viewer'[v] = [w EXCEPT !.cutoff = Cutoff(@), !.telling = "waiting"]
      \/ viewer'[v] = [w EXCEPT !.cutoff = Cutoff(@), !.telling = "no"]
      \/ viewer'[v] = [w EXCEPT !.alpha = FALSE]
      \/ /\ w.telling # "cutoff"
         /\ \/ viewer'[v] = [w EXCEPT !.waiting = TRUE, !.telling = "no"]
            \/ viewer'[v] = [w EXCEPT !.waiting = TRUE, !.telling = "reserve"]
  <2>1. CASE AnnounceAlpha
    BY <1>0, <2>1 DEF AnnounceAlpha
  <2>2. CASE AnnounceCutoff
    BY <1>0, <2>2 DEF AnnounceCutoff
  <2>3. CASE AnnounceWaiting
    BY <1>0, <2>3 DEF AnnounceWaiting
  <2>4. CASE WithdrawAlpha
    BY <1>0, <2>4 DEF WithdrawAlpha
  <2>5. CASE RefreshWaiting
    BY <1>0, <2>5 DEF RefreshWaiting
  <2>6. CASE RefreshCutoff
    BY <1>0, <2>6 DEF RefreshCutoff
  <2> QED
    BY <2>1, <2>2, <2>3, <2>4, <2>5, <2>6
<1>4. CASE viewer'[v] = w
  BY <1>2, <1>4, OutcomeUnchanged
<1>5. CASE \/ viewer'[v] = [w EXCEPT !.cutoff = Cutoff(@), !.telling = "waiting"]
           \/ viewer'[v] = [w EXCEPT !.cutoff = Cutoff(@), !.telling = "no"]
  <2>1. /\ viewer'[v].last = w.last /\ viewer'[v].cutoff = c
        /\ viewer'[v].bound = w.bound /\ viewer'[v].waiting = w.waiting
    BY <1>0, <1>5 DEF ViewerState
  <2> QED
    BY <1>1, <1>2, <2>1 DEF Outcome
<1>6. CASE \/ viewer'[v] = [w EXCEPT !.alpha = TRUE, !.telling = "cutoff"]
           \/ viewer'[v] = [w EXCEPT !.alpha = FALSE]
  <2>1. /\ viewer'[v].last = w.last /\ viewer'[v].cutoff = w.cutoff
        /\ viewer'[v].bound = w.bound /\ viewer'[v].waiting = w.waiting
        /\ ~Told(viewer'[v])
    BY <1>0, <1>6 DEF ViewerState, Told
  <2> QED
    BY <1>1, <1>2, <2>1 DEF Outcome
<1>7. CASE /\ w.telling # "cutoff"
           /\ \/ viewer'[v] = [w EXCEPT !.waiting = TRUE, !.telling = "no"]
              \/ viewer'[v] = [w EXCEPT !.waiting = TRUE, !.telling = "reserve"]
  <2>1. /\ viewer'[v].last = w.last /\ viewer'[v].cutoff = w.cutoff
        /\ viewer'[v].waiting = TRUE /\ viewer'[v].alpha = w.alpha
    BY <1>0, <1>7 DEF ViewerState
  <2>2. Told(viewer'[v]) => Told(w)
    BY <1>0, <2>1, <1>7 DEF Told
  <2> QED
    BY <1>1, <2>1, <2>2 DEF Outcome
<1> QED
  BY <1>3, <1>4, <1>5, <1>6, <1>7

\* The encode thread's sends.
LEMMA OutcomeOfSend ==
  ASSUME FrameInv, PastInv, NEW v \in Viewers,
         SendPlain \/ RejectPair \/ DispatchPair
  PROVE  Outcome(v)
<1>0. /\ viewer \in [Viewers -> ViewerState] /\ viewer[v] \in ViewerState
      /\ shown \in [Viewers -> [enc : Nat, key : BOOLEAN]]
      /\ Inv /\ tick.todo \in Seq(OwnPair)
  BY DEF FrameInv, PipelineTypeOK, ViewersTyped, ThreadsTyped, TickState
<1> DEFINE w == viewer[v]
           pair == Head(tick.todo)
<1>1. viewer'[v] = w /\ shown'[v] = shown[v] => Outcome(v)
  BY OutcomeUnchanged
<1>2. ASSUME viewer'[v] = Wait(w) PROVE Outcome(v)
  <2>1. w.cutoff <= Cutoff(w.cutoff)
    BY <1>0, CutoffIs DEF ViewerState
  <2>2. /\ viewer'[v].last = w.last /\ viewer'[v].cutoff = Cutoff(w.cutoff)
        /\ viewer'[v].waiting = TRUE
        /\ Told(viewer'[v]) => Told(w)
    BY <1>0, <1>2 DEF Wait, ViewerState, Told
  <2> QED
    BY <2>1, <2>2 DEF Outcome
<1>3. CASE SendPlain
  <2>1. PICK sent \in SUBSET tick.plain :
          viewer' = [u \in Viewers |-> IF u \in sent /\ tick.have.key
                       THEN [viewer[u] EXCEPT !.waiting = FALSE] ELSE viewer[u]]
    BY <1>3 DEF SendPlain
  <2>2. shown' = shown /\ tick.pc = "plain"
    BY <1>3 DEF SendPlain
  <2>3. CASE v \in sent /\ tick.have.key
    <3>1. viewer'[v] = [w EXCEPT !.waiting = FALSE]
      BY <2>1, <2>3
    <3>2. /\ viewer'[v].last = w.last /\ viewer'[v].cutoff = w.cutoff
          /\ Told(viewer'[v]) => Told(w)
          /\ w.cutoff <= w.cutoff
      BY <1>0, <3>1 DEF ViewerState, Told
    <3> QED
      BY <2>2, <2>3, <3>2 DEF Outcome
  <2>4. CASE ~(v \in sent /\ tick.have.key)
    BY <1>1, <2>1, <2>2, <2>4
  <2> QED
    BY <2>3, <2>4
<1>4. CASE RejectPair
  <2>1. /\ shown' = shown
        /\ viewer' = [u \in Viewers |-> IF u \in AlphaViewers(pair)
                                        THEN Wait(viewer[u]) ELSE viewer[u]]
    BY <1>4 DEF RejectPair
  <2>2. viewer'[v] = Wait(w) \/ viewer'[v] = w
    BY <2>1
  <2> QED
    BY <1>1, <1>2, <2>1, <2>2
<1>5. CASE DispatchPair
  <2>1. tick.todo # <<>> /\ tick.pc = "pairs"
    BY <1>5 DEF DispatchPair, FrameInv, PipelineTypeOK, ThreadsTyped
  <2>2. pair \in Pair /\ pair.primary \in Past
    <3>1. pair = tick.todo[1] /\ 1 \in 1..Len(tick.todo)
      BY <1>0, <2>1
    <3>2. tick.todo[1] \in OwnPair
      BY <1>0, <3>1
    <3> QED
      BY <3>1, <3>2 DEF OwnPair, PastInv, Carried
  <2>3. PICK sent \in SUBSET AlphaViewers(pair) :
          /\ viewer' = [u \in Viewers |->
               IF u \in AlphaViewers(pair)
               THEN Offered(viewer[u], pair, u \in sent) ELSE viewer[u]]
          /\ shown' = [u \in Viewers |->
               IF u \in sent /\ Delivered(viewer[u], pair)
               THEN [enc |-> pair.primary.enc, key |-> pair.primary.key]
               ELSE shown[u]]
    BY <1>5 DEF DispatchPair
  <2>4. CASE v \notin AlphaViewers(pair)
    <3>1. v \notin sent
      BY <2>4
    <3> QED
      BY <1>1, <2>3, <2>4, <3>1
  <2>5. CASE v \in AlphaViewers(pair)
    <3> HIDE DEF pair
    <3>1. viewer'[v] = Offered(w, pair, v \in sent)
      BY <2>3, <2>5
    <3>2. CASE v \in sent /\ Delivered(w, pair)
      <4>1. viewer'[v] = [w EXCEPT !.last = pair.primary.enc,
                            !.waiting = IF CanStart(pair) THEN FALSE ELSE @]
        BY <3>1, <3>2 DEF Offered, Delivered
      <4>2. viewer'[v].last = pair.primary.enc
        BY <1>0, <4>1 DEF ViewerState
      <4>3. shown'[v].enc = pair.primary.enc
        BY <2>3, <3>2
      <4>4. pair.primary.enc <= primary.out
        BY <2>2 DEF Past
      <4>5. ~Collected
        BY <2>1 DEF Collected
      <4> QED
        BY <2>1, <4>2, <4>3, <4>4, <4>5 DEF Outcome
    <3>3. CASE ~(v \in sent /\ Delivered(w, pair))
      <4>1. shown'[v] = shown[v]
        BY <2>3, <3>3
      <4>2. \/ viewer'[v] = w \/ viewer'[v] = Wait(w)
            \/ viewer'[v] = [w EXCEPT !.waiting = TRUE,
                               !.cutoff = Larger(@, pair.primary.seq)]
        BY <3>1, <3>3 DEF Offered, Delivered
      <4>3. CASE viewer'[v] = [w EXCEPT !.waiting = TRUE,
                                 !.cutoff = Larger(@, pair.primary.seq)]
        <5>1. pair.primary.seq \in Nat
          BY <2>2 DEF Pair, Half, Packet
        <5>2. w.cutoff <= Larger(w.cutoff, pair.primary.seq)
          BY <1>0, <5>1, LargerType DEF ViewerState
        <5>3. /\ viewer'[v].last = w.last /\ viewer'[v].waiting = TRUE
              /\ viewer'[v].cutoff = Larger(w.cutoff, pair.primary.seq)
              /\ Told(viewer'[v]) => Told(w)
          BY <1>0, <4>3 DEF ViewerState, Told
        <5> QED
          BY <5>2, <5>3 DEF Outcome
      <4> QED
        BY <1>1, <1>2, <4>1, <4>2, <4>3
    <3> QED
      BY <3>2, <3>3
  <2> QED
    BY <2>4, <2>5
<1> QED
  BY <1>3, <1>4, <1>5

LEMMA ViewerOutcome ==
  ASSUME FrameInv, PastInv, [Next]_vars, NEW v \in Viewers
  PROVE  Outcome(v)
<1>1. CASE UNCHANGED viewerVars
  BY <1>1, OutcomeUnchanged DEF viewerVars
<1>2. CASE NewTransport \/ Renegotiate \/ ControlOffers
  <2>1. UNCHANGED viewerVars \/ \E u \in Viewers : Rebuild(u)
    BY <1>2 DEF NewTransport, Renegotiate, ControlOffers, FrameInv,
       PipelineTypeOK, ThreadsTyped, TickState, Control
  <2> QED
    BY <1>1, <2>1, OutcomeOfRebuild
<1>3. ASSUME ViewerStep, ~NewTransport PROVE Outcome(v)
  BY <1>3, OutcomeOfMessage DEF ViewerStep
<1>4. ASSUME Tick PROVE UNCHANGED viewerVars \/ Renegotiate \/ SendPlain
                         \/ RejectPair \/ DispatchPair
  BY <1>4 DEF Tick, BeginTick, TakeSlot, AdmitFrame, FrameWithoutPlane,
     EncodeReturns, EncodeUntimed, EncodeYieldsNothing, RecoverEncoder,
     FallBackToH264, Collect, Collected, ResolvePrimary, SubmitColour
<1>5. ASSUME AlphaThread \/ Capture \/ UNCHANGED vars
      PROVE  UNCHANGED viewerVars
  BY <1>5 DEF AlphaThread, TakeReconfigure, TakeJob, Reconfigure,
     DisableAlpha, EncodeAlpha, EncodeAlphaFails, PushAlpha, Capture,
     StartCapture, StopCapture, JoinEncode, JoinAlpha, ClearQueues,
     ShutEncoders, PeriodicKeyframe, vars
<1>6. ASSUME ControlThread PROVE UNCHANGED viewerVars \/ ControlOffers
  BY <1>6 DEF ControlThread, ControlReinit, ControlPrepare, ControlHandOver,
     ControlRejected, ControlBitrate, ControlRetire, ControlClear,
     ControlAlpha, ControlCommit, ControlFallback
<1> QED
  BY <1>1, <1>2, <1>3, <1>4, <1>5, <1>6, OutcomeOfSend DEF Next

\* The chain invariant is preserved, viewer by viewer.
LEMMA ChainStep ==
  ASSUME IInv, [Next]_vars
  PROVE  ChainInv'
<1>0. FrameInv /\ Excluded /\ Shape /\ PastInv /\ ChainInv
  BY DEF IInv, Locks
<1> SUFFICES ASSUME NEW v \in Viewers PROVE ChainOf(v)'
  BY DEF ChainInv
<1>1. FrameInv' /\ PastInv'
  BY <1>0, FrameInvPreserved, PastStep
<1>2. PICK w : w = viewer[v]
  OBVIOUS
<1>3. PICK x : x = viewer'[v]
  OBVIOUS
<1>4. /\ w \in ViewerState /\ x \in ViewerState
      /\ w.last \in Nat /\ x.last \in Nat
      /\ primary.out \in Nat /\ primary'.out \in Nat
      /\ shown[v].enc \in Nat
  BY <1>0, <1>1, <1>2, <1>3, OutStep DEF FrameInv, PipelineTypeOK,
     ViewersTyped, ViewerState
<1>5. /\ w.last <= primary.out
      /\ tick.pc = "plain" => w.last < primary.out
      /\ w.bound /\ ~w.waiting => shown[v].enc = w.last \/ w.last < primary.out
      /\ w.bound /\ ~w.waiting /\ Told(w) /\ config.alpha =>
           shown[v].enc = w.last \/ Settled(w)
      /\ tick.pc = "plain" /\ tick.flow /\ v \in tick.plain /\ Told(w) =>
           Settled(w)
  BY <1>0, <1>2 DEF ChainInv, ChainOf
<1>6. primary.out <= primary'.out
  BY <1>4, <1>0, OutStep
<1>7. config'.alpha => config.alpha
  BY <1>0, AlphaStaysOff
<1> DEFINE Sent == /\ tick.pc = "pairs" /\ x.last = shown'[v].enc
                   /\ x.last <= primary.out /\ ~Collected
           Left == /\ x.last = w.last /\ w.cutoff <= x.cutoff
                   /\ Told(x) => Told(w) \/ latestAdmission.seq <= x.cutoff
                   /\ x.bound /\ ~x.waiting =>
                        \/ w.bound /\ ~w.waiting /\ shown'[v] = shown[v]
                        \/ tick.pc = "plain" /\ v \in tick.plain
<1>8. Sent \/ Left
  BY <1>0, <1>2, <1>3, ViewerOutcome DEF Outcome
<1> HIDE DEF Sent, Left
\* What was settled for the old state of the viewer is for the new one.
<1>9. ASSUME Left, Told(x), Told(w) => Settled(w) \/ ~(w.last < primary.out),
             w.last < primary.out
      PROVE  Settled(x)'
  <2>1. Settled(x)
    <3>1. CASE Told(w)
      BY <1>0, <1>4, <1>9, <3>1, SettledMore DEF Left
    <3>2. CASE latestAdmission.seq <= x.cutoff
      BY <1>0, <1>4, <1>9, <3>2, SettledByCutoff DEF Left
    <3> QED
      BY <1>9, <3>1, <3>2 DEF Left
  <2> QED
    BY <1>0, <1>4, <2>1, SettledStays
<1>10. x.last <= primary'.out
  BY <1>4, <1>5, <1>6, <1>8 DEF Sent, Left
<1>11. ASSUME tick'.pc = "plain" PROVE x.last < primary'.out
  <2>1. Left
    BY <1>0, <1>8, <1>11, PlainStep DEF Sent
  <2> QED
    BY <1>0, <1>4, <1>5, <1>6, <1>11, <2>1, PlainStep DEF Left
<1>12. ASSUME x.bound, ~x.waiting
       PROVE  shown'[v].enc = x.last \/ x.last < primary'.out
  BY <1>4, <1>5, <1>6, <1>8, <1>12 DEF Sent, Left
<1>13. ASSUME x.bound, ~x.waiting, Told(x), config'.alpha
       PROVE  shown'[v].enc = x.last \/ Settled(x)'
  <2>1. CASE Sent
    BY <2>1 DEF Sent
  <2>2. CASE Left /\ w.bound /\ ~w.waiting /\ shown'[v] = shown[v]
    BY <1>5, <1>7, <1>9, <1>13, <2>2 DEF Left, Settled
  <2>3. CASE Left /\ tick.pc = "plain" /\ v \in tick.plain
    <3>1. tick.flow
      BY <1>0, <1>7, <1>13, <2>3 DEF Shape
    <3> QED
      BY <1>5, <1>9, <1>13, <2>3, <3>1
  <2> QED
    BY <1>8, <1>13, <2>1, <2>2, <2>3 DEF Left
<1>14. ASSUME tick'.pc = "plain", tick'.flow, v \in tick'.plain, Told(x)
       PROVE  Settled(x)'
  <2>1. CASE Collected
    <3>1. x = w /\ ~w.alpha
      BY <1>0, <1>2, <1>3, <1>14, <2>1, PlainStep DEF viewerVars
    <3> QED
      BY <1>14, <3>1 DEF Told
  <2>2. CASE ~Collected
    <3>1. tick.pc \in {"plain", "resolve"} /\ UNCHANGED tick
      BY <1>0, <1>14, <2>2, PlainStep
    <3>2. tick.pc = "plain" /\ tick.flow /\ v \in tick.plain
      BY <1>14, <3>1
    <3>3. Left
      BY <1>8, <3>2 DEF Sent
    <3> QED
      BY <1>5, <1>9, <1>14, <3>2, <3>3
  <2> QED
    BY <2>1, <2>2
<1> QED
  BY <1>3, <1>10, <1>11, <1>12, <1>13, <1>14 DEF ChainOf

LEMMA IInvInitially ==
  ASSUME Init
  PROVE  IInv
<1>1. FrameInv
  BY FrameInvInitially
<1>2. Locks
  BY DEF Init, IdleTick, IdleControl, Locks, Excluded, Shape
<1>3. PastInv
  <2>1. /\ entries = <<>> /\ primaryPackets = <<>>
        /\ tick.half = NoHalf /\ tick.todo = <<>>
    BY DEF Init, PairerInit, IdleTick
  <2>2. <<>> \in Seq(Past) /\ Len(<<>>) = 0
    OBVIOUS
  <2> QED
    BY <2>1, <2>2 DEF PastInv, Carried
<1>4. ASSUME NEW v \in Viewers PROVE ChainOf(v)
  <2>1. /\ viewer[v].last = 0 /\ viewer[v].waiting = TRUE
        /\ tick.pc = "idle" /\ primary.out = 0
    BY DEF Init, IdleTick
  <2> QED
    BY <2>1 DEF ChainOf
<1> QED
  BY <1>1, <1>2, <1>3, <1>4 DEF IInv, ChainInv

LEMMA IInvPreserved ==
  ASSUME IInv, [Next]_vars
  PROVE  IInv'
<1>1. FrameInv' /\ Excluded' /\ Shape' /\ PastInv'
  BY FrameInvPreserved, ExcludedStep, ShapeStep, PastStep DEF IInv, Locks
<1> QED
  BY <1>1, ChainStep DEF IInv, Locks

\* What a viewer is sent in a pair continues its chain: by the invariant the
\* colour half that its place in the chain calls for is either the one that
\* follows what it was last sent on this transport, or retired by its cutoff.
LEMMA ChainOfStep ==
  ASSUME IInv, [Next]_vars, NEW v \in Viewers,
         shown'[v] \notin {shown[v], NothingShown}
  PROVE  \/ shown'[v].key
         \/ shown[v].enc # 0 /\ shown'[v].enc = shown[v].enc + 1
         \/ viewer[v].telling = "cutoff"
<1>0. /\ FrameInv /\ Shape /\ PastInv /\ ChainOf(v)
      /\ viewer[v] \in ViewerState /\ tick.todo \in Seq(OwnPair)
      /\ shown \in [Viewers -> [enc : Nat, key : BOOLEAN]]
  BY DEF IInv, Locks, ChainInv, FrameInv, PipelineTypeOK, ViewersTyped,
     ThreadsTyped, TickState
<1>1. DispatchPair
  <2>1. ASSUME NEW u \in Viewers, Rebuild(u) PROVE FALSE
    <3>1. shown' = [shown EXCEPT ![u] = NothingShown] \/ shown' = shown
      BY <2>1 DEF Rebuild
    <3> QED
      BY <1>0, <3>1
  <2>2. ~(NewTransport \/ Renegotiate \/ ControlOffers)
    BY <2>1 DEF NewTransport, Renegotiate, ControlOffers, FrameInv,
       PipelineTypeOK, ThreadsTyped, TickState, Control, viewerVars, IInv
  <2>3. shown' # shown
    OBVIOUS
  <2>4. ~ViewerStep
    BY <2>2, <2>3 DEF ViewerStep, AnnounceAlpha, AnnounceCutoff,
       AnnounceWaiting, WithdrawAlpha, RefreshWaiting, RefreshCutoff
  <2>5. Tick => DispatchPair
    BY <2>2, <2>3 DEF Tick, BeginTick, TakeSlot, AdmitFrame, FrameWithoutPlane,
       EncodeReturns, EncodeUntimed, EncodeYieldsNothing, RecoverEncoder,
       FallBackToH264, Collect, Collected, SendPlain, ResolvePrimary,
       SubmitColour, RejectPair, viewerVars
  <2>6. ~(AlphaThread \/ Capture \/ UNCHANGED vars)
    BY <2>3 DEF AlphaThread, TakeReconfigure, TakeJob, Reconfigure,
       DisableAlpha, EncodeAlpha, EncodeAlphaFails, PushAlpha, Capture,
       StartCapture, StopCapture, JoinEncode, JoinAlpha, ClearQueues,
       ShutEncoders, PeriodicKeyframe, vars, viewerVars
  <2>7. ~ControlThread
    BY <2>2, <2>3 DEF ControlThread, ControlReinit, ControlPrepare,
       ControlHandOver, ControlRejected, ControlBitrate, ControlRetire,
       ControlClear, ControlAlpha, ControlCommit, ControlFallback, viewerVars
  <2> QED
    BY <2>4, <2>5, <2>6, <2>7 DEF Next
<1> DEFINE w == viewer[v]
           pair == Head(tick.todo)
<1>2. /\ tick.pc = "pairs" /\ tick.todo # <<>> /\ SatisfiesContract(pair)
      /\ tick.flow /\ config.alpha
  BY <1>0, <1>1 DEF DispatchPair, FrameInv, PipelineTypeOK, ThreadsTyped, Shape
<1>3. PICK sent \in SUBSET AlphaViewers(pair) :
        shown' = [u \in Viewers |->
               IF u \in sent /\ Delivered(viewer[u], pair)
               THEN [enc |-> pair.primary.enc, key |-> pair.primary.key]
               ELSE shown[u]]
  BY <1>1 DEF DispatchPair
<1>4. /\ v \in AlphaViewers(pair) /\ Delivered(w, pair)
      /\ shown'[v] = [enc |-> pair.primary.enc, key |-> pair.primary.key]
  BY <1>3
<1>5. pair \in OwnPair /\ \E i \in 1..Len(tick.todo) : pair = tick.todo[i]
  <2>1. pair = tick.todo[1] /\ 1 \in 1..Len(tick.todo)
    BY <1>0, <1>2
  <2> QED
    BY <1>0, <2>1
<1> HIDE DEF pair
<1>6. SUFFICES ASSUME ~pair.primary.key, w.telling # "cutoff"
               PROVE  shown[v].enc # 0 /\ pair.primary.enc = shown[v].enc + 1
  BY <1>4
<1>7. w.last # 0 /\ pair.primary.enc = w.last + 1
  BY <1>2, <1>4, <1>6 DEF SatisfiesContract, Delivered, PreservesChain
<1>8. w.bound /\ ~w.waiting /\ Told(w)
  BY <1>4, <1>6 DEF Delivered, Eligible, CanStart, AlphaViewers, Told
<1>9. ~Settled(w)
  <2> SUFFICES ASSUME pair.primary \in Covered(w) PROVE FALSE
    BY <1>5 DEF Settled, Carried
  <2>1. pair.primary.seq <= w.cutoff
    BY <1>7 DEF Covered
  <2>2. pair.primary.seq \in Nat /\ w.cutoff \in Nat
    BY <1>0 DEF Covered, Own, Half, Packet, ViewerState
  <2>3. pair.primary.seq > w.cutoff
    BY <1>4 DEF Delivered, Eligible, NewerThan
  <2> QED
    BY <2>1, <2>2, <2>3
<1> QED
  BY <1>0, <1>2, <1>7, <1>8, <1>9 DEF ChainOf

\* On one transport, an H.264 colour frame that depends on its predecessor is
\* sent in a pair only right after that predecessor, for any viewers, delays,
\* losses, reconfigurations and new transports.
THEOREM ChainTheorem == Spec => ChainIsUnbroken
<1>1. Init => IInv
  BY IInvInitially
<1>2. IInv /\ [Next]_vars => IInv'
  BY IInvPreserved
<1>3. IInv /\ [Next]_vars =>
        [\A v \in Viewers :
           shown'[v] \notin {shown[v], NothingShown} =>
             \/ shown'[v].key
             \/ shown[v].enc # 0 /\ shown'[v].enc = shown[v].enc + 1
             \/ viewer[v].telling = "cutoff"]_shown
  BY ChainOfStep
<1> QED
  BY <1>1, <1>2, <1>3, PTL DEF Spec, ChainIsUnbroken
=============================================================================
