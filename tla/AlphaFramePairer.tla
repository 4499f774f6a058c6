-------------------------- MODULE AlphaFramePairer --------------------------
(***************************************************************************)
(* Correlation of the two halves of a transparent frame.  A frame is       *)
(* encoded twice, by the colour (primary) and by the alpha encoder; the    *)
(* admission tracker gives it an identity before either encoder sees it,   *)
(* and the pairer joins the two encoded halves by that identity.           *)
(*                                                                         *)
(* A packet is what an encoder produced together with the identity the     *)
(* tracker resolved for it: `ts` (the correlation timestamp), `gen` (the   *)
(* pipeline generation) and `seq` (the admission sequence).  `codec` is    *)
(* the codec of its bits, `key` says whether it is a keyframe, `enc` is    *)
(* its place in the output of the primary encoder, and `frame` is a        *)
(* history field naming the captured frame the bits show: no decision      *)
(* reads it.  Payloads and dimensions are abstracted: an encoder never     *)
(* returns an empty packet.                                                *)
(*                                                                         *)
(* Timestamps count from 0 to MaxTimestamp, the top of the signed 64-bit   *)
(* count of the code; NoTimestamp is its lowest value, which marks a       *)
(* missing time.                                                           *)
(***************************************************************************)
EXTENDS Integers, Sequences

CONSTANTS
  MaxEntries,      \* admissions the tracker remembers (256 in the code)
  MaxPending,      \* unmatched halves the pairer keeps per side (16)
  MaxCompleted,    \* identities it remembers as paired (64)
  TransportStep,   \* the smallest step of the transport clock (112)
  MaxTimestamp     \* where the clock saturates (2^63 - 1)

ASSUME PairerAssumption ==
  /\ MaxEntries \in Nat \ {0} /\ MaxPending \in Nat \ {0}
  /\ MaxCompleted \in Nat \ {0} /\ TransportStep \in Nat \ {0}
  /\ MaxTimestamp \in Nat /\ TransportStep < MaxTimestamp

VARIABLES
  entries,           \* the tracker: admissions not resolved for both sides
  latestAdmission,   \* the last admission handed out
  primaryPackets,    \* halves that wait for the other side, oldest first
  alphaPackets,
  completed,         \* completedIdentities_: identities paired, oldest first
  watermark,         \* retiredAdmissionSequenceWatermark_
  lastTransportPts,  \* the transport time of the last pair
  pairs              \* history: every pair made, in order

trackerVars == <<entries, latestAdmission>>
matchVars == <<primaryPackets, alphaPackets, completed, watermark,
               lastTransportPts, pairs>>
pairerVars == <<trackerVars, matchVars>>

NoTimestamp == -1
Timestamp == 0..MaxTimestamp
NoAdmission == [ts |-> NoTimestamp, gen |-> 0, seq |-> 0]
Admission == [ts : Timestamp, gen : Nat, seq : Nat \ {0}]
Codec == {"H264", "VP9"}
Packet == [ts : Timestamp \cup {NoTimestamp}, gen : Nat, seq : Nat,
           codec : Codec, key : BOOLEAN, enc : Nat, frame : Nat]

Valid(p) == p.ts # NoTimestamp /\ p.gen # 0 /\ p.seq # 0
Identity(p) == [ts |-> p.ts, gen |-> p.gen, seq |-> p.seq]
SameIdentity(p, q) == Identity(p) = Identity(q)

Larger(a, b) == IF a < b THEN b ELSE a

\* The sequence without its i-th element.
Without(s, i) == [j \in 1..(Len(s) - 1) |-> IF j < i THEN s[j] ELSE s[j + 1]]

\* A deque that holds at most n: a push beyond it drops the oldest.
Bounded(s, n) == IF Len(s) > n THEN Tail(s) ELSE s

PairerInit ==
  /\ entries = <<>> /\ latestAdmission = NoAdmission
  /\ primaryPackets = <<>> /\ alphaPackets = <<>>
  /\ completed = <<>> /\ watermark = 0
  /\ lastTransportPts = NoTimestamp /\ pairs = <<>>

---------------------------------------------------------------------------
(* The admission tracker.                                                  *)

\* The correlation time of a capture time: unique, even when captures repeat.
Correlated(ts) ==
  IF latestAdmission # NoAdmission /\ ts <= latestAdmission.ts
  THEN latestAdmission.ts + 1 ELSE ts

Rejected(ts, gen) ==
  \/ ts = NoTimestamp \/ gen = 0
  \/ Correlated(ts) > MaxTimestamp

\* What admit returns, an admission or the invalid one.
AdmissionOf(ts, gen) ==
  IF Rejected(ts, gen) THEN NoAdmission
  ELSE [ts |-> Correlated(ts), gen |-> gen, seq |-> latestAdmission.seq + 1]

Admit(ts, gen) ==
  /\ UNCHANGED matchVars
  /\ IF Rejected(ts, gen) THEN UNCHANGED trackerVars
     ELSE /\ latestAdmission' = AdmissionOf(ts, gen)
          /\ entries' = Bounded(Append(entries,
               [adm |-> AdmissionOf(ts, gen), primary |-> FALSE,
                alpha |-> FALSE]), MaxEntries)

\* The places of the tracker that answer for a time on one side.
Unresolved(ts, side) ==
  {i \in 1..Len(entries) : entries[i].adm.ts = ts /\ ~entries[i][side]}

\* The first of them, 0 if none.  There is at most one: correlation times are
\* unique (CorrelationUnique below).
Resolution(ts, side) ==
  IF Unresolved(ts, side) = {} THEN 0
  ELSE CHOOSE i \in Unresolved(ts, side) : TRUE

\* What resolve returns.
Resolved(ts, side) ==
  LET i == Resolution(ts, side) IN
  IF i = 0 THEN NoAdmission ELSE entries[i].adm

Other(side) == IF side = "primary" THEN "alpha" ELSE "primary"

\* An admission is resolved once per side and forgotten after both.
Resolve(ts, side) ==
  LET i == Resolution(ts, side) IN
  /\ UNCHANGED latestAdmission
  /\ entries' = CASE i = 0 -> entries
                  [] i # 0 /\ entries[i][Other(side)] -> Without(entries, i)
                  [] OTHER -> [entries EXCEPT ![i][side] = TRUE]

ClearPending == entries' = <<>> /\ UNCHANGED latestAdmission

---------------------------------------------------------------------------
(* The pairer.                                                             *)

Retired(p) ==
  \/ p.seq <= watermark
  \/ \E i \in 1..Len(completed) : completed[i] = Identity(p)

\* nextMonotonicVideoTransportPts: strictly later, until the clock saturates.
NextTransportPts(ts, last) ==
  IF last = NoTimestamp THEN ts
  ELSE IF last > MaxTimestamp - TransportStep THEN MaxTimestamp
  ELSE Larger(ts, last + TransportStep)

\* An unmatched half replaces its duplicate or queues behind the others;
\* what falls out of a full queue retires its admission sequence.
Queued(own, p) ==
  IF \E i \in 1..Len(own) : SameIdentity(own[i], p)
  THEN [i \in 1..Len(own) |-> IF SameIdentity(own[i], p) THEN p ELSE own[i]]
  ELSE Bounded(Append(own, p), MaxPending)

Overflows(own, p) ==
  /\ Len(own) = MaxPending
  /\ \A i \in 1..Len(own) : ~SameIdentity(own[i], p)

\* The pair of two halves, joined by their identity.
Joined(primary, alpha) ==
  [primary |-> primary, alpha |-> alpha,
   pts |-> NextTransportPts(primary.ts, lastTransportPts)]

Complete(pair) ==
  /\ lastTransportPts' = pair.pts
  /\ pairs' = Append(pairs, pair)
  /\ completed' = Bounded(Append(completed, Identity(pair.primary)),
                          MaxCompleted)
  /\ watermark' = IF Len(completed) = MaxCompleted
                  THEN Larger(watermark, completed[1].seq) ELSE watermark

Dropped(p) == ~Valid(p) \/ Retired(p)

\* Mutant of Matches: the halves of one pipeline generation go together.
MatchesMutant(opposite, p) ==
  {i \in 1..Len(opposite) : opposite[i].gen = p.gen}

\* The waiting halves that belong to a packet.
Matches(opposite, p) ==
  {i \in 1..Len(opposite) : SameIdentity(opposite[i], p)}

SubmitPrimary(p) ==
  /\ UNCHANGED trackerVars
  /\ \/ /\ Dropped(p)
        /\ UNCHANGED matchVars
     \/ /\ ~Dropped(p)
        /\ Matches(alphaPackets, p) = {}
        /\ primaryPackets' = Queued(primaryPackets, p)
        /\ watermark' = IF Overflows(primaryPackets, p)
                        THEN Larger(watermark, primaryPackets[1].seq)
                        ELSE watermark
        /\ UNCHANGED <<alphaPackets, completed, lastTransportPts, pairs>>
     \/ /\ ~Dropped(p)
        /\ \E i \in Matches(alphaPackets, p) :
             /\ alphaPackets' = Without(alphaPackets, i)
             /\ Complete(Joined(p, alphaPackets[i]))
        /\ UNCHANGED primaryPackets

SubmitAlpha(p) ==
  /\ UNCHANGED trackerVars
  /\ \/ /\ Dropped(p)
        /\ UNCHANGED matchVars
     \/ /\ ~Dropped(p)
        /\ Matches(primaryPackets, p) = {}
        /\ alphaPackets' = Queued(alphaPackets, p)
        /\ watermark' = IF Overflows(alphaPackets, p)
                        THEN Larger(watermark, alphaPackets[1].seq)
                        ELSE watermark
        /\ UNCHANGED <<primaryPackets, completed, lastTransportPts, pairs>>
     \/ /\ ~Dropped(p)
        /\ \E i \in Matches(primaryPackets, p) :
             /\ primaryPackets' = Without(primaryPackets, i)
             /\ Complete(Joined(primaryPackets[i], p))
        /\ UNCHANGED alphaPackets

\* clear: everything pending or paired is retired by raising the watermark to
\* the largest sequence among it.
Known == {primaryPackets[i].seq : i \in 1..Len(primaryPackets)}
           \cup {alphaPackets[i].seq : i \in 1..Len(alphaPackets)}
           \cup {completed[i].seq : i \in 1..Len(completed)}

ClearPairer ==
  /\ watermark' \in Known \cup {watermark}
  /\ \A s \in Known \cup {watermark} : s <= watermark'
  /\ primaryPackets' = <<>> /\ alphaPackets' = <<>> /\ completed' = <<>>
  /\ UNCHANGED <<lastTransportPts, pairs>>

---------------------------------------------------------------------------
(* What the send path asks of a pair.                                      *)

ExactPair(pair) ==
  /\ SameIdentity(pair.primary, pair.alpha)
  /\ Valid(pair.primary) /\ pair.pts # NoTimestamp

\* A viewer that starts needs both halves to be keyframes.
CanStart(pair) == ExactPair(pair) /\ pair.primary.key /\ pair.alpha.key

\* Every alpha frame is a keyframe of VP9; so is a VP9 colour frame.
SatisfiesContract(pair) ==
  /\ ExactPair(pair) /\ pair.alpha.codec = "VP9" /\ pair.alpha.key
  /\ pair.primary.codec = "H264" \/ pair.primary.key

\* A dependent H.264 frame needs the frame encoded just before it.
PreservesChain(pair, last) ==
  \/ pair.primary.codec # "H264" \/ pair.primary.key
  \/ last # 0 /\ pair.primary.enc = last + 1

NewerThan(pair, cutoff) == ExactPair(pair) /\ pair.primary.seq > cutoff

---------------------------------------------------------------------------
(* The component on its own: packets of any identity, submitted in any     *)
(* order and any number of times.                                          *)

PairerNext ==
  \/ \E ts \in Timestamp \cup {NoTimestamp}, gen \in Nat : Admit(ts, gen)
  \/ \E ts \in Timestamp, side \in {"primary", "alpha"} :
       Resolve(ts, side) /\ UNCHANGED matchVars
  \/ ClearPending /\ UNCHANGED matchVars
  \/ \E p \in Packet : SubmitPrimary(p) \/ SubmitAlpha(p)
  \/ ClearPairer /\ UNCHANGED trackerVars

PairerSpec == PairerInit /\ [][PairerNext]_pairerVars

---------------------------------------------------------------------------
(* What the component promises.                                            *)

\* The halves of a pair have one identity, and no identity is paired twice,
\* however the halves arrive and whatever the bounded queues forgot.
PairedOnce ==
  /\ \A i \in 1..Len(pairs) : ExactPair(pairs[i])
  /\ \A i, j \in 1..Len(pairs) :
       SameIdentity(pairs[i].primary, pairs[j].primary) => i = j

\* The transport clock of the pairs runs strictly forwards until it reaches
\* the largest time, where it stays.
ClockAdvances ==
  \A i, j \in 1..Len(pairs) :
    i < j => pairs[i].pts < pairs[j].pts \/ pairs[j].pts = MaxTimestamp

\* The admissions an encoder's answer may refer to have distinct correlation
\* times, even when capture times repeat.
CorrelationUnique ==
  /\ \A i, j \in 1..Len(entries) :
       i < j => entries[i].adm.ts < entries[j].adm.ts
  /\ \A i \in 1..Len(entries) : entries[i].adm.ts <= latestAdmission.ts

\* Neither side keeps more than its bound.
QueuesBounded ==
  /\ Len(entries) <= MaxEntries /\ Len(completed) <= MaxCompleted
  /\ Len(primaryPackets) <= MaxPending /\ Len(alphaPackets) <= MaxPending

\* Halves are paired by identity, at most once, on a clock that advances,
\* within the bounds (ExactAlphaFramePairer: "packets are moved out exactly
\* once; an unmatched half is never reused for another source frame").
PairsExact ==
  PairedOnce /\ ClockAdvances /\ CorrelationUnique /\ QueuesBounded

Half == {p \in Packet : Valid(p)}
Pair == [primary : Half, alpha : Half, pts : Timestamp]
Entry == [adm : Admission, primary : BOOLEAN, alpha : BOOLEAN]

PairerTypeOK ==
  /\ entries \in Seq(Entry)
  /\ latestAdmission \in Admission \cup {NoAdmission}
  /\ primaryPackets \in Seq(Half) /\ alphaPackets \in Seq(Half)
  /\ completed \in Seq(Admission) /\ watermark \in Nat
  /\ lastTransportPts \in Timestamp \cup {NoTimestamp}
  /\ pairs \in Seq(Pair)
=============================================================================
