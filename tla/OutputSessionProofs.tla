------------------------- MODULE OutputSessionProofs -------------------------
(***************************************************************************)
(* Proofs about the external output, for every bound of the queue, every   *)
(* length of audio and silence, and any number of packets and faults.      *)
(*                                                                         *)
(* StreamIsWhole is not inductive.  What keeps it is a fact about the queue*)
(* alone, however often it was emptied: its video is a run without gaps    *)
(* that ends at the last packet pushed (RunInv).  A connection that has    *)
(* begun owns the rest of the run from what it sent last, unless a push    *)
(* that emptied the queue has asked for a restart (FollowsInv); the request*)
(* is withdrawn only where no connection has sent anything (StreamInv).    *)
(***************************************************************************)
EXTENDS OutputSession, SequenceTheorems, WellFoundedInduction, TLAPS

Pc == {"none", "loop", "arm", "negotiate", "clearWhip", "armWhip", "goLive",
       "keyframe", "startMux", "send", "deliver", "retry", "pause", "error",
       "errorClears", "finish", "ended"}
State == {"Stopped", "Connecting", "Reconnecting", "Live", "Error"}

\* Video packets are numbered from 1.
Media == {p \in [kind : {"video", "audio"}, pts : Nat, key : BOOLEAN, size : Nat] :
            p.kind = "video" => p.pts # 0}
Packet == Media \cup {None}

WorkerState == [pc : Pc, packet : Packet, initial : Seq(Media), size : Nat,
                audioEnd : Int, silence : Int, keyed : BOOLEAN,
                retried : BOOLEAN, fresh : BOOLEAN]
Stream == [video : Nat, key : BOOLEAN, audio : BOOLEAN, from : Int,
           heard : Int, silent : Int]

Typed ==
  /\ protocol \in {"whip", "mux"}
  /\ stopping \in BOOLEAN /\ restartRequested \in BOOLEAN
  /\ queue \in Seq(Media)
  /\ state \in State
  /\ owner \in {"new", "started", "joining", "stopped"}
  /\ offered \in [{"video", "audio"} -> Packet]
  /\ clock \in Nat /\ audioClock \in Nat
  /\ worker \in WorkerState /\ stream \in Stream
  /\ faults \in Nat

\* What the places of the worker say of the protocol and of the state.
PlaceInv ==
  /\ owner = "new" => At("none") /\ state = "Stopped"
  /\ state = "Error" => worker.pc \in {"errorClears", "ended"}
  /\ protocol = "whip" => worker.pc \notin {"keyframe", "startMux"}
  /\ protocol = "mux" =>
       worker.pc \notin {"negotiate", "clearWhip", "armWhip", "goLive"}

\* A push in progress has the newest packet of its kind.
OfferInv ==
  /\ offered["video"] # None =>
       offered["video"].kind = "video" /\ offered["video"].pts = clock
  /\ offered["audio"] # None => offered["audio"].kind = "audio"

\* The last video packet whose push has come to an end.
Pushed == IF offered["video"] = None THEN clock ELSE clock - 1

Ordered(q) ==
  \A i, j \in 1..Len(q) :
    i < j /\ q[i].kind = "video" /\ q[j].kind = "video" => q[i].pts < q[j].pts

\* No video packet from a to b is missing.
Through(q, a, b) ==
  \A n \in a..b : \E i \in 1..Len(q) : q[i].kind = "video" /\ q[i].pts = n

Run(q, top) ==
  /\ Ordered(q)
  /\ \A i \in 1..Len(q) : q[i].kind = "video" =>
       q[i].pts <= top /\ Through(q, q[i].pts + 1, top)

RunInv == state # "Error" => Run(queue, Pushed)

\* The video packet the worker has in hand.
HasVideo == At("startMux") \/ (At("deliver") /\ worker.packet.kind = "video")

Before == {"negotiate", "clearWhip", "armWhip", "goLive", "keyframe", "startMux"}
Connected == {"startMux", "send", "deliver"}

\* An attempt begins with nothing sent; a video packet in hand is the next one.
StreamInv ==
  /\ worker.pc \in Before => stream = NothingSent /\ ~worker.keyed
  /\ worker.pc \in {"send", "deliver"} =>
       /\ worker.keyed <=> stream.video # 0
       /\ protocol = "mux" => worker.keyed
  /\ At("startMux") => worker.packet.kind = "video" /\ worker.packet.key
  /\ At("startMux") \/ At("deliver") => worker.packet # None
  /\ At("deliver") /\ worker.packet.kind = "video" /\ stream.video # 0 =>
       worker.packet.pts = stream.video + 1

Last == IF HasVideo THEN worker.packet.pts ELSE stream.video

\* The queue holds what comes after the last packet sent or taken, all of it
\* unless a restart is due.
FollowsInv ==
  worker.pc \in Connected /\ Last # 0 =>
    /\ Last <= Pushed
    /\ \A i \in 1..Len(queue) : queue[i].kind = "video" => Last < queue[i].pts
    /\ ~restartRequested => Through(queue, Last + 1, Pushed)

\* The worker's two marks are not behind what was written.
AudioInv ==
  worker.pc \in {"send", "deliver"} /\ protocol = "mux" =>
    /\ stream.heard <= worker.audioEnd
    /\ stream.silent <= worker.silence /\ stream.silent <= stream.video

IInv == Typed /\ PlaceInv /\ OfferInv /\ RunInv /\ StreamInv /\ FollowsInv /\ AudioInv

---------------------------------------------------------------------------
(* The operators of the model.                                             *)

\* Of two numbers the larger.
LEMMA MaxOfTwo ==
  ASSUME NEW a \in Int, NEW b \in Int
  PROVE  /\ Max({a, b}) \in {a, b}
         /\ Max({a, b}) >= a /\ Max({a, b}) >= b
<1> DEFINE top == IF a >= b THEN a ELSE b
<1>1. top \in {a, b} /\ \A y \in {a, b} : top >= y
  OBVIOUS
<1>2. \E x \in {a, b} : \A y \in {a, b} : x >= y
  BY <1>1
<1>3. Max({a, b}) \in {a, b} /\ \A y \in {a, b} : Max({a, b}) >= y
  BY <1>2 DEF Max
<1> QED
  BY <1>3

\* Of two natural numbers the smaller is one of them.
LEMMA MinOfTwo ==
  ASSUME NEW a \in Nat, NEW b \in Nat
  PROVE  Min({a, b}) \in {a, b}
<1> DEFINE low == IF a <= b THEN a ELSE b
<1>1. low \in {a, b} /\ \A y \in {a, b} : low <= y
  OBVIOUS
<1>2. \E x \in {a, b} : \A y \in {a, b} : x <= y
  BY <1>1
<1> QED
  BY <1>2 DEF Min

\* A set of natural numbers that is not empty has a smallest element.
LEMMA MinOfMany ==
  ASSUME NEW S \in SUBSET Nat, S # {}
  PROVE  Min(S) \in S
<1>1. PICK x \in S : \A y \in S : ~(<<y, x>> \in OpToRel(<, Nat))
  BY NatLessThanWellFounded, WFMin, Zenon
<1>0. \A y \in S : ~(y < x)
  BY <1>1, Zenon DEF OpToRel
<1>2. \A y \in S : x <= y
  BY <1>0
<1>3. \E z \in S : \A y \in S : z <= y
  BY <1>2
<1> QED
  BY <1>3 DEF Min

\* What is left of the audio is audio that was there.
LEMMA RecentType ==
  ASSUME NEW audio \in Seq(Media), NEW t \in Nat
  PROVE  Recent(audio, t) \in Seq(Media)
<1> DEFINE S == {i \in 1..Len(audio) + 1 :
                   i \in DOMAIN audio => audio[i].pts + CatchUp >= t}
           start == Min(S)
<1>1. S \in SUBSET Nat
  OBVIOUS
<1>2. Len(audio) + 1 \in S
  OBVIOUS
<1>3. start \in S
  BY <1>1, <1>2, MinOfMany
<1>4. start \in 1..Len(audio) + 1
  BY <1>3
<1>6. \A i \in start..Len(audio) : audio[i] \in Media
  BY <1>4
<1>5. SubSeq(audio, start, Len(audio)) \in Seq(Media)
  BY <1>4, <1>6, SubSeqProperties
<1> QED
  BY <1>5 DEF Recent

\* Taking the head off a run leaves a run, and leaves out no video but the head.
LEMMA TailOfRun ==
  ASSUME NEW q \in Seq(Media), q # <<>>, NEW top \in Nat, Run(q, top)
  PROVE  /\ Run(Tail(q), top)
         /\ \A i \in 1..Len(Tail(q)) : Tail(q)[i] = q[i + 1] /\ i + 1 \in 1..Len(q)
         /\ \A a \in Nat : Through(q, a, top) =>
              \/ Head(q).kind = "video" /\ Head(q).pts >= a
              \/ Through(Tail(q), a, top)
<1>1. /\ Tail(q) \in Seq(Media) /\ Len(Tail(q)) = Len(q) - 1 /\ Len(q) \in Nat \ {0}
      /\ \A i \in 1..Len(Tail(q)) : Tail(q)[i] = q[i + 1]
      /\ Head(q) = q[1]
  OBVIOUS
<1>2. \A i \in 1..Len(q) : q[i] \in Media
  OBVIOUS
<1>3. \A i \in 1..Len(Tail(q)) : Tail(q)[i] = q[i + 1] /\ i + 1 \in 1..Len(q)
  BY <1>1
<1>4. \A i \in 2..Len(q) : i - 1 \in 1..Len(Tail(q)) /\ Tail(q)[i - 1] = q[i]
  BY <1>1
<1>5. ASSUME NEW a \in Nat, Through(q, a, top),
             ~(Head(q).kind = "video" /\ Head(q).pts >= a)
      PROVE  Through(Tail(q), a, top)
  <2>1. SUFFICES ASSUME NEW n \in a..top
                 PROVE  \E i \in 1..Len(Tail(q)) :
                          Tail(q)[i].kind = "video" /\ Tail(q)[i].pts = n
    BY DEF Through
  <2>2. PICK i \in 1..Len(q) : q[i].kind = "video" /\ q[i].pts = n
    BY <1>5 DEF Through
  <2>3. i # 1
    BY <2>2, <1>5, <1>1
  <2> QED
    BY <1>4, <2>2, <2>3
<1>6. Ordered(Tail(q))
  BY <1>1, <1>3 DEF Ordered, Run
<1>7. ASSUME NEW i \in 1..Len(Tail(q)), Tail(q)[i].kind = "video"
      PROVE  Tail(q)[i].pts <= top /\ Through(Tail(q), Tail(q)[i].pts + 1, top)
  <2> DEFINE v == Tail(q)[i].pts
  <2>1. v = q[i + 1].pts /\ i + 1 \in 1..Len(q) /\ q[i + 1].kind = "video"
        /\ v \in Nat
    BY <1>2, <1>3, <1>7 DEF Media
  <2>2. v <= top /\ Through(q, v + 1, top)
    BY <2>1 DEF Run
  <2>3. ~(Head(q).kind = "video" /\ Head(q).pts >= v + 1)
    <3>1. Head(q).kind = "video" => Head(q).pts < v
      BY <2>1, <1>1 DEF Run, Ordered
    <3> QED
      BY <3>1, <2>1, <1>1, <1>2 DEF Media
  <2> QED
    BY <2>1, <2>2, <2>3, <1>5
<1> QED
  BY <1>3, <1>5, <1>6, <1>7 DEF Run

\* Video after a packet that the head is not, is after the head as well.
LEMMA HeadIsNext ==
  ASSUME NEW q \in Seq(Media), q # <<>>, NEW top \in Nat, Run(q, top),
         Head(q).kind = "video"
  PROVE  /\ Head(q).pts \in Nat \ {0} /\ Head(q).pts <= top
         /\ \A i \in 1..Len(Tail(q)) : Tail(q)[i].kind = "video" =>
              Head(q).pts < Tail(q)[i].pts
         /\ Through(Tail(q), Head(q).pts + 1, top)
         /\ \A last \in Nat :
              /\ \A i \in 1..Len(q) : q[i].kind = "video" => last < q[i].pts
              /\ Through(q, last + 1, top)
              => Head(q).pts = last + 1
<1>1. Len(q) \in Nat \ {0} /\ Head(q) = q[1] /\ q[1] \in Media
  OBVIOUS
<1>2. Head(q).pts \in Nat \ {0}
  BY <1>1 DEF Media
<1>3. Head(q).pts <= top /\ Through(q, Head(q).pts + 1, top)
  BY <1>1 DEF Run
<1>4. Through(Tail(q), Head(q).pts + 1, top)
  BY <1>2, <1>3, TailOfRun
<1>5. \A i \in 1..Len(Tail(q)) : Tail(q)[i].kind = "video" =>
        Head(q).pts < Tail(q)[i].pts
  BY <1>1, TailOfRun DEF Run, Ordered
<1>6. ASSUME NEW last \in Nat, Through(q, last + 1, top),
             \A i \in 1..Len(q) : q[i].kind = "video" => last < q[i].pts
      PROVE  Head(q).pts = last + 1
  <2>1. last + 1 \in last + 1..top
    BY <1>1, <1>2, <1>3, <1>6
  <2>2. PICK i \in 1..Len(q) : q[i].kind = "video" /\ q[i].pts = last + 1
    BY <2>1, <1>6 DEF Through
  <2>3. i # 1 => Head(q).pts < last + 1
    BY <2>2, <1>1 DEF Run, Ordered
  <2>4. last < Head(q).pts
    BY <1>1, <1>6
  <2> QED
    BY <2>2, <2>3, <2>4, <1>1, <1>2
<1> QED
  BY <1>2, <1>3, <1>4, <1>5, <1>6

\* A push of the next video packet, or of audio, continues a run.
LEMMA AppendToRun ==
  ASSUME NEW q \in Seq(Media), NEW p \in Media, NEW top \in Nat, Run(q, top),
         p.kind = "video" => p.pts = top + 1
  PROVE  LET to == IF p.kind = "video" THEN top + 1 ELSE top IN
         /\ Run(Append(q, p), to)
         /\ \A a \in Nat : Through(q, a, top) => Through(Append(q, p), a, to)
         /\ \A i \in 1..Len(Append(q, p)) :
              \/ i \in 1..Len(q) /\ Append(q, p)[i] = q[i]
              \/ Append(q, p)[i] = p
<1> DEFINE to == IF p.kind = "video" THEN top + 1 ELSE top
           r == Append(q, p)
<1>1. /\ r \in Seq(Media) /\ Len(r) = Len(q) + 1 /\ Len(q) \in Nat
      /\ \A i \in 1..Len(q) : r[i] = q[i] /\ i \in 1..Len(r)
      /\ r[Len(r)] = p
  OBVIOUS
<1>2. \A i \in 1..Len(q) : q[i] \in Media
  OBVIOUS
<1>3. \A i \in 1..Len(r) : i \in 1..Len(q) \/ i = Len(r)
  BY <1>1
<1>4. ASSUME NEW a \in Nat, Through(q, a, top)
      PROVE  Through(r, a, to)
  <2>1. SUFFICES ASSUME NEW n \in a..to
                 PROVE  \E i \in 1..Len(r) : r[i].kind = "video" /\ r[i].pts = n
    BY DEF Through
  <2>2. CASE n = top + 1
    <3>1. p.kind = "video" /\ p.pts = n
      BY <2>2
    <3> QED
      BY <3>1, <1>1
  <2>3. CASE n # top + 1
    <3>1. n \in a..top
      BY <2>3
    <3>2. PICK i \in 1..Len(q) : q[i].kind = "video" /\ q[i].pts = n
      BY <3>1, <1>4 DEF Through
    <3> QED
      BY <3>2, <1>1
  <2> QED
    BY <2>2, <2>3
<1>5. Ordered(r)
  <2>1. SUFFICES ASSUME NEW i \in 1..Len(r), NEW j \in 1..Len(r), i < j,
                        r[i].kind = "video", r[j].kind = "video"
                 PROVE  r[i].pts < r[j].pts
    BY DEF Ordered
  <2>2. i \in 1..Len(q) /\ r[i] = q[i]
    BY <2>1, <1>1
  <2>5. q[i].pts <= top /\ q[i].pts \in Nat
    BY <2>1, <2>2, <1>2, <1>3 DEF Run, Media
  <2>3. CASE j = Len(r)
    BY <2>1, <2>2, <2>5, <2>3, <1>1
  <2>4. CASE j \in 1..Len(q)
    BY <2>1, <2>2, <2>4, <1>1 DEF Run, Ordered
  <2> QED
    BY <2>3, <2>4, <1>3
<1>6. ASSUME NEW i \in 1..Len(r), r[i].kind = "video"
      PROVE  r[i].pts <= to /\ Through(r, r[i].pts + 1, to)
  <2>1. CASE i \in 1..Len(q)
    <3>1. r[i] = q[i] /\ q[i].pts \in Nat
      BY <2>1, <1>1, <1>2 DEF Media
    <3>2. q[i].pts <= top /\ Through(q, q[i].pts + 1, top)
      BY <3>1, <2>1, <1>6 DEF Run
    <3> QED
      BY <3>1, <3>2, <1>4
  <2>2. CASE i = Len(r)
    <3>1. r[i].pts = to /\ to \in Nat
      BY <2>2, <1>1, <1>6
    <3> QED
      BY <3>1 DEF Through
  <2> QED
    BY <2>1, <2>2, <1>3
<1> QED
  BY <1>1, <1>3, <1>4, <1>5, <1>6 DEF Run

\* A queue that was emptied is a run.
LEMMA EmptyRun ==
  ASSUME NEW top
  PROVE  Run(<<>>, top)
  BY DEF Run, Ordered

---------------------------------------------------------------------------
(* Types.                                                                  *)

\* No packet is none of those that are pushed.
LEMMA NonePacket == None \notin Media /\ \A p \in Media : p # None
  BY DEF None, Media

\* The types hold at first.
LEMMA TypedInit == Init => Typed
<1> SUFFICES ASSUME Init PROVE Typed
  OBVIOUS
<1>1. IdleWorker \in WorkerState
  BY DEF IdleWorker, WorkerState, Pc, Packet
<1>2. NothingSent \in Stream
  BY DEF NothingSent, Stream
<1>3. offered \in [{"video", "audio"} -> Packet]
  BY DEF Init, Packet
<1>4. queue \in Seq(Media)
  BY DEF Init
<1>5. stopping \in BOOLEAN /\ restartRequested \in BOOLEAN
  BY DEF Init
<1> QED
  BY <1>1, <1>2, <1>3, <1>4, <1>5 DEF Init, Typed, State

\* The fields of a packet, or of none.
LEMMA PacketFields ==
  ASSUME NEW p \in Packet
  PROVE  p.pts \in Nat /\ p.key \in BOOLEAN /\ p.size \in Nat
<1>1. CASE p \in Media
  BY <1>1 DEF Media
<1>2. CASE p = None
  BY <1>2 DEF None
<1> QED
  BY <1>1, <1>2 DEF Packet

\* A record of the worker, field by field.
IsWorker(w) ==
  /\ w = [x \in DOMAIN w |-> w[x]]
  /\ DOMAIN w = {"pc", "packet", "initial", "size", "audioEnd", "silence",
                 "keyed", "retried", "fresh"}
  /\ w.pc \in Pc /\ w.packet \in Packet /\ w.initial \in Seq(Media)
  /\ w.size \in Nat /\ w.audioEnd \in Int /\ w.silence \in Int
  /\ w.keyed \in BOOLEAN /\ w.retried \in BOOLEAN /\ w.fresh \in BOOLEAN

IsStream(s) ==
  /\ s = [x \in DOMAIN s |-> s[x]]
  /\ DOMAIN s = {"video", "key", "audio", "from", "heard", "silent"}
  /\ s.video \in Nat /\ s.key \in BOOLEAN /\ s.audio \in BOOLEAN
  /\ s.from \in Int /\ s.heard \in Int /\ s.silent \in Int

\* Field by field and as a record are the same.
LEMMA WorkerFields ==
  ASSUME NEW w, IsWorker(w)
  PROVE  w \in WorkerState
<1>1. w = [pc |-> w.pc, packet |-> w.packet, initial |-> w.initial,
           size |-> w.size, audioEnd |-> w.audioEnd, silence |-> w.silence,
           keyed |-> w.keyed, retried |-> w.retried, fresh |-> w.fresh]
  BY DEF IsWorker
<1> DEFINE a == w.pc         b == w.packet    c == w.initial
           d == w.size       e == w.audioEnd  f == w.silence
           g == w.keyed      h == w.retried   i == w.fresh
<1>2. /\ a \in Pc /\ b \in Packet /\ c \in Seq(Media)
      /\ d \in Nat /\ e \in Int /\ f \in Int
      /\ g \in BOOLEAN /\ h \in BOOLEAN /\ i \in BOOLEAN
  BY DEF IsWorker
<1>3. w = [pc |-> a, packet |-> b, initial |-> c, size |-> d, audioEnd |-> e,
           silence |-> f, keyed |-> g, retried |-> h, fresh |-> i]
  BY <1>1
<1> HIDE DEF a, b, c, d, e, f, g, h, i
<1>4. [pc |-> a, packet |-> b, initial |-> c, size |-> d, audioEnd |-> e,
       silence |-> f, keyed |-> g, retried |-> h, fresh |-> i] \in WorkerState
  BY <1>2 DEF WorkerState
<1> QED
  BY <1>3, <1>4

\* The same of what a connection received.
LEMMA StreamFields ==
  ASSUME NEW s, IsStream(s)
  PROVE  s \in Stream
<1>1. s = [video |-> s.video, key |-> s.key, audio |-> s.audio,
           from |-> s.from, heard |-> s.heard, silent |-> s.silent]
  BY DEF IsStream
<1>2. ASSUME NEW a \in Nat, NEW b \in BOOLEAN, NEW c \in BOOLEAN, NEW d \in Int,
             NEW e \in Int, NEW f \in Int
      PROVE  [video |-> a, key |-> b, audio |-> c, from |-> d, heard |-> e,
              silent |-> f] \in Stream
  BY DEF Stream
<1>3. [video |-> s.video, key |-> s.key, audio |-> s.audio,
       from |-> s.from, heard |-> s.heard, silent |-> s.silent] \in Stream
  BY <1>2, Zenon DEF IsStream
<1> QED
  BY <1>1, <1>3

\* What StartMux leaves: the keyframe sent, and the marks of the audio.
LEMMA StartMuxLeaves ==
  ASSUME Typed, StartMux
  PROVE  /\ worker' \in WorkerState /\ stream' \in Stream
         /\ stream'.video = worker.packet.pts /\ stream'.key /\ worker'.keyed
         /\ stream'.silent = 0 /\ ~stream'.audio
         /\ stream'.heard <= worker'.audioEnd /\ worker'.silence >= 0
<1> DEFINE first == worker.packet
           kept == Recent(worker.initial, first.pts)
           end == IF kept = <<>> THEN first.pts
                  ELSE kept[Len(kept)].pts + AudioLength
           epoch == IF kept = <<>> THEN first.pts
                    ELSE Min({first.pts, kept[1].pts})
<1>1. first.pts \in Nat /\ first.size \in Nat
  BY DEF Typed, WorkerState, Packet, Media, None
<1>2. kept \in Seq(Media)
  BY <1>1, RecentType DEF Typed, WorkerState
<1> HIDE DEF kept
<1>3. kept # <<>> => kept[Len(kept)] \in Media /\ kept[1] \in Media
  BY <1>2
<1>4. end \in Nat
  BY <1>1, <1>3, OutputAssumption DEF Media
<1>5. kept # <<>> => Min({first.pts, kept[1].pts}) \in Nat
  BY <1>1, <1>3, MinOfTwo DEF Media
<1>6. epoch \in Nat
  BY <1>1, <1>5
<1> HIDE DEF end, epoch
<1>7. /\ worker' = [worker EXCEPT !.pc = "send", !.packet = None, !.keyed = TRUE,
                      !.initial = <<>>, !.size = first.size,
                      !.audioEnd = end, !.silence = epoch]
      /\ \E h \in {0, end} :
           stream' = [NothingSent EXCEPT !.video = first.pts, !.key = TRUE,
                        !.heard = h]
  BY DEF StartMux, kept, end, epoch
<1>8. IsWorker(worker')
  <2>1. /\ worker'.pc = "send" /\ worker'.packet = None /\ worker'.keyed = TRUE
        /\ worker'.initial = <<>> /\ worker'.size = first.size
        /\ worker'.audioEnd = end /\ worker'.silence = epoch
        /\ worker'.retried = worker.retried /\ worker'.fresh = worker.fresh
    BY <1>7 DEF Typed, WorkerState
  <2>2. /\ worker' = [x \in DOMAIN worker' |-> worker'[x]]
        /\ DOMAIN worker' = {"pc", "packet", "initial", "size", "audioEnd",
                             "silence", "keyed", "retried", "fresh"}
    BY <1>7 DEF Typed, WorkerState
  <2>3. worker.retried \in BOOLEAN /\ worker.fresh \in BOOLEAN
    BY DEF Typed, WorkerState
  <2>4. worker'.pc \in Pc /\ worker'.packet \in Packet
    BY <2>1 DEF Pc, Packet
  <2>5. worker'.initial \in Seq(Media)
    BY <2>1
  <2>6. worker'.size \in Nat /\ worker'.audioEnd \in Int /\ worker'.silence \in Int
    BY <1>1, <1>4, <1>6, <2>1
  <2>7. /\ worker'.keyed \in BOOLEAN /\ worker'.retried \in BOOLEAN
        /\ worker'.fresh \in BOOLEAN
    BY <2>1, <2>3, Zenon
  <2> QED
    BY <2>2, <2>4, <2>5, <2>6, <2>7, Zenon DEF IsWorker
<1>9. IsStream(stream')
  <2>1. /\ stream'.video = first.pts /\ stream'.key = TRUE
        /\ stream'.audio = FALSE /\ stream'.from = 0 /\ stream'.silent = 0
        /\ stream'.heard \in {0, end}
    BY <1>7 DEF NothingSent
  <2>2. /\ stream' = [x \in DOMAIN stream' |-> stream'[x]]
        /\ DOMAIN stream' = {"video", "key", "audio", "from", "heard", "silent"}
    BY <1>7 DEF NothingSent
  <2>3. /\ stream'.video \in Nat /\ stream'.from \in Int
        /\ stream'.heard \in Int /\ stream'.silent \in Int
    BY <1>1, <1>4, <2>1
  <2>4. stream'.key \in BOOLEAN /\ stream'.audio \in BOOLEAN
    BY <2>1, Zenon
  <2> QED
    BY <2>2, <2>3, <2>4, Zenon DEF IsStream
<1>10. worker'.keyed /\ worker'.audioEnd = end /\ worker'.silence = epoch
  BY <1>7 DEF Typed, WorkerState
<1>11. /\ stream'.video = first.pts /\ stream'.key /\ stream'.silent = 0
       /\ ~stream'.audio /\ stream'.heard \in {0, end}
  BY <1>7 DEF NothingSent
<1> QED
  BY <1>4, <1>6, <1>8, <1>9, <1>10, <1>11, WorkerFields, StreamFields

\* Silence begins after the audio written.
LEMMA SilenceFromType ==
  ASSUME Typed, NEW t \in Nat
  PROVE  SilenceFrom(t) \in Int /\ SilenceFrom(t) >= worker.audioEnd
<1>1. worker.audioEnd \in Int /\ t - CatchUp \in Int
  BY OutputAssumption DEF Typed, WorkerState
<1> QED
  BY <1>1, MaxOfTwo DEF SilenceFrom

\* Audio is written from where silence ends, at the earliest.
LEMMA AudioFromType ==
  ASSUME Typed, NEW p, p.pts \in Nat
  PROVE  AudioFrom(p) \in Int /\ AudioFrom(p) >= worker.silence
<1>1. worker.silence \in Int /\ p.pts \in Int
  BY DEF Typed, WorkerState
<1>2. /\ Max({p.pts, worker.silence}) \in {p.pts, worker.silence}
      /\ Max({p.pts, worker.silence}) >= worker.silence
  BY <1>1, MaxOfTwo, Zenon
<1> QED
  BY <1>1, <1>2 DEF AudioFrom

\* Every step keeps the types.
LEMMA TypedKeeps == Typed /\ StreamInv /\ [Next]_vars => Typed'
<1> SUFFICES ASSUME Typed, StreamInv, [Next]_vars PROVE Typed'
  OBVIOUS
<1>1. CASE Start
  BY <1>1 DEF Typed, Goto, Start, capture, WorkerState, Pc, State
<1>2. CASE Stop
  BY <1>2 DEF Typed, Stop, capture
<1>3. CASE Join
  BY <1>3 DEF Typed, At, Join, capture
<1>4. CASE OfferVideo
  <2>1. PICK key \in BOOLEAN, size \in {1, 2} :
          offered' = [offered EXCEPT !["video"] =
            [kind |-> "video", pts |-> clock', key |-> key, size |-> size]]
    BY <1>4 DEF OfferVideo
  <2>2. clock' \in Nat /\ clock' # 0
    BY <1>4 DEF OfferVideo, Typed
  <2>3. [kind |-> "video", pts |-> clock', key |-> key, size |-> size] \in Packet
    BY <2>2 DEF Packet, Media
  <2>4. offered' \in [{"video", "audio"} -> Packet]
    BY <2>1, <2>3 DEF Typed
  <2> QED
    BY <1>4, <2>2, <2>4 DEF OfferVideo, Typed
<1>5. CASE OfferAudio
  <2>1. PICK pts \in audioClock..clock :
          /\ offered' = [offered EXCEPT !["audio"] =
               [None EXCEPT !.kind = "audio", !.pts = pts]]
          /\ audioClock' = pts + AudioLength
    BY <1>5 DEF OfferAudio
  <2>2. pts \in Nat /\ audioClock' \in Nat
    BY <2>1, OutputAssumption DEF Typed
  <2>3. [None EXCEPT !.kind = "audio", !.pts = pts] \in Packet
    BY <2>2 DEF Packet, Media, None
  <2>4. offered' \in [{"video", "audio"} -> Packet]
    BY <2>1, <2>3 DEF Typed
  <2> QED
    BY <1>5, <2>2, <2>4 DEF OfferAudio, Typed
<1>6. CASE Push
  <2>1. PICK k \in {"video", "audio"} :
          /\ offered[k] # None
          /\ offered' = [offered EXCEPT ![k] = None]
          /\ \/ UNCHANGED <<queue, restartRequested>>
             \/ queue' = <<>> /\ restartRequested' = TRUE
             \/ queue' = Append(queue, offered[k]) /\ UNCHANGED restartRequested
    BY <1>6 DEF Push
  <2>2. offered[k] \in Media
    BY <2>1 DEF Typed, Packet
  <2>5. queue \in Seq(Media) /\ restartRequested \in BOOLEAN
    BY DEF Typed
  <2>6. <<>> \in Seq(Media) /\ Append(queue, offered[k]) \in Seq(Media)
    BY <2>2, <2>5
  <2>3. queue' \in Seq(Media) /\ restartRequested' \in BOOLEAN
    BY <2>1, <2>5, <2>6, Zenon
  <2>4. offered' \in [{"video", "audio"} -> Packet]
    BY <2>1 DEF Typed, Packet
  <2> QED
    BY <1>6, <2>3, <2>4 DEF Push, Typed
<1>7. CASE LoopClears
  <2>1. worker' \in WorkerState
    BY <1>7 DEF Typed, Goto, LoopClears, WorkerState, Pc
  <2>2. queue' \in Seq(Media)
    BY <1>7 DEF LoopClears
  <2> QED
    BY <1>7, <2>1, <2>2 DEF Typed, LoopClears, capture
<1>8. CASE LoopArms
  <2>3. None \in Packet /\ <<>> \in Seq(Media)
    BY DEF Packet
  <2>1. IsWorker(worker')
    BY <1>8, <2>3 DEF LoopArms, Typed, WorkerState, IsWorker, Pc
  <2>2. stream' \in Stream
    BY <1>8 DEF LoopArms, NothingSent, Stream
  <2> QED
    BY <1>8, <2>1, <2>2, WorkerFields DEF LoopArms, capture, Typed, State
<1>9. CASE LoopEnds
  BY <1>9 DEF Typed, At, Goto, LoopEnds, capture, WorkerState, Pc, State
<1>10. CASE EndsInError
  BY <1>10 DEF Typed, At, EndsInError, Goto, capture, WorkerState, Pc, State
<1>11. CASE ErrorClears
  <2>1. worker' \in WorkerState
    BY <1>11 DEF Typed, Goto, ErrorClears, WorkerState, Pc
  <2>2. queue' \in Seq(Media)
    BY <1>11 DEF ErrorClears
  <2> QED
    BY <1>11, <2>1, <2>2 DEF Typed, ErrorClears, capture
<1>12. CASE Retry
  <2>1. IsWorker(worker')
    BY <1>12 DEF Retry, Typed, WorkerState, IsWorker, Pc
  <2>2. queue' \in Seq(Media)
    BY <1>12 DEF Retry, Typed
  <2> QED
    BY <1>12, <2>1, <2>2, WorkerFields DEF Retry, capture, Typed, State
<1>13. CASE Pause
  BY <1>13 DEF Typed, At, Goto, Pause, capture, WorkerState, Pc, State
<1>14. CASE Finish
  BY <1>14 DEF Typed, At, Finish, Goto, capture, WorkerState, Pc, State
<1>15. CASE StopsAttempt
  BY <1>15 DEF Typed, At, Goto, StopsAttempt, Waits, capture, WorkerState, Pc,
     State
<1>16. CASE Stalled
  BY <1>16 DEF Typed, At, Stalled, Throw, capture, WorkerState, Pc, State
<1>17. CASE Fails
  <2>1. IsWorker(worker')
    BY <1>17 DEF Fails, Throw, Typed, WorkerState, IsWorker, Pc
  <2> QED
    BY <1>17, <2>1, WorkerFields DEF Fails, Fault, capture, Typed
<1>18. CASE WhipConnects
  BY <1>18 DEF Typed, At, Goto, WhipConnects, capture, WorkerState, Pc, State
<1>19. CASE WhipClears
  <2>1. worker' \in WorkerState
    BY <1>19 DEF Typed, Goto, WhipClears, WorkerState, Pc
  <2>2. queue' \in Seq(Media)
    BY <1>19 DEF WhipClears
  <2> QED
    BY <1>19, <2>1, <2>2 DEF Typed, WhipClears, capture
<1>20. CASE WhipArms
  BY <1>20 DEF Typed, At, Goto, WhipArms, capture, WorkerState, Pc, State
<1>21. CASE WhipGoesLive
  BY <1>21 DEF Typed, At, Goto, WhipGoesLive, capture, WorkerState, Pc, State
<1>22. CASE AwaitKeyframe
  <2>1. queue # <<>>
    BY <1>22 DEF AwaitKeyframe, Pops
  <2>2. Head(queue) \in Media /\ Tail(queue) \in Seq(Media)
    BY <2>1 DEF Typed
  <2>4. Append(worker.initial, Head(queue)) \in Seq(Media)
    BY <2>2 DEF Typed, WorkerState
  <2>5. Head(queue) \in Packet /\ worker \in WorkerState
    BY <2>2 DEF Packet, Typed
  <2>6. \/ worker' = worker
        \/ worker' = [worker EXCEPT !.initial = Append(worker.initial, Head(queue))]
        \/ worker' = [worker EXCEPT !.pc = "startMux", !.packet = Head(queue)]
    BY <1>22 DEF AwaitKeyframe
  <2>7. CASE worker' = worker
    BY <1>22, <2>2, <2>5, <2>7 DEF AwaitKeyframe, capture, Typed
  <2>8. CASE worker' # worker
    <3>1. ASSUME worker' = [worker EXCEPT !.initial = Append(worker.initial, Head(queue))]
         PROVE  IsWorker(worker')
      BY <2>4, <2>5, <3>1 DEF IsWorker, WorkerState
    <3>2. ASSUME worker' = [worker EXCEPT !.pc = "startMux", !.packet = Head(queue)]
         PROVE  IsWorker(worker')
      BY <2>5, <3>2 DEF IsWorker, WorkerState, Pc
    <3>3. IsWorker(worker')
      BY <2>6, <2>8, <3>1, <3>2
    <3> QED
      BY <1>22, <2>2, <3>3, WorkerFields DEF AwaitKeyframe, capture, Typed
  <2> QED
    BY <2>7, <2>8
<1>23. CASE StartMux
  <2>1. worker' \in WorkerState /\ stream' \in Stream
    BY <1>23, StartMuxLeaves
  <2> QED
    BY <1>23, <2>1 DEF StartMux, capture, Typed
<1>24. CASE Take
  <2>1. queue # <<>>
    BY <1>24 DEF Take, Pops
  <2>2. Head(queue) \in Media /\ Tail(queue) \in Seq(Media)
    BY <2>1 DEF Typed
  <2>3. IsWorker(worker')
    BY <1>24, <2>2 DEF IsWorker, Take, Typed, WorkerState, Pc, Packet
  <2> QED
    BY <1>24, <2>2, <2>3, WorkerFields DEF Take, capture, Typed
<1>25. CASE DeliverWhip
  <2>1. worker.packet \in Media
    BY <1>25 DEF DeliverWhip, StreamInv, Typed, WorkerState, Packet
  <2>2. IsStream(stream')
    BY <1>25, <2>1 DEF IsStream, DeliverWhip, Typed, Stream, Sent, Media
  <2>3. IsWorker(worker')
    BY <1>25, <2>1 DEF IsWorker, DeliverWhip, Typed, WorkerState, Pc, Packet, Media
  <2> QED
    BY <1>25, <2>2, <2>3, WorkerFields, StreamFields
    DEF DeliverWhip, capture, Typed
<1>26. CASE VideoOfOtherSize
  BY <1>26 DEF Typed, At, Throw, VideoOfOtherSize, capture, WorkerState, Pc,
     State
<1>27. CASE DeliverMuxVideo
  <2> DEFINE p == worker.packet
             from == SilenceFrom(p.pts)
  <2>1. p.pts \in Nat /\ p.key \in BOOLEAN
    BY PacketFields DEF Typed, WorkerState
  <2>5. from \in Int
    BY <2>1, SilenceFromType
  <2>6. stream.heard \in Int /\ p.pts \in Int
    BY <2>1 DEF Typed, Stream
  <2>2. Max({stream.heard, p.pts}) \in Int
    BY <2>6, MaxOfTwo
  <2> HIDE DEF p, from
  <2>7. \/ stream' = Sent(p) /\ worker' = [worker EXCEPT !.pc = "send", !.packet = None]
        \/ /\ stream' = [Heard(Sent(p), from, p.pts) EXCEPT !.silent = p.pts]
           /\ worker' = [[worker EXCEPT !.pc = "send", !.packet = None]
                           EXCEPT !.audioEnd = p.pts, !.silence = p.pts]
    BY <1>27 DEF DeliverMuxVideo, p, from
  <2>8. worker \in WorkerState /\ stream \in Stream /\ None \in Packet
    BY DEF Typed, Packet
  <2>3. IsStream(stream')
    <3>1. CASE stream' = Sent(p)
      BY <2>1, <2>8, <3>1 DEF IsStream, Stream, Sent
    <3>2. CASE stream' = [Heard(Sent(p), from, p.pts) EXCEPT !.silent = p.pts]
      <4> DEFINE sent == Sent(p)
      <4>1. IsStream(sent)
        BY <2>1, <2>8 DEF IsStream, Stream, Sent
      <4>2. sent.heard = stream.heard
        BY <2>8 DEF Sent, Stream
      <4> HIDE DEF sent
      <4>3. IsStream(Heard(sent, from, p.pts))
        BY <2>2, <2>5, <4>1, <4>2 DEF IsStream, Heard
      <4> QED
        BY <2>6, <3>2, <4>3 DEF IsStream, sent
    <3> QED
      BY <2>7, <3>1, <3>2
  <2> DEFINE idle == [worker EXCEPT !.pc = "send", !.packet = None]
  <2>9. IsWorker(idle)
    BY <2>8 DEF IsWorker, WorkerState, Pc
  <2>10. worker' = idle \/ worker' = [idle EXCEPT !.audioEnd = p.pts, !.silence = p.pts]
    BY <2>7
  <2> HIDE DEF idle
  <2>4. IsWorker(worker')
    BY <2>6, <2>9, <2>10 DEF IsWorker
  <2> QED
    BY <1>27, <2>3, <2>4, WorkerFields, StreamFields
    DEF DeliverMuxVideo, capture, Typed
<1>28. CASE DeliverMuxAudio
  <2> DEFINE p == worker.packet
             end == p.pts + AudioLength
  <2>1. p.pts \in Nat /\ end \in Int /\ AudioFrom(p) \in Int
    BY AudioFromType, OutputAssumption DEF Typed, WorkerState, Packet, Media, None
  <2>5. stream.heard \in Int /\ worker.audioEnd \in Int
    BY DEF Typed, Stream, WorkerState
  <2>2. Max({stream.heard, end}) \in Int /\ Max({worker.audioEnd, end}) \in Int
    BY <2>1, <2>5, MaxOfTwo
  <2>3. IsStream(stream')
    BY <1>28, <2>1, <2>2 DEF IsStream, DeliverMuxAudio, Typed, Stream, Heard
  <2>4. IsWorker(worker')
    BY <1>28, <2>1, <2>2 DEF IsWorker, DeliverMuxAudio, Typed, WorkerState, Pc, Packet
  <2> QED
    BY <1>28, <2>3, <2>4, WorkerFields, StreamFields
    DEF DeliverMuxAudio, capture, Typed
<1>29. CASE MuxProgress
  BY <1>29 DEF Typed, At, MuxProgress, capture, WorkerState, Pc, State
<1>30. CASE UNCHANGED vars
  BY <1>30 DEF Typed, vars
<1> QED
  BY <1>1, <1>2, <1>3, <1>4, <1>5, <1>6, <1>7, <1>8, <1>9, <1>10, <1>11,
     <1>12, <1>13, <1>14, <1>15, <1>16, <1>17, <1>18, <1>19, <1>20, <1>21,
     <1>22, <1>23, <1>24, <1>25, <1>26, <1>27, <1>28, <1>29, <1>30 DEF Next,
     Owner, Capture, Worker

\* The worker goes from place to place as its protocol has it, and never leaves an error.
LEMMA PlaceKeeps == Typed /\ PlaceInv /\ [Next]_vars => PlaceInv'
<1> SUFFICES ASSUME Typed, PlaceInv, [Next]_vars PROVE PlaceInv'
  OBVIOUS
<1>0. worker \in WorkerState /\ None \in Packet
  BY DEF Typed, Packet
<1>1. CASE Start
  BY <1>1, <1>0 DEF PlaceInv, WorkerState, At, Goto, Start, capture
<1>2. CASE Stop
  BY <1>2, <1>0 DEF PlaceInv, WorkerState, At, Stop, capture
<1>3. CASE Join
  BY <1>3, <1>0 DEF PlaceInv, WorkerState, At, Join, capture
<1>4. CASE OfferVideo
  BY <1>4, <1>0 DEF PlaceInv, WorkerState, At, OfferVideo
<1>5. CASE OfferAudio
  BY <1>5, <1>0 DEF PlaceInv, WorkerState, At, OfferAudio
<1>6. CASE Push
  BY <1>6, <1>0 DEF PlaceInv, WorkerState, At, Push
<1>7. CASE LoopClears
  BY <1>7, <1>0 DEF PlaceInv, WorkerState, At, Goto, LoopClears, capture
<1>8. CASE LoopArms
  BY <1>8, <1>0 DEF PlaceInv, WorkerState, At, LoopArms, capture, Typed
<1>9. CASE LoopEnds
  BY <1>9, <1>0 DEF PlaceInv, WorkerState, At, Goto, LoopEnds, capture
<1>10. CASE EndsInError
  BY <1>10, <1>0 DEF PlaceInv, WorkerState, At, EndsInError, Goto, capture
<1>11. CASE ErrorClears
  BY <1>11, <1>0 DEF PlaceInv, WorkerState, At, ErrorClears, Goto, capture
<1>12. CASE Retry
  BY <1>12, <1>0 DEF PlaceInv, WorkerState, At, Retry, capture
<1>13. CASE Pause
  BY <1>13, <1>0 DEF PlaceInv, WorkerState, At, Goto, Pause, capture
<1>14. CASE Finish
  BY <1>14, <1>0 DEF PlaceInv, WorkerState, At, Finish, Goto, capture
<1>15. CASE StopsAttempt
  BY <1>15, <1>0 DEF PlaceInv, WorkerState, At, Goto, StopsAttempt, Waits,
     capture
<1>16. CASE Stalled
  BY <1>16, <1>0 DEF PlaceInv, WorkerState, At, Stalled, Throw, capture
<1>17. CASE Fails
  BY <1>17, <1>0 DEF PlaceInv, WorkerState, At, Fails, Fault, Throw, Waits,
     capture
<1>18. CASE WhipConnects
  BY <1>18, <1>0 DEF PlaceInv, WorkerState, At, Goto, WhipConnects, capture
<1>19. CASE WhipClears
  BY <1>19, <1>0 DEF PlaceInv, WorkerState, At, Goto, WhipClears, capture
<1>20. CASE WhipArms
  BY <1>20, <1>0 DEF PlaceInv, WorkerState, At, Goto, WhipArms, capture
<1>21. CASE WhipGoesLive
  BY <1>21, <1>0 DEF PlaceInv, WorkerState, At, Goto, WhipGoesLive, capture
<1>22. CASE AwaitKeyframe
  BY <1>22, <1>0 DEF PlaceInv, WorkerState, At, AwaitKeyframe, capture
<1>23. CASE StartMux
  BY <1>23, <1>0 DEF PlaceInv, WorkerState, At, StartMux, capture
<1>24. CASE Take
  BY <1>24, <1>0 DEF PlaceInv, WorkerState, At, Take, capture
<1>25. CASE DeliverWhip
  BY <1>25, <1>0 DEF PlaceInv, WorkerState, At, DeliverWhip, capture
<1>26. CASE VideoOfOtherSize
  BY <1>26, <1>0 DEF PlaceInv, WorkerState, At, Throw, VideoOfOtherSize,
     capture
<1>27. CASE DeliverMuxVideo
  BY <1>27, <1>0 DEF PlaceInv, WorkerState, At, DeliverMuxVideo, capture
<1>28. CASE DeliverMuxAudio
  BY <1>28, <1>0 DEF PlaceInv, WorkerState, At, DeliverMuxAudio, capture
<1>29. CASE MuxProgress
  BY <1>29, <1>0 DEF PlaceInv, WorkerState, At, MuxProgress, capture
<1>30. CASE UNCHANGED vars
  BY <1>30, <1>0 DEF PlaceInv, WorkerState, At, vars
<1> QED
  BY <1>1, <1>2, <1>3, <1>4, <1>5, <1>6, <1>7, <1>8, <1>9, <1>10, <1>11,
     <1>12, <1>13, <1>14, <1>15, <1>16, <1>17, <1>18, <1>19, <1>20, <1>21,
     <1>22, <1>23, <1>24, <1>25, <1>26, <1>27, <1>28, <1>29, <1>30 DEF Next,
     Owner, Capture, Worker

\* A push in progress keeps its packet.
LEMMA OfferKeeps == Typed /\ OfferInv /\ [Next]_vars => OfferInv'
<1> SUFFICES ASSUME Typed, OfferInv, [Next]_vars PROVE OfferInv'
  OBVIOUS
<1>1. CASE Start
  BY <1>1 DEF OfferInv, Typed, Goto, Start, capture
<1>2. CASE Stop
  BY <1>2 DEF OfferInv, Typed, Stop, capture
<1>3. CASE Join
  BY <1>3 DEF OfferInv, Typed, At, Join, capture
<1>4. CASE OfferVideo
  BY <1>4 DEF OfferInv, Typed, OfferVideo
<1>5. CASE OfferAudio
  BY <1>5 DEF OfferInv, Typed, OfferAudio
<1>6. CASE Push
  BY <1>6 DEF OfferInv, Typed, Push
<1>7. CASE LoopClears
  BY <1>7 DEF OfferInv, Typed, At, Goto, LoopClears, capture
<1>8. CASE LoopArms
  BY <1>8 DEF OfferInv, Typed, At, LoopArms, capture
<1>9. CASE LoopEnds
  BY <1>9 DEF OfferInv, Typed, At, Goto, LoopEnds, capture
<1>10. CASE EndsInError
  BY <1>10 DEF OfferInv, Typed, At, EndsInError, Goto, capture
<1>11. CASE ErrorClears
  BY <1>11 DEF OfferInv, Typed, At, ErrorClears, Goto, capture
<1>12. CASE Retry
  BY <1>12 DEF OfferInv, Typed, At, Retry, capture
<1>13. CASE Pause
  BY <1>13 DEF OfferInv, Typed, At, Goto, Pause, capture
<1>14. CASE Finish
  BY <1>14 DEF OfferInv, Typed, At, Finish, Goto, capture
<1>15. CASE StopsAttempt
  BY <1>15 DEF OfferInv, Typed, At, Goto, StopsAttempt, Waits, capture
<1>16. CASE Stalled
  BY <1>16 DEF OfferInv, Typed, At, Stalled, Throw, capture
<1>17. CASE Fails
  BY <1>17 DEF OfferInv, Typed, At, Fails, Fault, Throw, Waits, capture
<1>18. CASE WhipConnects
  BY <1>18 DEF OfferInv, Typed, At, Goto, WhipConnects, capture
<1>19. CASE WhipClears
  BY <1>19 DEF OfferInv, Typed, At, Goto, WhipClears, capture
<1>20. CASE WhipArms
  BY <1>20 DEF OfferInv, Typed, At, Goto, WhipArms, capture
<1>21. CASE WhipGoesLive
  BY <1>21 DEF OfferInv, Typed, At, Goto, WhipGoesLive, capture
<1>22. CASE AwaitKeyframe
  BY <1>22 DEF OfferInv, Typed, At, AwaitKeyframe, capture
<1>23. CASE StartMux
  BY <1>23 DEF OfferInv, Typed, At, StartMux, capture
<1>24. CASE Take
  BY <1>24 DEF OfferInv, Typed, At, Take, capture
<1>25. CASE DeliverWhip
  BY <1>25 DEF OfferInv, Typed, At, DeliverWhip, capture
<1>26. CASE VideoOfOtherSize
  BY <1>26 DEF OfferInv, Typed, At, Throw, VideoOfOtherSize, capture
<1>27. CASE DeliverMuxVideo
  BY <1>27 DEF OfferInv, Typed, At, DeliverMuxVideo, capture
<1>28. CASE DeliverMuxAudio
  BY <1>28 DEF OfferInv, Typed, At, DeliverMuxAudio, capture
<1>29. CASE MuxProgress
  BY <1>29 DEF OfferInv, Typed, At, MuxProgress, capture
<1>30. CASE UNCHANGED vars
  BY <1>30 DEF OfferInv, Typed, vars
<1> QED
  BY <1>1, <1>2, <1>3, <1>4, <1>5, <1>6, <1>7, <1>8, <1>9, <1>10, <1>11,
     <1>12, <1>13, <1>14, <1>15, <1>16, <1>17, <1>18, <1>19, <1>20, <1>21,
     <1>22, <1>23, <1>24, <1>25, <1>26, <1>27, <1>28, <1>29, <1>30 DEF Next,
     Owner, Capture, Worker

\* A push in progress has raised the clock.
LEMMA PushedType ==
  ASSUME Typed, OfferInv
  PROVE  Pushed \in Nat
<1>1. CASE offered["video"] = None
  BY <1>1 DEF Pushed, Typed
<1>2. CASE offered["video"] # None
  <2>1. offered["video"] \in Media
    BY <1>2 DEF Typed, Packet
  <2>2. clock \in Nat \ {0}
    BY <1>2, <2>1 DEF OfferInv, Typed, Media
  <2> QED
    BY <1>2, <2>2 DEF Pushed
<1> QED
  BY <1>1, <1>2

\* What a push does to the queue: nothing once in error, else it appends its
\* packet, or empties the queue and asks for a restart.
LEMMA PushStep ==
  ASSUME Typed, OfferInv, Push, state # "Error"
  PROVE  \E p \in Media :
           /\ p.kind = "video" => p.pts = Pushed + 1
           /\ Pushed' = IF p.kind = "video" THEN Pushed + 1 ELSE Pushed
           /\ \/ queue' = <<>> /\ restartRequested' = TRUE
              \/ queue' = Append(queue, p) /\ restartRequested' = restartRequested
<1>1. PICK k \in {"video", "audio"} :
        /\ offered[k] # None
        /\ offered' = [offered EXCEPT ![k] = None]
        /\ \/ queue' = <<>> /\ restartRequested' = TRUE
           \/ queue' = Append(queue, offered[k]) /\ restartRequested' = restartRequested
  BY DEF Push
<1>2. offered[k] \in Media
  BY <1>1 DEF Typed, Packet
<1>3. clock' = clock /\ clock \in Nat
  BY DEF Push, Typed
<1>4. CASE k = "video"
  <2>1. offered[k].kind = "video" /\ offered[k].pts = clock
    BY <1>1, <1>4 DEF OfferInv
  <2>2. Pushed = clock - 1 /\ Pushed' = clock
    BY <1>1, <1>3, <1>4 DEF Pushed, Typed
  <2> QED
    BY <1>1, <1>2, <1>3, <2>1, <2>2
<1>5. CASE k = "audio"
  <2>1. offered[k].kind = "audio"
    BY <1>1, <1>5 DEF OfferInv
  <2>2. offered'["video"] = offered["video"]
    BY <1>1, <1>5 DEF Typed
  <2>3. Pushed' = Pushed
    BY <1>3, <2>2 DEF Pushed
  <2> QED
    BY <1>1, <1>2, <2>1, <2>3
<1> QED
  BY <1>1, <1>4, <1>5

\* Other steps than a push do not change which packet was pushed last.
LEMMA PushedStays ==
  ASSUME Typed, [Next]_vars, ~Push
  PROVE  Pushed' = Pushed
<1>1. CASE UNCHANGED capture
  BY <1>1 DEF capture, Pushed
<1>2. CASE OfferVideo
  <2>1. offered["video"] = None /\ clock' = clock + 1 /\ clock \in Nat
    BY <1>2 DEF OfferVideo, Typed
  <2>2. offered'["video"].kind = "video"
    BY <1>2 DEF OfferVideo, Typed
  <2>3. offered'["video"] # None
    BY <2>2 DEF None
  <2> QED
    BY <2>1, <2>3 DEF Pushed
<1>3. CASE OfferAudio
  <2>1. clock' = clock /\ offered'["video"] = offered["video"]
    BY <1>3 DEF OfferAudio, Typed
  <2> QED
    BY <2>1 DEF Pushed
<1>4. OfferVideo \/ OfferAudio \/ UNCHANGED capture
  <2>1. CASE Owner
    BY <2>1 DEF Owner, Start, Stop, Join, capture
  <2>2. CASE Capture
    BY <2>2 DEF Capture
  <2>3. CASE Worker
    BY <2>3 DEF Worker, LoopClears, LoopArms, LoopEnds, EndsInError, ErrorClears,
      Retry, Pause, Finish, StopsAttempt, Stalled, Fails, WhipConnects,
      WhipClears, WhipArms, WhipGoesLive, AwaitKeyframe, StartMux, Take,
      DeliverWhip, VideoOfOtherSize, DeliverMuxVideo, DeliverMuxAudio
  <2>4. CASE MuxProgress \/ UNCHANGED vars
    BY <2>4 DEF MuxProgress, vars, capture
  <2> QED
    BY <2>1, <2>2, <2>3, <2>4 DEF Next
<1> QED
  BY <1>1, <1>2, <1>3, <1>4

\* The steps that change the state, and those that change the queue.
LEMMA StateSteps ==
  ASSUME [Next]_vars
  PROVE  \/ Start \/ LoopArms \/ EndsInError \/ Retry \/ Finish \/ WhipGoesLive
         \/ MuxProgress \/ UNCHANGED state
<1>1. CASE Owner
  BY <1>1 DEF Owner, Stop, Join
<1>2. CASE Capture
  BY <1>2 DEF Capture, OfferVideo, OfferAudio, Push
<1>3. CASE Worker
  BY <1>3 DEF Worker, LoopClears, LoopEnds, ErrorClears, Pause, StopsAttempt,
    Stalled, Fails, WhipConnects, WhipClears, WhipArms, AwaitKeyframe, StartMux,
    Take, DeliverWhip, VideoOfOtherSize, DeliverMuxVideo, DeliverMuxAudio
<1>4. CASE UNCHANGED vars
  BY <1>4 DEF vars
<1> QED
  BY <1>1, <1>2, <1>3, <1>4 DEF Next

\* But for a push, a step empties the queue, takes its head, or leaves it.
LEMMA QueueSteps ==
  ASSUME [Next]_vars, ~Push
  PROVE  queue' \in {queue, <<>>} \/ (queue # <<>> /\ queue' = Tail(queue))
<1>1. CASE Owner
  BY <1>1 DEF Owner, Start, Stop, Join
<1>2. CASE Capture
  BY <1>2 DEF Capture, OfferVideo, OfferAudio
<1>3. CASE Worker
  BY <1>3 DEF Worker, LoopClears, LoopArms, LoopEnds, EndsInError, ErrorClears,
    Retry, Pause, Finish, StopsAttempt, Stalled, Fails, WhipConnects, WhipClears,
    WhipArms, WhipGoesLive, AwaitKeyframe, StartMux, Take, Pops, DeliverWhip,
    VideoOfOtherSize, DeliverMuxVideo, DeliverMuxAudio
<1>4. CASE MuxProgress \/ UNCHANGED vars
  BY <1>4 DEF MuxProgress, vars
<1> QED
  BY <1>1, <1>2, <1>3, <1>4 DEF Next

\* The run of video in the queue, with its lemmas.
LEMMA RunKeeps ==
  Typed /\ PlaceInv /\ OfferInv /\ RunInv /\ [Next]_vars => RunInv'
<1> SUFFICES ASSUME Typed, PlaceInv, OfferInv, RunInv, [Next]_vars,
                    state' # "Error"
             PROVE  Run(queue', Pushed')
  BY DEF RunInv
<1>1. Pushed \in Nat /\ queue \in Seq(Media)
  BY PushedType DEF Typed
<1>2. state # "Error"
  <2>1. CASE UNCHANGED state
    BY <2>1
  <2>2. CASE Start \/ LoopArms \/ Retry \/ Finish \/ WhipGoesLive \/ MuxProgress
    BY <2>2 DEF PlaceInv, At, Start, LoopArms, Retry, Finish, WhipGoesLive,
      MuxProgress
  <2> QED
    BY <2>1, <2>2, StateSteps DEF EndsInError
<1>3. Run(queue, Pushed)
  BY <1>2 DEF RunInv
<1>4. CASE Push
  <2>1. PICK p \in Media :
          /\ p.kind = "video" => p.pts = Pushed + 1
          /\ Pushed' = IF p.kind = "video" THEN Pushed + 1 ELSE Pushed
          /\ \/ queue' = <<>>
             \/ queue' = Append(queue, p)
    BY <1>2, <1>4, PushStep
  <2> QED
    BY <1>1, <1>3, <2>1, AppendToRun, EmptyRun
<1>5. CASE ~Push
  <2>1. Pushed' = Pushed
    BY <1>5, PushedStays
  <2>2. queue' \in {queue, <<>>} \/ (queue # <<>> /\ queue' = Tail(queue))
    BY <1>5, QueueSteps
  <2> QED
    BY <1>1, <1>3, <2>1, <2>2, TailOfRun, EmptyRun
<1> QED
  BY <1>4, <1>5

\* The packet the worker takes, on a connection or before one.
LEMMA TakenIsNext ==
  ASSUME Typed, PlaceInv, OfferInv, RunInv, FollowsInv, Pops,
         At("send") \/ At("keyframe")
  PROVE  /\ Head(queue) \in Media
         /\ Head(queue).kind = "video" =>
              /\ Head(queue).pts <= Pushed
              /\ \A i \in 1..Len(Tail(queue)) : Tail(queue)[i].kind = "video" =>
                   Head(queue).pts < Tail(queue)[i].pts
              /\ Through(Tail(queue), Head(queue).pts + 1, Pushed)
         /\ At("send") /\ stream.video # 0 =>
              IF Head(queue).kind = "video"
              THEN Head(queue).pts = stream.video + 1
              ELSE /\ \A i \in 1..Len(Tail(queue)) : Tail(queue)[i].kind = "video" =>
                        stream.video < Tail(queue)[i].pts
                   /\ Through(Tail(queue), stream.video + 1, Pushed)
<1>1. queue \in Seq(Media) /\ queue # <<>> /\ ~restartRequested
  BY DEF Typed, Pops
<1>2. Pushed \in Nat /\ Head(queue) \in Media
  BY <1>1, PushedType
<1>3. Run(queue, Pushed)
  BY DEF RunInv, PlaceInv, At
<1>4. CASE Head(queue).kind = "video" /\ ~(At("send") /\ stream.video # 0)
  BY <1>1, <1>2, <1>3, <1>4, HeadIsNext
<1>5. CASE At("send") /\ stream.video # 0
  <2>1. stream.video \in Nat
    BY DEF Typed, Stream
  <2>2. /\ \A i \in 1..Len(queue) : queue[i].kind = "video" =>
             stream.video < queue[i].pts
        /\ Through(queue, stream.video + 1, Pushed)
    BY <1>1, <1>5 DEF FollowsInv, Last, HasVideo, Connected, At
  <2>3. CASE Head(queue).kind = "video"
    <3>1. Head(queue).pts = stream.video + 1
      BY <1>1, <1>2, <1>3, <2>1, <2>2, <2>3, HeadIsNext
    <3>2. /\ Head(queue).pts <= Pushed
          /\ \A i \in 1..Len(Tail(queue)) : Tail(queue)[i].kind = "video" =>
               Head(queue).pts < Tail(queue)[i].pts
          /\ Through(Tail(queue), Head(queue).pts + 1, Pushed)
      BY <1>1, <1>2, <1>3, <2>3, HeadIsNext
    <3> QED
      BY <1>2, <2>3, <3>1, <3>2
  <2>4. CASE Head(queue).kind # "video"
    <3>1. stream.video + 1 \in Nat
      BY <2>1
    <3>2. Through(Tail(queue), stream.video + 1, Pushed)
      BY <1>1, <1>2, <1>3, <2>2, <2>4, <3>1, TailOfRun
    <3>3. \A i \in 1..Len(Tail(queue)) : Tail(queue)[i].kind = "video" =>
            stream.video < Tail(queue)[i].pts
      BY <1>1, <1>2, <1>3, <2>2, TailOfRun
    <3> QED
      BY <1>2, <1>5, <2>4, <3>2, <3>3
  <2> QED
    BY <2>3, <2>4
<1>6. CASE Head(queue).kind # "video" /\ ~(At("send") /\ stream.video # 0)
  BY <1>2, <1>6
<1> QED
  BY <1>4, <1>5, <1>6

\* What a video packet written to FFmpeg leaves: with or without silence
\* before it.
LEMMA DeliverMuxVideoSends ==
  ASSUME Typed, DeliverMuxVideo
  PROVE  LET p == worker.packet
             from == SilenceFrom(p.pts) IN
         /\ stream'.video = p.pts
         /\ \/ /\ stream'.audio = stream.audio /\ stream'.heard = stream.heard
               /\ stream'.silent = stream.silent
               /\ worker'.audioEnd = worker.audioEnd
               /\ worker'.silence = worker.silence
            \/ /\ from < p.pts
               /\ stream'.from = from /\ stream'.heard = Max({stream.heard, p.pts})
               /\ stream'.silent = p.pts
               /\ worker'.audioEnd = p.pts /\ worker'.silence = p.pts
<1> DEFINE p == worker.packet
           from == SilenceFrom(p.pts)
           sent == Sent(p)
<1>1. /\ stream \in Stream /\ worker \in WorkerState
  BY DEF Typed
<1>2. /\ DOMAIN sent = DOMAIN stream
      /\ sent.video = p.pts /\ sent.audio = stream.audio /\ sent.from = stream.from
      /\ sent.heard = stream.heard /\ sent.silent = stream.silent
  BY <1>1 DEF Sent, Stream
<1>3. DOMAIN stream = {"video", "key", "audio", "from", "heard", "silent"}
  BY <1>1 DEF Stream
<1> HIDE DEF sent, from
<1>4. \/ stream' = sent /\ worker' = [worker EXCEPT !.pc = "send", !.packet = None]
      \/ /\ from < p.pts
         /\ stream' = [Heard(sent, from, p.pts) EXCEPT !.silent = p.pts]
         /\ worker' = [[worker EXCEPT !.pc = "send", !.packet = None]
                         EXCEPT !.audioEnd = p.pts, !.silence = p.pts]
  BY DEF DeliverMuxVideo, sent, from
<1>5. CASE stream' = sent /\ worker' = [worker EXCEPT !.pc = "send", !.packet = None]
  <2>1. worker'.audioEnd = worker.audioEnd /\ worker'.silence = worker.silence
    BY <1>1, <1>5 DEF WorkerState
  <2> QED
    BY <1>2, <1>5, <2>1
<1>6. CASE /\ from < p.pts
           /\ stream' = [Heard(sent, from, p.pts) EXCEPT !.silent = p.pts]
           /\ worker' = [[worker EXCEPT !.pc = "send", !.packet = None]
                           EXCEPT !.audioEnd = p.pts, !.silence = p.pts]
  <2>1. worker'.audioEnd = p.pts /\ worker'.silence = p.pts
    BY <1>1, <1>6 DEF WorkerState
  <2>2. /\ stream'.video = p.pts /\ stream'.from = from
        /\ stream'.heard = Max({stream.heard, p.pts}) /\ stream'.silent = p.pts
    BY <1>2, <1>3, <1>6 DEF Heard
  <2> QED
    BY <1>6, <2>1, <2>2 DEF from
<1> QED
  BY <1>4, <1>5, <1>6

\* Each connection begins with nothing sent, and what is in hand is next.
LEMMA StreamKeeps == Typed /\ PlaceInv /\ OfferInv /\ RunInv /\ StreamInv /\ FollowsInv /\ [Next]_vars => StreamInv'
<1> SUFFICES ASSUME Typed, PlaceInv, OfferInv, RunInv, StreamInv, FollowsInv, [Next]_vars PROVE StreamInv'
  OBVIOUS
<1>0. worker \in WorkerState /\ None \in Packet
  BY DEF Typed, Packet
<1>1. CASE Start
  BY <1>1, <1>0 DEF StreamInv, WorkerState, Before, At, Goto, Start, capture
<1>2. CASE Stop
  BY <1>2, <1>0 DEF StreamInv, WorkerState, Before, At, Stop, capture
<1>3. CASE Join
  BY <1>3, <1>0 DEF StreamInv, WorkerState, Before, At, Join, capture
<1>4. CASE OfferVideo
  BY <1>4, <1>0 DEF StreamInv, WorkerState, Before, At, OfferVideo
<1>5. CASE OfferAudio
  BY <1>5, <1>0 DEF StreamInv, WorkerState, Before, At, OfferAudio
<1>6. CASE Push
  BY <1>6, <1>0 DEF StreamInv, WorkerState, Before, At, Push
<1>7. CASE LoopClears
  BY <1>7, <1>0 DEF StreamInv, WorkerState, Before, At, Goto, LoopClears,
     capture
<1>8. CASE LoopArms
  BY <1>8, <1>0 DEF StreamInv, WorkerState, Before, At, LoopArms, capture,
     Typed
<1>9. CASE LoopEnds
  BY <1>9, <1>0 DEF StreamInv, WorkerState, Before, At, Goto, LoopEnds, capture
<1>10. CASE EndsInError
  BY <1>10, <1>0 DEF StreamInv, WorkerState, Before, At, EndsInError, Goto,
     capture
<1>11. CASE ErrorClears
  BY <1>11, <1>0 DEF StreamInv, WorkerState, Before, At, ErrorClears, Goto,
     capture
<1>12. CASE Retry
  BY <1>12, <1>0 DEF StreamInv, WorkerState, Before, At, Retry, capture
<1>13. CASE Pause
  BY <1>13, <1>0 DEF StreamInv, WorkerState, Before, At, Goto, Pause, capture
<1>14. CASE Finish
  BY <1>14, <1>0 DEF StreamInv, WorkerState, Before, At, Finish, Goto, capture
<1>15. CASE StopsAttempt
  BY <1>15, <1>0 DEF StreamInv, WorkerState, Before, At, Goto, StopsAttempt,
     Waits, capture
<1>16. CASE Stalled
  BY <1>16, <1>0 DEF StreamInv, WorkerState, Before, At, Stalled, Throw,
     capture
<1>17. CASE Fails
  BY <1>17, <1>0 DEF StreamInv, WorkerState, Before, At, Fails, Fault, Throw,
     Waits, capture
<1>18. CASE WhipConnects
  BY <1>18, <1>0 DEF StreamInv, WorkerState, Before, At, Goto, WhipConnects,
     capture
<1>19. CASE WhipClears
  BY <1>19, <1>0 DEF StreamInv, WorkerState, Before, At, Goto, WhipClears,
     capture
<1>20. CASE WhipArms
  BY <1>20, <1>0 DEF StreamInv, WorkerState, Before, At, Goto, WhipArms,
     capture
<1>21. CASE WhipGoesLive
  BY <1>21, <1>0 DEF StreamInv, WorkerState, Before, At, Goto, WhipGoesLive,
     capture, PlaceInv, NothingSent
<1>22. CASE AwaitKeyframe
  <2>1. Pops /\ At("keyframe")
    BY <1>22 DEF AwaitKeyframe
  <2>2. Head(queue) \in Media
    BY <2>1, TakenIsNext
  <2>3. stream = NothingSent /\ ~worker.keyed
    BY <2>1 DEF StreamInv, Before, At
  <2>4. /\ stream' = stream
        /\ \/ worker' = worker
           \/ worker' = [worker EXCEPT !.initial = Append(worker.initial, Head(queue))]
           \/ /\ worker' = [worker EXCEPT !.pc = "startMux", !.packet = Head(queue)]
              /\ Head(queue).kind # "audio" /\ Head(queue).key
    BY <1>22 DEF AwaitKeyframe
  <2>5. Head(queue).kind # "audio" => Head(queue).kind = "video"
    BY <2>2 DEF Media
  <2> QED
    BY <1>0, <2>1, <2>2, <2>3, <2>4, <2>5, NonePacket
    DEF StreamInv, WorkerState, At, Before
<1>23. CASE StartMux
  <2>1. At("startMux") /\ worker.packet.kind = "video" /\ worker.packet # None
    BY <1>23 DEF StartMux, StreamInv
  <2>2. worker.packet.pts # 0
    BY <1>0, <2>1 DEF WorkerState, Packet, Media
  <2>3. worker'.pc = "send"
    BY <1>0, <1>23 DEF StartMux, WorkerState
  <2> QED
    BY <1>23, <2>2, <2>3, StartMuxLeaves DEF StreamInv, At, Before
<1>24. CASE Take
  <2>1. Pops /\ At("send")
    BY <1>24 DEF Take
  <2>2. /\ Head(queue) \in Media
        /\ Head(queue).kind = "video" /\ stream.video # 0 =>
             Head(queue).pts = stream.video + 1
    BY <2>1, TakenIsNext
  <2>3. stream' = stream /\ worker'.pc = "deliver" /\ worker'.packet = Head(queue)
        /\ worker'.keyed = worker.keyed /\ protocol' = protocol
    BY <1>0, <1>24 DEF Take, WorkerState
  <2> QED
    BY <2>1, <2>2, <2>3, NonePacket DEF StreamInv, At, Before
<1>25. CASE DeliverWhip
  <2> DEFINE p == worker.packet
             goes == p.kind = "video" /\ (worker.keyed \/ p.key)
  <2>1. At("deliver") /\ p \in Media
    BY <1>0, <1>25 DEF DeliverWhip, StreamInv, WorkerState, Packet
  <2>2. worker'.pc = "send" /\ (worker'.keyed <=> worker.keyed \/ goes)
    BY <1>0, <1>25 DEF DeliverWhip, WorkerState
  <2>3. stream'.video = IF goes THEN p.pts ELSE stream.video
    BY <1>25 DEF DeliverWhip, Sent, Typed, Stream
  <2>4. goes => p.pts # 0
    BY <2>1 DEF Media
  <2>5. (worker.keyed <=> stream.video # 0) /\ protocol = "whip" /\ protocol' = protocol
    BY <1>25, <2>1 DEF StreamInv, At, DeliverWhip
  <2> HIDE DEF goes
  <2> QED
    BY <2>2, <2>3, <2>4, <2>5 DEF StreamInv, At, Before
<1>26. CASE VideoOfOtherSize
  BY <1>26, <1>0 DEF StreamInv, WorkerState, Before, At, Throw,
     VideoOfOtherSize, capture
<1>27. CASE DeliverMuxVideo
  <2> DEFINE p == worker.packet
  <2>1. At("deliver") /\ p \in Media /\ p.kind = "video"
    BY <1>0, <1>27 DEF DeliverMuxVideo, StreamInv, WorkerState, Packet
  <2>2. worker'.pc = "send" /\ worker'.keyed = worker.keyed
    BY <1>0, <1>27 DEF DeliverMuxVideo, WorkerState
  <2>3. stream'.video = p.pts
    BY <1>27, DeliverMuxVideoSends
  <2>4. p.pts # 0
    BY <2>1 DEF Media
  <2>5. worker.keyed /\ protocol' = protocol
    BY <1>27, <2>1 DEF StreamInv, At, DeliverMuxVideo
  <2> QED
    BY <2>2, <2>3, <2>4, <2>5 DEF StreamInv, At, Before
<1>28. CASE DeliverMuxAudio
  <2>1. At("deliver") /\ protocol' = protocol
    BY <1>28 DEF DeliverMuxAudio
  <2>2. worker'.pc = "send" /\ worker'.keyed = worker.keyed
    BY <1>0, <1>28 DEF DeliverMuxAudio, WorkerState
  <2>3. stream'.video = stream.video
    BY <1>28 DEF DeliverMuxAudio, Heard, Typed, Stream
  <2> QED
    BY <2>1, <2>2, <2>3 DEF StreamInv, At, Before
<1>29. CASE MuxProgress
  BY <1>29, <1>0 DEF StreamInv, WorkerState, Before, At, MuxProgress, capture
<1>30. CASE UNCHANGED vars
  BY <1>30, <1>0 DEF StreamInv, WorkerState, Before, At, vars
<1> QED
  BY <1>1, <1>2, <1>3, <1>4, <1>5, <1>6, <1>7, <1>8, <1>9, <1>10, <1>11,
     <1>12, <1>13, <1>14, <1>15, <1>16, <1>17, <1>18, <1>19, <1>20, <1>21,
     <1>22, <1>23, <1>24, <1>25, <1>26, <1>27, <1>28, <1>29, <1>30 DEF Next,
     Owner, Capture, Worker

\* A step that leaves the queue, the last packet pushed and a request to
\* restart alone keeps what follows the packet in hand or sent.
LEMMA SameFollows ==
  ASSUME FollowsInv, Last' = Last, Pushed' = Pushed, queue' = queue,
         restartRequested' = restartRequested, worker.pc \in Connected
  PROVE  FollowsInv'
  BY DEF FollowsInv, Through

\* The queue continues what was sent or taken, step by step.
LEMMA FollowsKeeps ==
  Typed /\ PlaceInv /\ OfferInv /\ RunInv /\ StreamInv /\ FollowsInv
  /\ [Next]_vars => FollowsInv'
<1> SUFFICES ASSUME Typed, PlaceInv, OfferInv, RunInv, StreamInv, FollowsInv,
                    [Next]_vars, worker'.pc \in Connected, Last' # 0
             PROVE  FollowsInv'
  BY DEF FollowsInv
<1>0. /\ worker \in WorkerState /\ Pushed \in Nat /\ queue \in Seq(Media)
      /\ stream.video \in Nat
  BY PushedType DEF Typed, Stream
<1>1. CASE Push
  <2>1. Last' = Last /\ worker' = worker
    BY <1>1 DEF Push, Last, HasVideo, At
  <2>2. worker.pc \in Connected /\ state # "Error"
    BY <2>1 DEF PlaceInv, Connected
  <2>3. /\ Last <= Pushed /\ Last \in Nat
        /\ \A i \in 1..Len(queue) : queue[i].kind = "video" => Last < queue[i].pts
        /\ ~restartRequested => Through(queue, Last + 1, Pushed)
    BY <1>0, <2>1, <2>2, PacketFields DEF FollowsInv, Last, WorkerState
  <2>4. PICK p \in Media :
          /\ p.kind = "video" => p.pts = Pushed + 1
          /\ Pushed' = IF p.kind = "video" THEN Pushed + 1 ELSE Pushed
          /\ \/ queue' = <<>> /\ restartRequested' = TRUE
             \/ queue' = Append(queue, p) /\ restartRequested' = restartRequested
    BY <1>1, <2>2, PushStep
  <2>5. Last <= Pushed'
    BY <1>0, <2>3, <2>4
  <2>6. CASE queue' = <<>> /\ restartRequested' = TRUE
    BY <2>1, <2>5, <2>6 DEF FollowsInv
  <2>7. CASE queue' = Append(queue, p) /\ restartRequested' = restartRequested
    <3>1. Run(queue, Pushed) /\ Last + 1 \in Nat
      BY <2>2, <2>3 DEF RunInv
    <3>2. ~restartRequested' => Through(queue', Last + 1, Pushed')
      BY <1>0, <2>3, <2>4, <2>7, <3>1, AppendToRun
    <3>3. ASSUME NEW i \in 1..Len(queue'), queue'[i].kind = "video"
          PROVE  Last < queue'[i].pts
      <4>1. (i \in 1..Len(queue) /\ queue'[i] = queue[i]) \/ queue'[i] = p
        BY <1>0, <2>4, <2>7, <3>1, AppendToRun
      <4> QED
        BY <1>0, <2>3, <2>4, <3>3, <4>1
    <3> QED
      BY <2>1, <2>5, <3>2, <3>3 DEF FollowsInv
  <2> QED
    BY <2>4, <2>6, <2>7
<1>2. CASE AwaitKeyframe
  <2>1. Pops /\ At("keyframe")
    BY <1>2 DEF AwaitKeyframe
  <2>2. /\ worker'.pc = "startMux" /\ worker'.packet = Head(queue)
        /\ Head(queue).kind # "audio" /\ queue' = Tail(queue)
        /\ stream' = stream
    BY <1>0, <1>2, <2>1 DEF AwaitKeyframe, WorkerState, Connected, At
  <2>3. Head(queue).kind = "video"
    BY <2>1, <2>2, TakenIsNext DEF Media
  <2>4. Last' = Head(queue).pts
    BY <2>2 DEF Last, HasVideo, At
  <2>5. Pushed' = Pushed
    BY <1>2 DEF AwaitKeyframe, capture, Pushed
  <2> QED
    BY <2>1, <2>2, <2>3, <2>4, <2>5, TakenIsNext DEF FollowsInv
<1>3. CASE Take
  <2>1. Pops /\ At("send")
    BY <1>3 DEF Take
  <2>2. /\ worker'.pc = "deliver" /\ worker'.packet = Head(queue)
        /\ queue' = Tail(queue) /\ stream' = stream
    BY <1>0, <1>3 DEF Take, WorkerState
  <2>3. Pushed' = Pushed
    BY <1>3 DEF Take, capture, Pushed
  <2>4. CASE Head(queue).kind = "video"
    <3>1. Last' = Head(queue).pts
      BY <2>2, <2>4 DEF Last, HasVideo, At
    <3> QED
      BY <2>1, <2>2, <2>3, <2>4, <3>1, TakenIsNext DEF FollowsInv
  <2>5. CASE Head(queue).kind # "video"
    <3>1. Last' = stream.video /\ Last = stream.video
      BY <2>1, <2>2, <2>5 DEF Last, HasVideo, At
    <3>2. stream.video <= Pushed
      BY <2>1, <3>1 DEF FollowsInv, At, Connected
    <3> QED
      BY <2>1, <2>2, <2>3, <2>5, <3>1, <3>2, TakenIsNext DEF FollowsInv
  <2> QED
    BY <2>4, <2>5
<1>4. CASE StartMux \/ DeliverWhip \/ DeliverMuxVideo \/ DeliverMuxAudio
  <2>1. /\ queue' = queue /\ restartRequested' = restartRequested
        /\ Pushed' = Pushed /\ worker'.pc = "send" /\ worker.pc \in Connected
    BY <1>0, <1>4 DEF StartMux, DeliverWhip, DeliverMuxVideo, DeliverMuxAudio,
      capture, Pushed, WorkerState, At, Connected
  <2>2. Last' = stream'.video
    BY <2>1 DEF Last, HasVideo, At
  <2>3. CASE StartMux
    <3>1. Last = worker.packet.pts
      BY <2>3 DEF StartMux, Last, HasVideo
    <3> QED
      BY <2>1, <2>2, <2>3, <3>1, StartMuxLeaves, SameFollows
  <2>4. CASE DeliverMuxVideo
    <3>1. Last = worker.packet.pts
      BY <2>4 DEF DeliverMuxVideo, Last, HasVideo
    <3> QED
      BY <2>1, <2>2, <2>4, <3>1, DeliverMuxVideoSends, SameFollows
  <2>5. CASE DeliverMuxAudio
    <3>1. Last = stream.video
      BY <2>5 DEF DeliverMuxAudio, Last, HasVideo, At
    <3>2. stream'.video = stream.video
      BY <2>5 DEF DeliverMuxAudio, Heard, Typed, Stream
    <3> QED
      BY <2>1, <2>2, <3>1, <3>2, SameFollows
  <2>6. CASE DeliverWhip
    <3> DEFINE p == worker.packet
               goes == p.kind = "video" /\ (worker.keyed \/ p.key)
    <3>1. stream'.video = IF goes THEN p.pts ELSE stream.video
      BY <2>6 DEF DeliverWhip, Sent, Typed, Stream
    <3>2. worker.keyed <=> stream.video # 0
      BY <2>6 DEF DeliverWhip, StreamInv, At
    <3>3. Last = IF p.kind = "video" THEN p.pts ELSE stream.video
      BY <2>6 DEF DeliverWhip, Last, HasVideo, At
    <3>4. Last' = Last
      BY <2>2, <3>1, <3>2, <3>3
    <3> QED
      BY <2>1, <3>4, SameFollows
  <2> QED
    BY <1>4, <2>3, <2>4, <2>5, <2>6
<1>5. CASE WhipGoesLive
  <2>1. stream'.video = 0 /\ worker'.pc = "send"
    BY <1>0, <1>5 DEF WhipGoesLive, StreamInv, At, Goto, Before, WorkerState,
      NothingSent
  <2> QED
    BY <2>1 DEF Last, HasVideo, At
<1>6. CASE UNCHANGED <<queue, worker, stream, restartRequested>> /\ ~Push
  <2>1. Pushed' = Pushed /\ Last' = Last /\ worker.pc \in Connected
    BY <1>6, PushedStays DEF Last, HasVideo, At
  <2> QED
    BY <1>6, <2>1, SameFollows
<1>7. \/ Push \/ AwaitKeyframe \/ Take \/ WhipGoesLive
      \/ StartMux \/ DeliverWhip \/ DeliverMuxVideo \/ DeliverMuxAudio
      \/ UNCHANGED <<queue, worker, stream, restartRequested>>
  <2>1. CASE Owner
    BY <1>0, <2>1 DEF Owner, Start, Stop, Join, Goto, WorkerState, Connected
  <2>2. CASE Capture
    BY <2>2 DEF Capture, OfferVideo, OfferAudio
  <2>3. CASE LoopClears \/ LoopArms \/ LoopEnds \/ EndsInError \/ ErrorClears
             \/ Retry \/ Pause \/ Finish
    BY <1>0, <2>3 DEF LoopClears, LoopArms, LoopEnds, EndsInError, ErrorClears,
      Retry, Pause, Finish, Goto, WorkerState, Connected
  <2>4. CASE StopsAttempt \/ Stalled \/ Fails \/ VideoOfOtherSize
    BY <1>0, <2>4 DEF StopsAttempt, Stalled, Fails, VideoOfOtherSize, Throw,
      Goto, WorkerState, Connected
  <2>5. CASE WhipConnects \/ WhipClears \/ WhipArms
    BY <1>0, <2>5 DEF WhipConnects, WhipClears, WhipArms, Goto, WorkerState,
      Connected
  <2>6. CASE MuxProgress \/ UNCHANGED vars
    BY <2>6 DEF MuxProgress, vars
  <2> QED
    BY <2>1, <2>2, <2>3, <2>4, <2>5, <2>6 DEF Next, Worker
<1> QED
  BY <1>1, <1>2, <1>3, <1>4, <1>5, <1>6, <1>7

\* The marks of the audio stay ahead of what was written.
LEMMA AudioKeeps == Typed /\ PlaceInv /\ StreamInv /\ AudioInv /\ [Next]_vars => AudioInv'
<1> SUFFICES ASSUME Typed, PlaceInv, StreamInv, AudioInv, [Next]_vars PROVE AudioInv'
  OBVIOUS
<1>0. worker \in WorkerState /\ None \in Packet
  BY DEF Typed, Packet
<1>1. CASE Start
  BY <1>1, <1>0 DEF AudioInv, WorkerState, At, Goto, Start, capture
<1>2. CASE Stop
  BY <1>2, <1>0 DEF AudioInv, WorkerState, At, Stop, capture
<1>3. CASE Join
  BY <1>3, <1>0 DEF AudioInv, WorkerState, At, Join, capture
<1>4. CASE OfferVideo
  BY <1>4, <1>0 DEF AudioInv, WorkerState, At, OfferVideo
<1>5. CASE OfferAudio
  BY <1>5, <1>0 DEF AudioInv, WorkerState, At, OfferAudio
<1>6. CASE Push
  BY <1>6, <1>0 DEF AudioInv, WorkerState, At, Push
<1>7. CASE LoopClears
  BY <1>7, <1>0 DEF AudioInv, WorkerState, At, Goto, LoopClears, capture
<1>8. CASE LoopArms
  <2>1. worker'.pc \in {"negotiate", "keyframe"}
    BY <1>0, <1>8 DEF LoopArms, WorkerState
  <2> QED
    BY <2>1 DEF AudioInv
<1>9. CASE LoopEnds
  BY <1>9, <1>0 DEF AudioInv, WorkerState, At, Goto, LoopEnds, capture
<1>10. CASE EndsInError
  BY <1>10, <1>0 DEF AudioInv, WorkerState, At, EndsInError, Goto, capture
<1>11. CASE ErrorClears
  BY <1>11, <1>0 DEF AudioInv, WorkerState, At, ErrorClears, Goto, capture
<1>12. CASE Retry
  BY <1>12, <1>0 DEF AudioInv, WorkerState, At, Retry, capture
<1>13. CASE Pause
  BY <1>13, <1>0 DEF AudioInv, WorkerState, At, Goto, Pause, capture
<1>14. CASE Finish
  BY <1>14, <1>0 DEF AudioInv, WorkerState, At, Finish, Goto, capture
<1>15. CASE StopsAttempt
  BY <1>15, <1>0 DEF AudioInv, WorkerState, At, Goto, StopsAttempt, Waits,
     capture
<1>16. CASE Stalled
  BY <1>16, <1>0 DEF AudioInv, WorkerState, At, Stalled, Throw, capture
<1>17. CASE Fails
  BY <1>17, <1>0 DEF AudioInv, WorkerState, At, Fails, Fault, Throw, Waits,
     capture
<1>18. CASE WhipConnects
  BY <1>18, <1>0 DEF AudioInv, WorkerState, At, Goto, WhipConnects, capture
<1>19. CASE WhipClears
  BY <1>19, <1>0 DEF AudioInv, WorkerState, At, Goto, WhipClears, capture
<1>20. CASE WhipArms
  BY <1>20, <1>0 DEF AudioInv, WorkerState, At, Goto, WhipArms, capture
<1>21. CASE WhipGoesLive
  BY <1>21, <1>0 DEF AudioInv, WorkerState, At, Goto, WhipGoesLive, capture,
     PlaceInv
<1>22. CASE AwaitKeyframe
  BY <1>22, <1>0 DEF AudioInv, WorkerState, At, AwaitKeyframe, capture
<1>23. CASE StartMux
  <2>1. stream'.video \in Nat /\ worker'.silence \in Int
    BY <1>23, StartMuxLeaves DEF WorkerState, Stream
  <2> QED
    BY <1>23, <2>1, StartMuxLeaves DEF AudioInv
<1>24. CASE Take
  BY <1>24, <1>0 DEF AudioInv, WorkerState, At, Take, capture, PlaceInv
<1>25. CASE DeliverWhip
  BY <1>25 DEF AudioInv, DeliverWhip
<1>26. CASE VideoOfOtherSize
  BY <1>26, <1>0 DEF AudioInv, WorkerState, At, Throw, VideoOfOtherSize,
     capture
<1>27. CASE DeliverMuxVideo
  <2> DEFINE p == worker.packet
             from == SilenceFrom(p.pts)
  <2>1. At("deliver") /\ p \in Packet /\ p.kind = "video" /\ protocol = "mux"
    BY <1>0, <1>27 DEF DeliverMuxVideo, WorkerState
  <2>2. p.pts \in Int /\ from \in Int /\ from >= worker.audioEnd
    BY <2>1, PacketFields, SilenceFromType
  <2>3. stream.heard <= worker.audioEnd /\ stream.silent <= worker.silence
        /\ stream.silent <= stream.video
    BY <2>1 DEF AudioInv, At
  <2>4. p.pts = stream.video + 1
    BY <2>1 DEF StreamInv, At
  <2>5. stream.heard \in Int /\ stream.silent \in Int /\ stream.video \in Int
        /\ worker.audioEnd \in Int
    BY <1>0 DEF Typed, Stream, WorkerState
  <2>6. from < p.pts => Max({stream.heard, p.pts}) = p.pts
    BY <2>2, <2>3, <2>5, MaxOfTwo
  <2> HIDE DEF from
  <2> QED
    BY <1>27, <2>2, <2>3, <2>4, <2>5, <2>6, DeliverMuxVideoSends DEF AudioInv, from
<1>28. CASE DeliverMuxAudio
  <2> DEFINE p == worker.packet
             end == p.pts + AudioLength
  <2>1. At("deliver") /\ p \in Packet /\ protocol = "mux"
    BY <1>0, <1>28 DEF DeliverMuxAudio, WorkerState
  <2>2. end \in Int
    BY <2>1, PacketFields, OutputAssumption
  <2>3. stream.heard <= worker.audioEnd /\ stream.silent <= worker.silence
        /\ stream.silent <= stream.video
    BY <2>1 DEF AudioInv, At
  <2>4. stream.heard \in Int /\ worker.audioEnd \in Int
    BY <1>0 DEF Typed, Stream, WorkerState
  <2>5. /\ Max({stream.heard, end}) <= Max({worker.audioEnd, end})
    <3>1. /\ Max({stream.heard, end}) \in {stream.heard, end}
          /\ Max({worker.audioEnd, end}) >= end
          /\ Max({worker.audioEnd, end}) >= worker.audioEnd
          /\ Max({worker.audioEnd, end}) \in {worker.audioEnd, end}
      BY <2>2, <2>4, MaxOfTwo
    <3> QED
      BY <2>2, <2>3, <2>4, <3>1
  <2>6. /\ stream'.video = stream.video /\ stream'.silent = stream.silent
        /\ worker'.silence = worker.silence
    BY <1>0, <1>28 DEF DeliverMuxAudio, Heard, Typed, Stream, WorkerState
  <2>7. \/ stream'.heard = stream.heard /\ worker'.audioEnd = worker.audioEnd
        \/ /\ stream'.heard = Max({stream.heard, end})
           /\ worker'.audioEnd = Max({worker.audioEnd, end})
    BY <1>0, <1>28 DEF DeliverMuxAudio, Heard, Typed, Stream, WorkerState
  <2> HIDE DEF end
  <2> QED
    BY <2>3, <2>5, <2>6, <2>7 DEF AudioInv
<1>29. CASE MuxProgress
  BY <1>29, <1>0 DEF AudioInv, WorkerState, At, MuxProgress, capture
<1>30. CASE UNCHANGED vars
  BY <1>30, <1>0 DEF AudioInv, WorkerState, At, vars
<1> QED
  BY <1>1, <1>2, <1>3, <1>4, <1>5, <1>6, <1>7, <1>8, <1>9, <1>10, <1>11,
     <1>12, <1>13, <1>14, <1>15, <1>16, <1>17, <1>18, <1>19, <1>20, <1>21,
     <1>22, <1>23, <1>24, <1>25, <1>26, <1>27, <1>28, <1>29, <1>30 DEF Next,
     Owner, Capture, Worker

\* The inductive invariant: types and places, the run of video in the queue
\* (push, pop, clearQueue), what a connection has been sent (runWhip, runMux)
\* and what of the run is still to come.
THEOREM StreamInvariant == Spec => []IInv
<1>1. Init => IInv
  <2> SUFFICES ASSUME Init PROVE IInv
    OBVIOUS
  <2>1. Typed
    BY TypedInit
  <2>2. PlaceInv /\ OfferInv
    BY DEF Init, PlaceInv, OfferInv, IdleWorker, At
  <2>3. RunInv
    BY EmptyRun DEF Init, RunInv
  <2>4. StreamInv /\ FollowsInv /\ AudioInv
    BY DEF Init, StreamInv, FollowsInv, AudioInv, IdleWorker, Before, Connected, At
  <2> QED
    BY <2>1, <2>2, <2>3, <2>4 DEF IInv
<1>2. IInv /\ [Next]_vars => IInv'
  BY TypedKeeps, PlaceKeeps, OfferKeeps, RunKeeps, StreamKeeps, FollowsKeeps,
     AudioKeeps DEF IInv
<1> QED
  BY <1>1, <1>2, PTL DEF Spec

\* Each step writes the next video packet, or a first keyframe, and no audio
\* where there is some already.
LEMMA StepIsWhole ==
  ASSUME IInv, [Next]_vars, stream' # stream
  PROVE  VideoContinues /\ AudioContinues
<1>0. Typed /\ StreamInv /\ AudioInv
  BY DEF IInv
<1>1. CASE LoopArms
  BY <1>1 DEF LoopArms, NothingSent, VideoContinues, AudioContinues
<1>2. CASE StartMux
  <2>1. stream = NothingSent
    BY <1>0, <1>2 DEF StartMux, StreamInv, Before, At
  <2>2. stream'.key /\ ~stream'.audio /\ stream' \in Stream
    BY <1>0, <1>2, StartMuxLeaves
  <2>3. stream'.audio = stream.audio /\ stream.video = 0
    BY <2>1, <2>2 DEF NothingSent, Stream
  <2> QED
    BY <2>2, <2>3 DEF VideoContinues, AudioContinues
<1>3. CASE DeliverWhip
  <2> DEFINE p == worker.packet
             goes == p.kind = "video" /\ (worker.keyed \/ p.key)
  <2>1. At("deliver") /\ (worker.keyed <=> stream.video # 0)
    BY <1>0, <1>3 DEF DeliverWhip, StreamInv, At
  <2>2. stream' = Sent(p) /\ goes
    BY <1>3 DEF DeliverWhip
  <2>3. stream'.video = p.pts /\ stream'.key = p.key /\ stream'.audio = stream.audio
    BY <1>0, <2>2 DEF Sent, Typed, Stream
  <2>4. stream.video # 0 => p.pts = stream.video + 1
    BY <1>0, <2>1, <2>2 DEF StreamInv
  <2> QED
    BY <2>1, <2>2, <2>3, <2>4 DEF VideoContinues, AudioContinues
<1>4. CASE DeliverMuxVideo
  <2> DEFINE p == worker.packet
             from == SilenceFrom(p.pts)
  <2>1. At("deliver") /\ p \in Packet /\ p.kind = "video" /\ protocol = "mux"
    BY <1>0, <1>4 DEF DeliverMuxVideo, Typed, WorkerState
  <2>2. p.pts = stream.video + 1 /\ stream.video # 0
    BY <1>0, <2>1 DEF StreamInv, At
  <2>3. /\ stream.heard <= worker.audioEnd /\ stream.silent <= stream.video
    BY <1>0, <2>1 DEF AudioInv, At
  <2>4. p.pts \in Int /\ from \in Int /\ from >= worker.audioEnd
    BY <1>0, <2>1, PacketFields, SilenceFromType
  <2>5. /\ stream.heard \in Int /\ stream.silent \in Int /\ stream.video \in Int
        /\ worker.audioEnd \in Int
    BY <1>0 DEF Typed, Stream, WorkerState
  <2> HIDE DEF from
  <2>6. stream'.video = p.pts
    BY <1>0, <1>4, DeliverMuxVideoSends
  <2>7. CASE stream'.audio = stream.audio
    BY <2>2, <2>6, <2>7 DEF VideoContinues, AudioContinues
  <2>8. CASE stream'.from = from /\ stream'.silent = p.pts
    <3>1. stream'.silent # stream.silent /\ stream'.from >= stream.heard
      BY <2>2, <2>3, <2>4, <2>5, <2>8
    <3> QED
      BY <2>2, <2>6, <3>1 DEF VideoContinues, AudioContinues
  <2> QED
    BY <1>0, <1>4, <2>7, <2>8, DeliverMuxVideoSends DEF from
<1>5. CASE DeliverMuxAudio
  <2> DEFINE p == worker.packet
  <2>1. At("deliver") /\ p \in Packet /\ protocol = "mux"
    BY <1>0, <1>5 DEF DeliverMuxAudio, Typed, WorkerState
  <2>2. stream.silent <= worker.silence
    BY <1>0, <2>1 DEF AudioInv, At
  <2>3. AudioFrom(p) \in Int /\ AudioFrom(p) >= worker.silence
    BY <1>0, <2>1, PacketFields, AudioFromType
  <2>4. stream.silent \in Int /\ worker.silence \in Int
    BY <1>0 DEF Typed, Stream, WorkerState
  <2>5. stream' = Heard(stream, AudioFrom(p), p.pts + AudioLength)
    BY <1>5 DEF DeliverMuxAudio
  <2>6. /\ stream'.video = stream.video /\ stream'.silent = stream.silent
        /\ stream'.from = AudioFrom(p)
    BY <1>0, <2>5 DEF Heard, Typed, Stream
  <2> QED
    BY <2>2, <2>3, <2>4, <2>6 DEF VideoContinues, AudioContinues
<1>6. LoopArms \/ StartMux \/ DeliverWhip \/ DeliverMuxVideo \/ DeliverMuxAudio
  <2>1. CASE Owner
    BY <2>1 DEF Owner, Start, Stop, Join
  <2>2. CASE Capture
    BY <2>2 DEF Capture, OfferVideo, OfferAudio, Push
  <2>3. CASE Worker
    BY <2>3 DEF Worker, LoopClears, LoopEnds, EndsInError, ErrorClears, Retry,
      Pause, Finish, StopsAttempt, Stalled, Fails, WhipConnects, WhipClears,
      WhipArms, WhipGoesLive, AwaitKeyframe, Take, VideoOfOtherSize
  <2>4. CASE MuxProgress \/ UNCHANGED vars
    BY <2>4 DEF MuxProgress, vars
  <2> QED
    BY <2>1, <2>2, <2>3, <2>4 DEF Next
<1> QED
  BY <1>1, <1>2, <1>3, <1>4, <1>5, <1>6

\* What a destination receives on one connection begins with a keyframe and has
\* every packet pushed since, in order; no time is given both audio and silence
\* (push, pop, run, runWhip, runMux), for every bound and every fault.
THEOREM WholeTheorem == Spec => StreamIsWhole
<1>1. IInv /\ [Next]_vars => [VideoContinues /\ AudioContinues]_stream
  BY StepIsWhole
<1> QED
  BY <1>1, StreamInvariant, PTL DEF Spec, StreamIsWhole

=============================================================================
