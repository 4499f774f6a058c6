------------------------------ MODULE FrameEncoder ------------------------------
(***************************************************************************)
(* What the send path expects of a video encoder.                          *)
(*                                                                         *)
(* The encoder takes live frames one by one and returns packets, late if it*)
(* likes.  A packet encodes a frame that was taken, later than those of the*)
(* packets before it, and names that frame or none; it never names another *)
(* one.  Frames may be lost.  What the encoder returns first after it was  *)
(* started, restarted or replaced is a keyframe.                           *)
(***************************************************************************)
EXTENDS Integers, Sequences, Functions

CONSTANTS
  Frames,    \* the live frames, numbered in the order of capture
  Unnamed    \* the source of a packet that names no frame

VARIABLES
  inside,    \* the frames taken and not yet returned
  returned,  \* the packets returned
  fresh      \* nothing was returned since the encoder was last started

vars == <<inside, returned, fresh>>

Init == inside = <<>> /\ returned = <<>> /\ fresh = TRUE

\* A frame later than every frame taken before.
Take ==
  /\ \E f \in Frames :
       /\ \A i \in 1..Len(inside) : inside[i] < f
       /\ \A i \in 1..Len(returned) : returned[i].frame < f
       /\ inside' = Append(inside, f)
  /\ UNCHANGED <<returned, fresh>>

Return ==
  /\ \E i \in 1..Len(inside), key \in BOOLEAN :
       \E source \in {inside[i], Unnamed} :
         /\ fresh => key
         /\ returned' = Append(returned,
              [frame |-> inside[i], source |-> source, key |-> key])
         /\ inside' = SubSeq(inside, i + 1, Len(inside))
  /\ fresh' = FALSE

\* Some of the frames inside are given up.
Lose ==
  /\ \E kept \in SUBSET Range(inside) :
       inside' = SelectSeq(inside, LAMBDA f : f \in kept)
  /\ UNCHANGED <<returned, fresh>>

Start ==
  /\ inside' = <<>> /\ fresh' = TRUE
  /\ UNCHANGED returned

Next == Take \/ Return \/ Lose \/ Start

Spec == Init /\ [][Next]_vars
=============================================================================
