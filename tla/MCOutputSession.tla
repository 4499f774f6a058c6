--------------------------- MODULE MCOutputSession ---------------------------
(* Two packets fill the queue; a third video packet, or audio, overflows it.  *)
EXTENDS OutputSession
=============================================================================
