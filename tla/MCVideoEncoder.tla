---------------------------- MODULE MCVideoEncoder ----------------------------
(* Two frames fill a pipe, one the input queue; a stalled output is noticed   *)
(* after three identities, and two frames prepare a handover.                 *)
EXTENDS VideoEncoder
=============================================================================
