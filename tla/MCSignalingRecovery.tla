------------------------ MODULE MCSignalingRecovery ------------------------
(***************************************************************************)
(* Model-checking instance of SignalingRecovery: model values for two      *)
(* sockets come from the configurations.  Two are enough for an active     *)
(* socket and one that is retired, or destroyed with a callback under way. *)
(***************************************************************************)
EXTENDS SignalingRecovery, TLC
=============================================================================
