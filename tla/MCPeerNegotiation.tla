-------------------------- MODULE MCPeerNegotiation --------------------------
(***************************************************************************)
(* Instances of PeerNegotiation for TLC.  The threads other than the worker*)
(* run the same code, so they may be permuted.                             *)
(***************************************************************************)
EXTENDS PeerNegotiation, TLC

ThreadSymmetry == Permutations(Threads \ {Worker})
=============================================================================
