--------------------- MODULE MCDuplicateOfferRecheck ---------------------
(***************************************************************************)
(* Model-checking instance of DuplicateOfferRecheck: sessions are numbered *)
(* in the order they are reserved.                                         *)
(***************************************************************************)
EXTENDS DuplicateOfferRecheck, TLC

Sessions == 1 .. 1
==========================================================================
