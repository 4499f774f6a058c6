--------------------------- MODULE MCAlphaPipeline ---------------------------
(***************************************************************************)
(* The video pipeline with one transparent source, for TLC.                *)
(***************************************************************************)
EXTENDS AlphaPipeline
=============================================================================
