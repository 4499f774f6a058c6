-------------------------- MODULE MCMediaTransport --------------------------
(* Two threads with reports, frames of one or two packets, sequence        *)
(* numbers that wrap within the run.                                       *)
EXTENDS MediaTransport

CONSTANTS h1, h2

MCHandlers == {h1, h2}
MCFrames == {<<2, 1>>}

MCAnswers ==
    {[nack |-> TRUE, pli |-> FALSE, rtx |-> FALSE],
     [nack |-> TRUE, pli |-> TRUE,  rtx |-> TRUE]}

MCReports ==
    {[seqs |-> <<1, 2>>, pli |-> FALSE], [seqs |-> <<>>, pli |-> TRUE]}
=============================================================================
