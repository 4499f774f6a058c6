-------------------------- MODULE MCViewerControl --------------------------
(* One room or direct viewer against a publisher whose configuration, room *)
(* and capture change under it.                                            *)
EXTENDS ViewerControl

CONSTANTS v1

MCViewers == {v1}
MCRates == {1, 2}

MCSettings ==
    {[codec |-> "h264",  alpha |-> FALSE, rate |-> 1],
     [codec |-> "h264",  alpha |-> TRUE,  rate |-> 1],
     [codec |-> "other", alpha |-> FALSE, rate |-> 1]}

(* A role, a second role that is routed differently, a change of media     *)
(* without a role, a role nobody knows, the alpha capability, the route,   *)
(* a director's mute, and what needs authority.                            *)
MCMessages ==
    {[Ping EXCEPT !.role = "scene"],
     [Ping EXCEPT !.role = "director"],
     [Ping EXCEPT !.role = "bad"],
     [Ping EXCEPT !.video = "off", !.route = "off"],
     [Ping EXCEPT !.info = TRUE, !.alpha = "on"],
     [Ping EXCEPT !.info = TRUE, !.alpha = "off", !.role = "viewer", !.route = "on"],
     [Ping EXCEPT !.rate = 2, !.mute = "on"],
     [Ping EXCEPT !.hangup = TRUE, !.token = TRUE]}
=============================================================================
