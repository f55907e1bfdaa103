----------------------------- MODULE MCPlayout -----------------------------
(* Playout with anchors that put the first frames in the past, on time and *)
(* so far in the future that the stuck-anchor guard has to trip.           *)
EXTENDS Playout

MCAnchors == {-3, 1}
=============================================================================
