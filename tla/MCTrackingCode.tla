--------------------------- MODULE MCTrackingCode ---------------------------
(* The globals' initial value 0, and another.                              *)
EXTENDS TrackingCode

MCValues == {0, 1}
=============================================================================
