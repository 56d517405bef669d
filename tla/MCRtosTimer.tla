---------------------------- MODULE MCRtosTimer ----------------------------
(* Instances of RtosTimer for TLC.                                         *)
EXTENDS RtosTimer
MCRepeats == {-1, 0, 1}
=============================================================================
