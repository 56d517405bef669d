------------------------------- MODULE MCSys -------------------------------
(* Instances of Sys for TLC.                                               *)
EXTENDS Sys, TLC
NoRepeats  == {}
MCRepeats  == {-1, 0, 1}
MCTimerIds == TaskIds \cup MsgIds
Symmetry   == Permutations(Tasks)
=============================================================================
