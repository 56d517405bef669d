----------------------------- MODULE MCNetCtrl -----------------------------
(* Instances of NetCtrl for TLC.                                           *)
EXTENDS NetCtrl, TLC

\* the ctrls are interchangeable; only for runs without liveness
CtrlSymmetry == Permutations(Ctrl)
=============================================================================
