----------------------------- MODULE MCSysPlus -----------------------------
(* Instances of SysPlus for TLC.                                           *)
EXTENDS SysPlus
=============================================================================
