------------------------------ MODULE MCYmodem ------------------------------
(* An instance of Ymodem for TLC.                                          *)
EXTENDS Ymodem
MCSizes == <<3, 1, 0>>
=============================================================================
