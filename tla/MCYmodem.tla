------------------------------ MODULE MCYmodem ------------------------------
(* Values for TLC.                                                         *)
EXTENDS Ymodem
MCSize == <<3, 1>>
=============================================================================
