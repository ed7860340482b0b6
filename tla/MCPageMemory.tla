---------------------------- MODULE MCPageMemory ----------------------------
(* PageMemory for TLC.                                                     *)
EXTENDS PageMemory
=============================================================================
