------------------------------ MODULE MCSdInit ------------------------------
(* SdInit for TLC.                                                         *)
EXTENDS SdInit
=============================================================================
