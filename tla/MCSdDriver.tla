----------------------------- MODULE MCSdDriver -----------------------------
(* SdDriver for TLC.                                                       *)
EXTENDS SdDriver
=============================================================================
