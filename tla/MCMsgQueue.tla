----------------------------- MODULE MCMsgQueue -----------------------------
(* MsgQueue for TLC.                                                       *)
EXTENDS MsgQueue

Symmetry == Permutations(Proc) \cup Permutations(Page)
=============================================================================
