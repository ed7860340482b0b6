------------------------------ MODULE MCRBTree ------------------------------
(* RBTree for TLC: the last node has the key of the first.                 *)
EXTENDS RBTree
=============================================================================
