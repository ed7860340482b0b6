---------------------------- MODULE MCCommitLog -----------------------------
(* CommitLog for TLC: the symmetries of the model.                         *)
EXTENDS CommitLog, TLC

Symmetry == Permutations(Thread) \cup Permutations(Block) \cup Permutations(Data)
=============================================================================
