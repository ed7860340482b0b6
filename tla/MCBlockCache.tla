---------------------------- MODULE MCBlockCache ----------------------------
(* BlockCache for TLC.                                                     *)
EXTENDS BlockCache

Symmetry == Permutations(Thread) \cup Permutations(BlockNo)
              \cup Permutations(Buf)
=============================================================================
