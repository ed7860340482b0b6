--------------------------- MODULE MCSleepWakeup ----------------------------
(* SleepWakeup for TLC.                                                    *)
EXTENDS SleepWakeup, TLC

Symmetry == Permutations(Proc \ {Root}) \cup Permutations(Cpu)
=============================================================================
