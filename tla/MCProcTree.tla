----------------------------- MODULE MCProcTree -----------------------------
(* ProcTree for TLC.  No symmetry: ExitCompletes is a liveness property.   *)
EXTENDS ProcTree, TLC
=============================================================================
