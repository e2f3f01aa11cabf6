------------------------- MODULE MCExecutionEngine -------------------------
(* Small instances of ExecutionEngine for TLC.  No symmetry: the runs check   *)
(* liveness, for which it is not sound.                                       *)
EXTENDS ExecutionEngine
=============================================================================
