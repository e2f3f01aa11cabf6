----------------------------- MODULE MCSessions -----------------------------
(* The threads' symmetry, for TLC. *)
EXTENDS Sessions, TLC

ThreadSymmetry == Permutations(WebThreads)
=============================================================================
