---------------------------- MODULE MCUserAdmin ----------------------------
(* Small instances of UserAdmin for TLC. *)
EXTENDS UserAdmin, TLC

WebSymmetry == Permutations(WebThreads)
=============================================================================
