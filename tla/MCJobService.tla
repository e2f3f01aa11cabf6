---------------------------- MODULE MCJobService ----------------------------
(* Small instances of JobService for TLC. *)
EXTENDS JobService

\* Threads are interchangeable, and so are the parts of an expression and the
\* texts that they hold.
DataSymmetry == UNION {Permutations(S) : S \in {WebThreads, Texts, Parts}}
=============================================================================
