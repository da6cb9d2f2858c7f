---------------------------- MODULE MCJobRuntime ----------------------------
(***************************************************************************)
(* TLC instances of JobRuntime.                                             *)
(***************************************************************************)
EXTENDS JobRuntime, TLC

Symmetric == Permutations(Items) \cup Permutations(Procs)
=============================================================================
