---------------------------- MODULE MCSteerQueue ----------------------------
(***************************************************************************)
(* TLC instances of SteerQueue.                                            *)
(***************************************************************************)
EXTENDS SteerQueue, TLC

Symmetric == Permutations(Items) \cup Permutations(Workers) \cup Permutations(Requests)
=============================================================================
