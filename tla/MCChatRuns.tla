----------------------------- MODULE MCChatRuns -----------------------------
(***************************************************************************)
(* TLC instances of ChatRuns.                                              *)
(***************************************************************************)
EXTENDS ChatRunsClaims, TLC

Symmetric == Permutations(Runs) \cup Permutations(Workers) \cup Permutations(Procs)
=============================================================================
