--------------------------- MODULE MCMemoryOutbox ---------------------------
(***************************************************************************)
(* TLC instances of MemoryOutbox.                                           *)
(***************************************************************************)
EXTENDS MemoryOutbox

Symmetric == Permutations(Workers) \cup Permutations(Entries) \cup Permutations(Messages)
=============================================================================
