-------------------------- MODULE MCKnowledgeBase --------------------------
(***************************************************************************)
(* TLC instances of KnowledgeBase.                                         *)
(***************************************************************************)
EXTENDS KnowledgeBase
=============================================================================
