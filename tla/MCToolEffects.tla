---------------------------- MODULE MCToolEffects ----------------------------
(***************************************************************************)
(* TLC instances of ToolEffects.                                            *)
(***************************************************************************)
EXTENDS ToolEffects, TLC

CONSTANTS r1, r2, e1, e2, c1, c3

\* Calls of one run that share an explicit key, a third with its own key, and
\* calls of two runs of one user that share an explicit key.
OneRun  == [c \in Calls |-> r1]
TwoRuns == [c \in Calls |-> IF c = c1 THEN r1 ELSE r2]
OneKey  == [c \in Calls |-> e1]
TwoKeys == [c \in Calls |-> IF c = c3 THEN e2 ELSE e1]

Reconciled == [e \in Effects |-> "reconcile"]
Mixed      == [e \in Effects |-> IF e = e1 THEN "never_replay" ELSE "reconcile"]

SweepSymmetry == Permutations(Sweepers)
=============================================================================
