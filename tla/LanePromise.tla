----------------------------- MODULE LanePromise -----------------------------
(***************************************************************************)
(* What the effect lane of one user and workspace promises to the external  *)
(* store, whatever becomes of the workers: candidates take their turns in   *)
(* the order of their admission, the rules of the one whose turn it is are  *)
(* written one after the other and once each, and nothing of the next is    *)
(* written before all of them are, or the candidate is given up.            *)
(***************************************************************************)
EXTENDS Naturals

CONSTANTS Candidates, Rules

VARIABLES
    admitted, \* candidates that were ever in the lane
    waiting,  \* those that have not ended
    ahead,    \* those that were admitted before each
    written,  \* how often each rule of each candidate was written
    lost      \* those that were given up

lvars == <<admitted, waiting, ahead, written, lost>>

LaneInit ==
    /\ admitted = {} /\ waiting = {} /\ lost = {}
    /\ ahead = [c \in Candidates |-> {}]
    /\ written = [c \in Candidates |-> [n \in 1 .. Rules |-> 0]]

Foremost(c) == c \in waiting /\ ahead[c] \cap waiting = {}

Admitted(c) ==
    /\ c \notin admitted
    /\ admitted' = admitted \cup {c}
    /\ waiting' = waiting \cup {c}
    /\ ahead' = [ahead EXCEPT ![c] = admitted]
    /\ UNCHANGED <<written, lost>>

\* Only the oldest writes.
RuleWritten(c, n) ==
    /\ Foremost(c)
    /\ \A k \in 1 .. Rules : written[c][k] = IF k < n THEN 1 ELSE 0
    /\ written' = [written EXCEPT ![c][n] = 1]
    /\ UNCHANGED <<admitted, waiting, ahead, lost>>

TurnOver(c) ==
    /\ Foremost(c)
    /\ \A n \in 1 .. Rules : written[c][n] = 1
    /\ waiting' = waiting \ {c}
    /\ UNCHANGED <<admitted, ahead, written, lost>>

GivenUp(c) ==
    /\ c \in waiting
    /\ waiting' = waiting \ {c}
    /\ lost' = lost \cup {c}
    /\ UNCHANGED <<admitted, ahead, written>>

LaneNext ==
    \E c \in Candidates :
        \/ Admitted(c) \/ TurnOver(c) \/ GivenUp(c)
        \/ \E n \in 1 .. Rules : RuleWritten(c, n)

LaneSpec == LaneInit /\ [][LaneNext]_lvars
=============================================================================
