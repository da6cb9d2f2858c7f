---------------------------- MODULE ToolPromise -----------------------------
(***************************************************************************)
(* What the tool effect ledger promises: an effect is intended before it    *)
(* happens, one that must not repeat happens at most once, its one outcome  *)
(* stays, a result is only recorded for something that happened, and a      *)
(* call is told a result only when that is the recorded outcome.            *)
(***************************************************************************)
EXTENDS Naturals

CONSTANTS Effects, Calls, KeyOf, Repeatable

VARIABLES
    outcome,   \* "none", "pending", then "result" or "unknown" for ever
    happened,  \* how often the effect took place, counted up to 2
    told       \* the calls that were given a result

pvars == <<outcome, happened, told>>

PromiseInit ==
    /\ outcome = [e \in Effects |-> "none"]
    /\ happened = [e \in Effects |-> 0]
    /\ told = {}

Intended(e) ==
    /\ outcome[e] = "none"
    /\ outcome' = [outcome EXCEPT ![e] = "pending"]
    /\ UNCHANGED <<happened, told>>

\* A repetition may come late, even after the outcome was recorded.
Happens(e) ==
    /\ outcome[e] # "none"
    /\ happened[e] < IF e \in Repeatable THEN 2 ELSE 1
    /\ happened' = [happened EXCEPT ![e] = @ + 1]
    /\ UNCHANGED <<outcome, told>>

\* The outcome is recorded; whoever recorded a result may take it along.
Decided(e, o) ==
    /\ outcome[e] = "pending"
    /\ o = "result" => happened[e] > 0
    /\ outcome' = [outcome EXCEPT ![e] = o]
    /\ told' \in {told} \cup {told \cup {c} : c \in {d \in Calls :
                                 o = "result" /\ KeyOf[d] = e}}
    /\ UNCHANGED happened

Told(c) ==
    /\ outcome[KeyOf[c]] = "result"
    /\ told' = told \cup {c}
    /\ UNCHANGED <<outcome, happened>>

PromiseNext ==
    \/ \E e \in Effects : \/ Intended(e) \/ Happens(e)
                          \/ \E o \in {"result", "unknown"} : Decided(e, o)
    \/ \E c \in Calls : Told(c)

PromiseSpec == PromiseInit /\ [][PromiseNext]_pvars
=============================================================================
