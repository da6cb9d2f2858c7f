----------------------------- MODULE ChatTurns ------------------------------
(***************************************************************************)
(* What a chat promises about its turns, whatever processes, leases and    *)
(* recovery do underneath: one open turn at a time, a verdict per turn that *)
(* stays, an answer only for a turn that was never set aside, and a queued *)
(* turn that follows its predecessor with no other turn in between.        *)
(***************************************************************************)
CONSTANTS Turns, Chats, None

Settled == {"answered", "failed", "cancelled"}
States  == {"absent", "open", "parked"} \cup Settled

VARIABLES
    state,    \* what became of each turn
    chat      \* the chat it belongs to

tvars == <<state, chat>>

TurnsTypeOK ==
    /\ state \in [Turns -> States]
    /\ chat \in [Turns -> Chats \cup {None}]

TurnsInit ==
    /\ state = [t \in Turns |-> "absent"]
    /\ chat = [t \in Turns |-> None]

\* No turn of chat c is open, t aside.
Quiet(c, t) == \A u \in Turns \ {t} : chat[u] = c => state[u] # "open"

Open(t, c) ==
    /\ state[t] = "absent"
    /\ Quiet(c, t)
    /\ state' = [state EXCEPT ![t] = "open"]
    /\ chat' = [chat EXCEPT ![t] = c]

\* Only an open turn is answered.
Answer(t) ==
    /\ state[t] = "open"
    /\ state' = [state EXCEPT ![t] = "answered"]
    /\ UNCHANGED chat

\* The next queued turn opens in the very step that answers its predecessor.
AnswerAndContinue(t, n) ==
    /\ state[t] = "open"
    /\ state[n] = "absent"
    /\ Quiet(chat[t], t)
    /\ state' = [state EXCEPT ![t] = "answered", ![n] = "open"]
    /\ chat' = [chat EXCEPT ![n] = chat[t]]

\* Set aside for a human: never answered afterwards.
Park(t) ==
    /\ state[t] = "open"
    /\ state' = [state EXCEPT ![t] = "parked"]
    /\ UNCHANGED chat

End(t, verdict) ==
    /\ state[t] \in {"open", "parked"}
    /\ state' = [state EXCEPT ![t] = verdict]
    /\ UNCHANGED chat

TurnsNext ==
    \E t \in Turns :
        \/ \E c \in Chats : Open(t, c)
        \/ Answer(t)
        \/ \E n \in Turns : AnswerAndContinue(t, n)
        \/ Park(t)
        \/ \E v \in {"failed", "cancelled"} : End(t, v)

TurnsSpec == TurnsInit /\ [][TurnsNext]_tvars
=============================================================================
