----------------------------- MODULE JobPromise -----------------------------
(***************************************************************************)
(* What a batch job promises to the chat that ordered it: an attempt is     *)
(* live until it is stopped or ends, it ends once, completed only if there  *)
(* is a result; once it has ended its announcement falls due, once, and is  *)
(* made or lost; only a new attempt brings the job to life; results stay.   *)
(***************************************************************************)
EXTENDS Naturals

CONSTANTS Items, Attempts

VARIABLES
    epoch,     \* attempts begun
    phase,     \* of the last one: "none", "live", "stopped", "completed", "failed"
    marked,    \* its announcement has fallen due
    due,       \* attempts whose announcement is due
    announced, \* how often the end of each was announced
    results    \* items with a result

jvars == <<epoch, phase, marked, due, announced, results>>

Over == {"completed", "failed"}

JobInit ==
    /\ epoch = 0 /\ phase = "none" /\ marked = FALSE
    /\ due = {}
    /\ announced = [a \in Attempts |-> 0]
    /\ results = {}

Begun ==
    /\ epoch + 1 \in Attempts
    /\ epoch' = epoch + 1 /\ phase' = "live" /\ marked' = FALSE
    /\ UNCHANGED <<due, announced, results>>

Stopped ==
    /\ phase = "live" /\ phase' = "stopped"
    /\ UNCHANGED <<epoch, marked, due, announced, results>>

\* An attempt that was stopped may still be called off.
Ended(how) ==
    /\ phase \in {"live", "stopped"}
    /\ how = "completed" => results # {}
    /\ phase' = how
    /\ UNCHANGED <<epoch, announced, results>>

FallsDue ==
    /\ phase' \in Over /\ ~marked
    /\ marked' = TRUE
    /\ due' = due \cup {epoch}

Announced(a) ==
    /\ a \in due /\ announced[a] = 0
    /\ due' = due \ {a}
    /\ announced' = [announced EXCEPT ![a] = 1]
    /\ UNCHANGED <<epoch, phase, marked, results>>

\* The chat is busy, or the process dies that was about to tell it.
Lost(lost) ==
    /\ due' = due \ lost
    /\ UNCHANGED <<epoch, phase, marked, announced, results>>

ResultAdded(i) ==
    /\ results' = results \cup {i}
    /\ UNCHANGED <<epoch, phase, marked, due, announced>>

JobNext ==
    \/ Begun \/ Stopped
    \/ \E how \in Over : Ended(how) /\ (FallsDue \/ UNCHANGED <<marked, due>>)
    \/ FallsDue /\ UNCHANGED <<epoch, phase, announced, results>>
    \/ \E a \in due : Announced(a)
    \/ \E lost \in SUBSET due : Lost(lost)
    \/ \E i \in Items : ResultAdded(i)

JobSpec == JobInit /\ [][JobNext]_jvars
=============================================================================
