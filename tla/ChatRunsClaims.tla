--------------------------- MODULE ChatRunsClaims ---------------------------
(***************************************************************************)
(* How ChatRuns implements ChatTurns, and what comments and docstrings of   *)
(* the code say of chat runs that the code does not do.                     *)
(***************************************************************************)
EXTENDS ChatRuns

\* A live row without the writer slot is a run that needed attention and was
\* reopened by a tool sweep: it stays set aside.
TurnState(r) ==
    CASE run[r].status = "absent"    -> "absent"
      [] run[r].status = "completed" -> "answered"
      [] run[r].status \in {"failed", "cancelled"} -> run[r].status
      [] run[r].status \in Live /\ run[r].slot -> "open"
      [] OTHER -> "parked"

T == INSTANCE ChatTurns WITH
        Turns <- Runs,
        state <- [r \in Runs |-> TurnState(r)],
        chat  <- [r \in Runs |-> run[r].chat]

\* The chat runs implement the turns of a chat: one open turn per chat, verdicts
\* that stay, no answer for a run that was set aside, hand-off without a gap.
ImplementsTurns == T!TurnsSpec

-----------------------------------------------------------------------------
\* chat_run_executor.py:367, _acknowledge_terminal_writer: "Release the writer
\* fence only after the owning worker has stopped writing."
FenceOutlivesOwner ==
    [][\A r \in Runs :
          /\ run[r].status \in Stopped /\ run[r].slot /\ ~run'[r].slot
          /\ lastOwner[r] # None
          => worker[lastOwner[r]].pc \notin {"working", "snapped", "stopping"}
      ]_vars

\* chat_run_executor.py:1933-1935: "Once fenced, the old worker must not persist
\* fallback messages or publish a terminal - except when the fencing came from
\* the user's own cancel."  A worker fenced by a takeover is not the last owner.
OnlyLastOwnerPersists ==
    [][\A r \in Runs :
          (message'[r] # message[r] /\ message'[r].kind = "partial")
             => message'[r].by = lastOwner[r]]_vars

\* run_journal.py:761, recover(): a run fails with "server restarted before the
\* accepted run was prepared" only if the process that prepares it is gone.
PreparingIsNotOrphaned ==
    [][\A r \in Runs :
          /\ handler[r].st = "preparing"
          /\ run[r].status = "pending"
          /\ run'[r].status = "failed"
          => handler'[r].st = "none"]_vars

\* chat_run_executor.py:1400-1403: "If this worker disappears
\* before the next model snapshot, a replacement worker resumes from this
\* context instead of losing an already-applied instruction."
AppliedSteerIsResumed ==
    [][\A r \in Runs :
          (run[r].phase = "steer_committed" /\ Claimable(r))
             => run'[r].status # "needs_attention"]_vars
=============================================================================
