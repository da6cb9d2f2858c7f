--------------------------- MODULE ChatTurnsProofs --------------------------
(***************************************************************************)
(* More proofs about ChatRuns, for any sets of runs, chats, workers and    *)
(* processes and any disturbances: verdicts and answers, that no recorded  *)
(* model call is replayed, the hand-off of the slot, and that the rows     *)
(* implement the turns of ChatTurns.                                       *)
(***************************************************************************)
EXTENDS ChatRunsClaims, ChatRunsProofs

-----------------------------------------------------------------------------
(* What a step does to the rows and to what they show.  Every transaction   *)
(* writes one row, but for the hand-off, which writes the successor too.    *)

\* What happens to a row that is there: it keeps its status, goes on, is stopped, or is reopened.
\* A run that stops with its tool call open gives up its slot.
Goes(old, new) ==
    /\ new.chat = old.chat
    /\ \/ new.status = old.status /\ (old.status \in Live => new.slot = old.slot)
       \/ {old.status, new.status} \subseteq Live /\ new.slot = old.slot
       \/ old.status \in Live /\ new.status \in Stopped \ {"completed"}
       \/ /\ old.status = "needs_attention" /\ old.effect = "open"
          /\ new.status = "running" /\ new.slot = old.slot
    /\ new.status = "needs_attention" /\ new.effect = "open" /\ new.slot =>
          old.status = "needs_attention" /\ old.effect = "open" /\ old.slot

Unshown(r) == message' = message
Apologises(r) ==
    /\ run[r].status \in Live /\ run'[r].status = "failed"
    /\ \E w \in Workers : message' = [message EXCEPT ![r] = [kind |-> "error", by |-> w]]
Trails(r) ==
    /\ run' = run /\ run[r].status = "cancelled"
    /\ \E w \in Workers : message' = [message EXCEPT ![r] = [kind |-> "partial", by |-> w]]

Moves(r) ==
    /\ \A q \in Runs \ {r} : run'[q] = run[q]
    /\ Goes(run[r], run'[r])
    /\ Unshown(r) \/ Apologises(r) \/ Trails(r)

Opens(r) ==
    /\ run[r].status = "absent"
    /\ \E c \in Chats : SlotFree(c) /\ run' = [run EXCEPT ![r] = PendingRow(c, FALSE)]
    /\ message' = message

Answers(w) ==
    /\ worker[w].pc \in {"snapped", "recommitting"}
    /\ \E next \in Runs \cup {None} : CommitOutput(w, next) /\ worker'[w].next = next

RowsMove ==
    \/ UNCHANGED <<run, message>>
    \/ \E r \in Runs : Moves(r) \/ Opens(r)
    \/ \E w \in Workers : Answers(w)

-----------------------------------------------------------------------------
(* Verdicts.  An error message belongs to a failed run, so that the partial *)
(* answer of a cancelled one does not replace it.                           *)

ErrorsFailed == \A r \in Runs : message[r].kind = "error" => run[r].status = "failed"

VerdictInv == AnswerMatchesVerdict /\ ErrorsFailed

-----------------------------------------------------------------------------
(* No replay.  A run that has recorded a model call is not restarted: a     *)
(* decision to restart it was made before and is too late, since another    *)
(* worker holds the row.                                                    *)

Asked(r) == dispatched[r] # {}

\* Someone restarts the request, or is about to.
Resuming(r) ==
    \/ \E p \in Procs : <<r, "resume">> \in todo[p]
    \/ \E w \in Workers :
          /\ worker[w].run = r
          /\ \/ worker[w].pc = "claiming"
             \/ worker[w].pc = "spawned" /\ worker[w].recovering

NotBegun == \A r \in Runs : run[r].status \in {"absent", "pending"} => ~Asked(r) /\ run[r].owner = None
AskedPast == \A r \in Runs : Asked(r) => run[r].phase \notin PreModel
TooLate ==
    \A r \in Runs : Asked(r) /\ run[r].status \in Live /\ Resuming(r)
                        => run[r].owner \in Workers /\ run[r].fresh
OwnerAsks ==
    \A w \in Workers :
        /\ worker[w].pc = "starting" /\ Owned(w) => ~Asked(worker[w].run)
        /\ worker[w].pc = "working" /\ Owned(w) => dispatched[worker[w].run] \subseteq {w}

ReplayInv == NotBegun /\ AskedPast /\ TooLate /\ OwnerAsks /\ NoModelReplay

-----------------------------------------------------------------------------
(* Turns.                                                                   *)

SetAside == \A r \in Runs : run[r].status = "needs_attention" /\ run[r].effect = "open" => ~run[r].slot

-----------------------------------------------------------------------------
(* How the operations on a row are moves.                                   *)

\* Every operation on a row is such a move.
LEMMA GoesOps ==
    ASSUME NEW row \in Row
    PROVE  /\ Goes(row, row) /\ Goes(row, Acked(row)) /\ Goes(row, Unleased(row))
           /\ \A phase \in Phases : Goes(row, [row EXCEPT !.phase = phase])
           /\ Goes(row, [row EXCEPT !.fresh = FALSE]) /\ Goes(row, [row EXCEPT !.snap = TRUE])
           /\ row.status \in Settled => Goes(row, [row EXCEPT !.effect = "unknown"])
           /\ row.status \in Live =>
                 /\ Goes(row, Started(row)) /\ Goes(row, Abandoned(row)) /\ Goes(row, Cancelled(row))
                 /\ Goes(row, Completed(row, "failed")) /\ Goes(row, Paused(row))
                 /\ Goes(row, Unknown(row)) /\ Goes(row, [row EXCEPT !.status = "failed"])
                 /\ \A w \in Workers : Goes(row, Granted(row, w))
                 /\ \A e \in Effects : Goes(row, InTool(row, e))
           /\ row.status \in Live \cup {"needs_attention"} /\ row.effect = "open" =>
                 \A p \in Procs : Goes(row, Reopened(row, p))
  <1> USE DEF Goes, Row, Live, Stopped, Settled
  <1>1. Goes(row, row) /\ Goes(row, Acked(row)) /\ Goes(row, Unleased(row))
    BY DEF Acked, Unleased
  <1>2. /\ \A phase \in Phases : Goes(row, [row EXCEPT !.phase = phase])
        /\ Goes(row, [row EXCEPT !.fresh = FALSE]) /\ Goes(row, [row EXCEPT !.snap = TRUE])
        /\ row.status \in Settled => Goes(row, [row EXCEPT !.effect = "unknown"])
    OBVIOUS
  <1>3. row.status \in Live =>
            Goes(row, Started(row)) /\ Goes(row, Abandoned(row)) /\ Goes(row, Cancelled(row))
    BY DEF Started, Abandoned, Cancelled
  <1>4. row.status \in Live => Goes(row, Completed(row, "failed")) /\ Goes(row, Paused(row))
    BY DEF Completed, Paused
  <1>5. row.status \in Live => Goes(row, Unknown(row)) /\ Goes(row, [row EXCEPT !.status = "failed"])
    BY DEF Unknown
  <1>6. row.status \in Live => /\ \A w \in Workers : Goes(row, Granted(row, w))
                               /\ \A e \in Effects : Goes(row, InTool(row, e))
    BY DEF Granted, InTool
  <1>7. row.status \in Live \cup {"needs_attention"} /\ row.effect = "open" =>
            \A p \in Procs : Goes(row, Reopened(row, p))
    BY DEF Reopened
  <1> HIDE DEF Goes, Row, Live, Stopped, Settled
  <1> QED BY <1>1, <1>2, <1>3, <1>4, <1>5, <1>6, <1>7

\* A transaction that writes one row and no message is a move of that row.
LEMMA Moved ==
    ASSUME Typed, NEW r \in Runs, NEW row, run' = [run EXCEPT ![r] = row], Goes(run[r], row),
           message' = message
    PROVE  RowsMove
  <1>1. run'[r] = row /\ \A q \in Runs \ {r} : run'[q] = run[q]
    BY DEF Typed, RowsOK
  <1> QED BY <1>1 DEF RowsMove, Moves, Unshown

\* A spawned task has a run, which has a row.
LEMMA TaskOf ==
    ASSUME Typed, NEW w \in Workers, worker[w].pc # "free"
    PROVE  worker[w].run \in Runs /\ run[worker[w].run] \in Row
  BY DEF Typed, RowsOK, TasksOK, TasksHaveRuns


\* Every step does this to the rows and messages.
LEMMA RowsMoveStep ==
    ASSUME Typed, Next
    PROVE  RowsMove
  <1>1. ASSUME NEW w \in Workers, InitialClaim(w) PROVE RowsMove
    <2> DEFINE q == worker[w].run
    <2>1. q \in Runs /\ run[q] \in Row /\ message' = message
      BY <1>1, TaskOf DEF InitialClaim, Live, ghosts
    <2>2. \/ run' = run
          \/ run[q].status \in Live /\ run' = [run EXCEPT ![q] = Started(run[q])]
          \/ run' = [run EXCEPT ![q] = Acked(run[q])]
      BY <1>1 DEF InitialClaim, Live
    <2> HIDE DEF q
    <2> QED BY <2>1, <2>2, Moved, GoesOps DEF RowsMove
  <1>2. ASSUME NEW w \in Workers, JournalClaim(w) PROVE RowsMove
    <2> DEFINE q == worker[w].run
    <2>1. q \in Runs /\ run[q] \in Row /\ message' = message
      BY <1>2, TaskOf DEF JournalClaim, Claims, Claimable, ghosts
    <2>2. \/ run' = run
          \/ run[q].status \in Live /\ run' = [run EXCEPT ![q] = Granted(run[q], w)]
          \/ run' = [run EXCEPT ![q] = Acked(run[q])]
      BY <1>2 DEF JournalClaim, Claims, Claimable
    <2> HIDE DEF q
    <2> QED BY <2>1, <2>2, Moved, GoesOps DEF RowsMove
  <1>3. ASSUME NEW w \in Workers, WorkerStarted(w) PROVE RowsMove
    <2> DEFINE q == worker[w].run
    <2>1. q \in Runs /\ run[q] \in Row /\ message' = message
      BY <1>3, TaskOf DEF WorkerStarted, Phases, PreModel, ghosts
    <2>2. \/ run' = run
          \/ run' = [run EXCEPT ![q] = [run[q] EXCEPT !.phase = "pre_model"]] /\ "pre_model" \in Phases
      BY <1>3 DEF WorkerStarted, Phases, PreModel
    <2> HIDE DEF q
    <2> QED BY <2>1, <2>2, Moved, GoesOps DEF RowsMove
  <1>4. ASSUME NEW w \in Workers, ModelDispatch(w) PROVE RowsMove
    <2> DEFINE q == worker[w].run
    <2>1. q \in Runs /\ run[q] \in Row /\ message' = message
      BY <1>4, TaskOf DEF ModelDispatch, Append, Working, Phases, ghosts
    <2>2. run' = [run EXCEPT ![q] = [run[q] EXCEPT !.phase = "model_inflight"]] /\ "model_inflight" \in Phases
      BY <1>4 DEF ModelDispatch, Append, Working, Phases
    <2> HIDE DEF q
    <2> QED BY <2>1, <2>2, Moved, GoesOps DEF RowsMove
  <1>5. ASSUME NEW w \in Workers, SteerCommitted(w) PROVE RowsMove
    <2> DEFINE q == worker[w].run
    <2>1. q \in Runs /\ run[q] \in Row /\ message' = message
      BY <1>5, TaskOf DEF SteerCommitted, Append, Working, Phases, ghosts
    <2>2. run' = [run EXCEPT ![q] = [run[q] EXCEPT !.phase = "steer_committed"]] /\ "steer_committed" \in Phases
      BY <1>5 DEF SteerCommitted, Append, Working, Phases
    <2> HIDE DEF q
    <2> QED BY <2>1, <2>2, Moved, GoesOps DEF RowsMove
  <1>6. ASSUME NEW w \in Workers, ToolIntent(w) PROVE RowsMove
    <2> DEFINE q == worker[w].run
    <2>1. q \in Runs /\ run[q] \in Row /\ message' = message
      BY <1>6, TaskOf DEF ToolIntent, Effects, Owned, Holds, ghosts
    <2>2. run[q].status \in Live /\ "open" \in Effects /\ run' = [run EXCEPT ![q] = InTool(run[q], "open")]
      BY <1>6 DEF ToolIntent, Effects, Owned, Holds
    <2> HIDE DEF q
    <2> QED BY <2>1, <2>2, Moved, GoesOps DEF RowsMove
  <1>7. ASSUME NEW w \in Workers, ToolResult(w) PROVE RowsMove
    <2> DEFINE q == worker[w].run
    <2>1. q \in Runs /\ run[q] \in Row /\ message' = message
      BY <1>7, TaskOf DEF ToolResult, Effects, Owned, Holds, ghosts
    <2>2. run[q].status \in Live /\ "settled" \in Effects /\ run' = [run EXCEPT ![q] = InTool(run[q], "settled")]
      BY <1>7 DEF ToolResult, Effects, Owned, Holds
    <2> HIDE DEF q
    <2> QED BY <2>1, <2>2, Moved, GoesOps DEF RowsMove
  <1>8. ASSUME NEW w \in Workers, ToolUnknown(w) PROVE RowsMove
    <2> DEFINE q == worker[w].run
    <2>1. q \in Runs /\ run[q] \in Row /\ message' = message
      BY <1>8, TaskOf DEF ToolUnknown, Working, Owned, Holds, ghosts
    <2>2. run[q].status \in Live /\ run' = [run EXCEPT ![q] = Unknown(run[q])]
      BY <1>8 DEF ToolUnknown, Working, Owned, Holds
    <2> HIDE DEF q
    <2> QED BY <2>1, <2>2, Moved, GoesOps DEF RowsMove
  <1>9. ASSUME NEW w \in Workers, Pause(w) PROVE RowsMove
    <2> DEFINE q == worker[w].run
    <2>1. q \in Runs /\ run[q] \in Row /\ message' = message
      BY <1>9, TaskOf DEF Pause, Working, Owned, Holds, ghosts
    <2>2. \/ run' = run
          \/ run[q].status \in Live /\ run' = [run EXCEPT ![q] = Paused(run[q])]
      BY <1>9 DEF Pause, Working, Owned, Holds
    <2> HIDE DEF q
    <2> QED BY <2>1, <2>2, Moved, GoesOps DEF RowsMove
  <1>10. ASSUME NEW w \in Workers, SaveSnapshot(w) PROVE RowsMove
    <2> DEFINE q == worker[w].run
    <2>1. q \in Runs /\ run[q] \in Row /\ message' = message
      BY <1>10, TaskOf DEF SaveSnapshot, Append, Working, Phases, ghosts
    <2>2. run' = [run EXCEPT ![q] = [run[q] EXCEPT !.phase = "model_completed"]] /\ "model_completed" \in Phases
      BY <1>10 DEF SaveSnapshot, Append, Working, Phases
    <2> HIDE DEF q
    <2> QED BY <2>1, <2>2, Moved, GoesOps DEF RowsMove
  <1>11. ASSUME NEW w \in Workers, WorkerFails(w) PROVE RowsMove
    <2> DEFINE q == worker[w].run
    <2>1. q \in Runs /\ run[q] \in Row
      BY <1>11, TaskOf DEF WorkerFails
    <2>2. \/ UNCHANGED <<run, message>>
          \/ /\ run[q].status \in Live /\ run' = [run EXCEPT ![q] = Completed(run[q], "failed")]
             /\ message' = [message EXCEPT ![q] = [kind |-> "error", by |-> w]]
      BY <1>11 DEF WorkerFails, Owned, Holds
    <2> HIDE DEF q
    <2>3. CASE UNCHANGED <<run, message>>
      BY <2>3 DEF RowsMove
    <2>4. CASE /\ run[q].status \in Live /\ run' = [run EXCEPT ![q] = Completed(run[q], "failed")]
               /\ message' = [message EXCEPT ![q] = [kind |-> "error", by |-> w]]
      <3>1. run'[q] = Completed(run[q], "failed") /\ \A i \in Runs \ {q} : run'[i] = run[i]
        BY <2>1, <2>4 DEF Typed, RowsOK
      <3>2. Completed(run[q], "failed").status = "failed"
        BY <2>1 DEF Completed, Row
      <3>3. Goes(run[q], run'[q])
        BY <2>1, <2>4, <3>1, GoesOps
      <3> QED BY <2>1, <2>4, <3>1, <3>2, <3>3 DEF RowsMove, Moves, Apologises
    <2> QED BY <2>2, <2>3, <2>4
  <1>12. ASSUME NEW w \in Workers, NEW next \in Runs \cup {None}, Complete(w, next)
    PROVE RowsMove
    <2>1. worker[w].pc \in {"snapped", "recommitting"} /\ CommitOutput(w, next)
      BY <1>12 DEF Complete
    <2>2. worker'[w].next = next
      BY <1>12 DEF Complete, Typed, TasksOK, Task
    <2> QED BY <2>1, <2>2 DEF RowsMove, Answers
  <1>13. ASSUME NEW w \in Workers, WrapUp(w) PROVE RowsMove
    <2> DEFINE q == worker[w].run
    <2>1. q \in Runs /\ run[q] \in Row
      BY <1>13, TaskOf DEF WrapUp
    <2>2. /\ run' = run
          /\ \/ message' = message
             \/ /\ run[q].status = "cancelled"
                /\ message' = [message EXCEPT ![q] = [kind |-> "partial", by |-> w]]
      BY <1>13 DEF WrapUp
    <2> HIDE DEF q
    <2> QED BY <2>1, <2>2, GoesOps DEF RowsMove, Moves, Trails
  <1>14. ASSUME NEW w \in Workers, Close(w) PROVE RowsMove
    <2> DEFINE q == worker[w].run
    <2>1. q \in Runs /\ run[q] \in Row /\ message' = message
      BY <1>14, TaskOf DEF Close, ghosts
    <2>2. run' = [run EXCEPT ![q] = Acked(run[q])]
      BY <1>14 DEF Close
    <2> HIDE DEF q
    <2> QED BY <2>1, <2>2, Moved, GoesOps DEF RowsMove
  <1>15. ASSUME NEW w \in Workers, NEW next \in Runs \cup {None}, Recommit(w, next)
    PROVE RowsMove
    <2>1. worker[w].pc \in {"snapped", "recommitting"} /\ CommitOutput(w, next)
      BY <1>15 DEF Recommit
    <2>2. worker'[w].next = next
      BY <1>15 DEF Recommit, Typed, TasksOK, Task
    <2> QED BY <2>1, <2>2 DEF RowsMove, Answers
  <1>16. ASSUME NEW w \in Workers, RecommitFails(w) PROVE RowsMove
    <2> DEFINE q == worker[w].run
    <2>1. q \in Runs /\ run[q] \in Row /\ message' = message
      BY <1>16, TaskOf DEF RecommitFails, Owned, Holds, ghosts
    <2>2. \/ run' = run
          \/ run[q].status \in Live /\ run' = [run EXCEPT ![q] = Paused(run[q])]
      BY <1>16 DEF RecommitFails, Owned, Holds
    <2> HIDE DEF q
    <2> QED BY <2>1, <2>2, Moved, GoesOps DEF RowsMove
  <1>17. ASSUME NEW p \in Procs, NEW r \in Runs, NEW c \in Chats, Accept(p, r, c)
    PROVE RowsMove
    BY <1>17 DEF Accept, ghosts, RowsMove, Opens
  <1>18. ASSUME NEW r \in Runs, NEW w \in Workers, NEW b \in BOOLEAN, Launch(r, w, b)
    PROVE RowsMove
    <2> DEFINE q == r
    <2>1. q \in Runs /\ run[q] \in Row /\ message' = message
      BY <1>18, TaskOf DEF Launch, Typed, RowsOK, ghosts
    <2>2. run' = [run EXCEPT ![q] = [run[q] EXCEPT !.snap = TRUE]]
      BY <1>18 DEF Launch, Typed, RowsOK
    <2> HIDE DEF q
    <2> QED BY <2>1, <2>2, Moved, GoesOps DEF RowsMove
  <1>19. ASSUME NEW r \in Runs, PrepareFails(r) PROVE RowsMove
    <2> DEFINE q == r
    <2>1. q \in Runs /\ run[q] \in Row /\ message' = message
      BY <1>19, TaskOf DEF PrepareFails, Typed, RowsOK, Live, ghosts
    <2>2. \/ run' = run
          \/ run[q].status \in Live /\ run' = [run EXCEPT ![q] = Abandoned(run[q])]
      BY <1>19 DEF PrepareFails, Typed, RowsOK, Live
    <2> HIDE DEF q
    <2> QED BY <2>1, <2>2, Moved, GoesOps DEF RowsMove
  <1>20. ASSUME NEW r \in Runs, WaitRun(r) PROVE RowsMove
    <2> DEFINE q == r
    <2>1. q \in Runs /\ run[q] \in Row /\ message' = message
      BY <1>20, TaskOf DEF WaitRun, Typed, RowsOK, ghosts
    <2>2. \/ run' = run
          \/ run[q].status \in Live /\ run' = [run EXCEPT ![q] = Abandoned(run[q])]
      BY <1>20 DEF WaitRun, Typed, RowsOK
    <2> HIDE DEF q
    <2> QED BY <2>1, <2>2, Moved, GoesOps DEF RowsMove
  <1>21. ASSUME NEW p \in Procs, NEW r \in Runs, Cancel(p, r) PROVE RowsMove
    <2> DEFINE q == r
    <2>1. q \in Runs /\ run[q] \in Row /\ message' = message
      BY <1>21, TaskOf DEF Cancel, Typed, RowsOK, ghosts
    <2>2. run[q].status \in Live /\ run' = [run EXCEPT ![q] = Cancelled(run[q])]
      BY <1>21 DEF Cancel, Typed, RowsOK
    <2> HIDE DEF q
    <2> QED BY <2>1, <2>2, Moved, GoesOps DEF RowsMove
  <1>22. ASSUME NEW p \in Procs, NEW r \in Runs, NEW b \in BOOLEAN, Reap(p, r, b)
    PROVE RowsMove
    <2> DEFINE q == r
    <2>1. q \in Runs /\ run[q] \in Row /\ message' = message
      BY <1>22, TaskOf DEF Reap, Typed, RowsOK, Live, ghosts
    <2>2. run[q].status \in Live /\ run' = [run EXCEPT ![q] = [run[q] EXCEPT !.status = "failed"]]
      BY <1>22 DEF Reap, Typed, RowsOK, Live
    <2> HIDE DEF q
    <2> QED BY <2>1, <2>2, Moved, GoesOps DEF RowsMove
  <1>23. ASSUME NEW r \in Runs, NEW w \in Workers, StopAcknowledged(r, w) PROVE
    RowsMove
    <2> DEFINE q == r
    <2>1. q \in Runs /\ run[q] \in Row /\ message' = message
      BY <1>23, TaskOf DEF StopAcknowledged, Typed, RowsOK, ghosts
    <2>2. run' = [run EXCEPT ![q] = Acked(run[q])]
      BY <1>23 DEF StopAcknowledged, Typed, RowsOK
    <2> HIDE DEF q
    <2> QED BY <2>1, <2>2, Moved, GoesOps DEF RowsMove
  <1>24. ASSUME NEW p \in Procs, NEW r \in Runs, RecoverUnprepared(p, r) PROVE
    RowsMove
    <2> DEFINE q == r
    <2>1. q \in Runs /\ run[q] \in Row /\ message' = message
      BY <1>24, TaskOf DEF RecoverUnprepared, Typed, RowsOK, Claimable, ghosts
    <2>2. run[q].status \in Live /\ run' = [run EXCEPT ![q] = Completed(run[q], "failed")]
      BY <1>24 DEF RecoverUnprepared, Typed, RowsOK, Claimable
    <2> HIDE DEF q
    <2> QED BY <2>1, <2>2, Moved, GoesOps DEF RowsMove
  <1>25. ASSUME NEW p \in Procs, NEW r \in Runs, RecoverPause(p, r) PROVE RowsMove
    <2> DEFINE q == r
    <2>1. q \in Runs /\ run[q] \in Row /\ message' = message
      BY <1>25, TaskOf DEF RecoverPause, Typed, RowsOK, Claimable, ghosts
    <2>2. run[q].status \in Live /\ run' = [run EXCEPT ![q] = Paused(run[q])]
      BY <1>25 DEF RecoverPause, Typed, RowsOK, Claimable
    <2> HIDE DEF q
    <2> QED BY <2>1, <2>2, Moved, GoesOps DEF RowsMove
  <1>26. ASSUME NEW p \in Procs, NEW r \in Runs, NEW w \in Workers, RecommitClaim(p,
    r, w) PROVE RowsMove
    <2> DEFINE q == r
    <2>1. q \in Runs /\ run[q] \in Row /\ message' = message
      BY <1>26, TaskOf DEF RecommitClaim, Typed, RowsOK, Claimable, ghosts
    <2>2. \/ run' = run
          \/ run[q].status \in Live /\ run' = [run EXCEPT ![q] = Granted(run[q], w)]
      BY <1>26 DEF RecommitClaim, Typed, RowsOK, Claimable
    <2> HIDE DEF q
    <2> QED BY <2>1, <2>2, Moved, GoesOps DEF RowsMove
  <1>27. ASSUME NEW p \in Procs, NEW r \in Runs, SettleStoppedEffect(p, r) PROVE
    RowsMove
    <2> DEFINE q == r
    <2>1. q \in Runs /\ run[q] \in Row /\ message' = message
      BY <1>27, TaskOf DEF SettleStoppedEffect, Typed, RowsOK, ghosts
    <2>2. run[q].status \in Settled /\ run' = [run EXCEPT ![q] = [run[q] EXCEPT !.effect = "unknown"]]
      BY <1>27 DEF SettleStoppedEffect, Typed, RowsOK
    <2> HIDE DEF q
    <2> QED BY <2>1, <2>2, Moved, GoesOps DEF RowsMove
  <1>28. ASSUME NEW p \in Procs, NEW r \in Runs, ClaimEffect(p, r) PROVE RowsMove
    <2>1. run[r] \in Row /\ message' = message /\ run' = [run EXCEPT ![r] = Reopened(run[r], p)]
      BY <1>28 DEF ClaimEffect, Typed, RowsOK, ghosts
    <2>2. Goes(run[r], Reopened(run[r], p))
      BY <1>28, <2>1, GoesOps DEF ClaimEffect
    <2> QED BY <2>1, <2>2, Moved
  <1>29. ASSUME NEW p \in Procs, RecoverEffect(p) PROVE RowsMove
    <2> DEFINE q == sweeping[p]
    <2>1. q \in Runs /\ run[q] \in Row /\ message' = message
      BY <1>29, TaskOf DEF RecoverEffect, Typed, RowsOK, RestOK, Holds, Effects, ghosts
    <2>2. run[q].status \in Live /\ "settled" \in Effects /\ run' = [run EXCEPT ![q] = InTool(run[q], "settled")]
      BY <1>29 DEF RecoverEffect, Typed, RowsOK, RestOK, Holds, Effects
    <2> HIDE DEF q
    <2> QED BY <2>1, <2>2, Moved, GoesOps DEF RowsMove
  <1>30. ASSUME NEW p \in Procs, ReleaseRun(p) PROVE RowsMove
    <2> DEFINE q == sweeping[p]
    <2>1. q \in Runs /\ run[q] \in Row /\ message' = message
      BY <1>30, TaskOf DEF ReleaseRun, Typed, RowsOK, RestOK, ghosts
    <2>2. \/ run' = run
          \/ run' = [run EXCEPT ![q] = Unleased(run[q])]
      BY <1>30 DEF ReleaseRun, Typed, RowsOK, RestOK
    <2> HIDE DEF q
    <2> QED BY <2>1, <2>2, Moved, GoesOps DEF RowsMove
  <1>31. ASSUME NEW p \in Procs, GiveUpEffect(p) PROVE RowsMove
    <2> DEFINE q == sweeping[p]
    <2>1. q \in Runs /\ run[q] \in Row /\ message' = message
      BY <1>31, TaskOf DEF GiveUpEffect, Typed, RowsOK, RestOK, Holds, ghosts
    <2>2. run[q].status \in Live /\ run' = [run EXCEPT ![q] = Unknown(run[q])]
      BY <1>31 DEF GiveUpEffect, Typed, RowsOK, RestOK, Holds
    <2> HIDE DEF q
    <2> QED BY <2>1, <2>2, Moved, GoesOps DEF RowsMove
  <1>32. ASSUME NEW r \in Runs, LeaseExpires(r) PROVE RowsMove
    <2> DEFINE q == r
    <2>1. q \in Runs /\ run[q] \in Row /\ message' = message
      BY <1>32, TaskOf DEF LeaseExpires, Typed, RowsOK, ghosts
    <2>2. run' = [run EXCEPT ![q] = [run[q] EXCEPT !.fresh = FALSE]]
      BY <1>32 DEF LeaseExpires, Typed, RowsOK
    <2> HIDE DEF q
    <2> QED BY <2>1, <2>2, Moved, GoesOps DEF RowsMove
  <1>33. ASSUME NEW w \in Workers, CompleteLost(w) \/ Fenced(w) \/ HeartbeatFails(w)
    \/ HandoffInterrupted(w) \/ Recycle(w)
       PROVE  UNCHANGED <<run, message>>
    BY <1>33 DEF CompleteLost, ghosts, Fenced, HeartbeatFails, HandoffInterrupted,
      Recycle
  <1>34. ASSUME NEW w \in Workers, NEW x \in Workers, Schedule(w, x)
       PROVE  UNCHANGED <<run, message>>
    BY <1>34 DEF Schedule, ghosts
  <1>35. ASSUME NEW r \in Runs, LaunchRefused(r)
       PROVE  UNCHANGED <<run, message>>
    BY <1>35 DEF LaunchRefused, ghosts
  <1>36. ASSUME NEW r \in Runs, NEW w \in Workers, StopTimesOut(r, w)
       PROVE  UNCHANGED <<run, message>>
    BY <1>36 DEF StopTimesOut, ghosts
  <1>37. ASSUME NEW p \in Procs, NEW r \in Runs, NEW a \in Actions, RecoverDecide(p,
    r, a)
       PROVE  UNCHANGED <<run, message>>
    BY <1>37 DEF RecoverDecide, ghosts
  <1>38. ASSUME NEW p \in Procs, NEW r \in Runs, NEW w \in Workers, Resume(p, r, w)
       PROVE  UNCHANGED <<run, message>>
    BY <1>38 DEF Resume, ghosts
  <1>39. ASSUME NEW p \in Procs, DeferEffect(p) \/ Crash(p)
       PROVE  UNCHANGED <<run, message>>
    BY <1>39 DEF DeferEffect, ghosts, Crash
  <1>40. ASSUME UNCHANGED <<run, message>> PROVE RowsMove
    BY <1>40 DEF RowsMove
  <1>41. QED
    BY <1>1, <1>2, <1>3, <1>4, <1>5, <1>6, <1>7, <1>8, <1>9, <1>10, <1>11, <1>12,
      <1>13, <1>14, <1>15, <1>16, <1>17, <1>18, <1>19, <1>20, <1>21, <1>22, <1>23,
      <1>24, <1>25, <1>26, <1>27, <1>28, <1>29, <1>30, <1>31, <1>32, <1>33, <1>34,
      <1>35, <1>36, <1>37, <1>38, <1>39, <1>40 DEF Next, WorkerStep, WorkerActs,
      WorkerEnds, WorkerCommits, RecommitEnds, RequestStep, SweepStep, SweepEnds

-----------------------------------------------------------------------------
(* Verdicts and answers.                                                    *)

\* What the transaction of complete("completed") leaves: the answer, and the
\* successor beside nobody else in the slot.
Leaves(w, next) ==
    LET r == worker[w].run IN
    /\ r \in Runs /\ run[r].status \in Live /\ Owned(w)
    /\ run'[r] = Completed(run[r], "completed")
    /\ next \in Runs =>
          /\ next # r /\ run[next].status = "absent"
          /\ run'[next] = PendingRow(run[r].chat, TRUE)
          /\ \A q \in Runs \ {r} : run[q].chat = run[r].chat => ~run[q].slot
    /\ \A q \in Runs \ {r, next} : run'[q] = run[q]
    /\ message'[r] = [kind |-> "final", by |-> w]
    /\ \A q \in Runs \ {r} : message'[q] = message[q]

\* complete("completed") leaves that.
LEMMA Answered ==
    ASSUME Typed, NEW w \in Workers, NEW next \in Runs \cup {None},
           worker[w].pc # "free", CommitOutput(w, next)
    PROVE  Leaves(w, next)
  <1> DEFINE r == worker[w].run
             done == Completed(run[r], "completed")
             after == [run EXCEPT ![r] = done]
  <1>1. r \in Runs /\ run[r].status \in Live /\ Owned(w)
    BY TaskOf DEF CommitOutput, Owned, Holds
  <1>2. /\ message'[r] = [kind |-> "final", by |-> w]
        /\ \A q \in Runs \ {r} : message'[q] = message[q]
    BY <1>1 DEF CommitOutput, Typed, RestOK
  <1>3. \/ next = None /\ run' = after
        \/ /\ next \in Runs /\ run[next].status = "absent"
           /\ \A q \in Runs : after[q].chat = run[r].chat => ~after[q].slot
           /\ run' = [after EXCEPT ![next] = PendingRow(run[r].chat, TRUE)]
    BY DEF CommitOutput
  <1>4. after[r] = done /\ \A q \in Runs \ {r} : after[q] = run[q]
    BY <1>1 DEF Typed, RowsOK
  <1>5. DOMAIN after = Runs
    BY DEF Typed, RowsOK
  <1> HIDE DEF r, done, after
  <1>6. CASE next = None /\ run' = after
    BY <1>1, <1>2, <1>4, <1>6, ConstantsAssumption DEF r, done, Leaves
  <1>7. CASE /\ next \in Runs /\ run[next].status = "absent"
             /\ \A q \in Runs : after[q].chat = run[r].chat => ~after[q].slot
             /\ run' = [after EXCEPT ![next] = PendingRow(run[r].chat, TRUE)]
    <2>1. next # r
      BY <1>1, <1>7 DEF Live
    <2>2. /\ run'[next] = PendingRow(run[r].chat, TRUE)
          /\ \A q \in Runs \ {next} : run'[q] = after[q]
      BY <1>5, <1>7
    <2> QED BY <1>1, <1>2, <1>4, <1>7, <2>1, <2>2 DEF r, done, Leaves
  <1> QED BY <1>3, <1>6, <1>7

\* A row that moves has settled before or is no answer.
LEMMA GoesOn ==
    ASSUME NEW old \in Row, NEW new, Goes(old, new)
    PROVE  /\ old.status = "completed" <=> new.status = "completed"
           /\ old.status \in Settled => new.status = old.status
  BY DEF Goes, Row, Status, Live, Stopped, Settled

\* The statuses of the rows that an answer writes.
LEMMA AnswerStatus ==
    /\ \A row \in Row : Completed(row, "completed").status = "completed"
    /\ \A c : PendingRow(c, TRUE).status = "pending" /\ PendingRow(c, FALSE).status = "pending"
  BY DEF Completed, PendingRow, AbsentRow, Row

\* Verdicts and outputs move together.
LEMMA VerdictStep ==
    ASSUME Typed, VerdictInv, RowsMove
    PROVE  VerdictInv'
  <1> SUFFICES ASSUME NEW q \in Runs
               PROVE  /\ run'[q].status = "completed" <=> message'[q].kind = "final"
                      /\ message'[q].kind = "error" => run'[q].status = "failed"
    BY DEF VerdictInv, AnswerMatchesVerdict, ErrorsFailed
  <1>0. /\ run[q] \in Row
        /\ run[q].status = "completed" <=> message[q].kind = "final"
        /\ message[q].kind = "error" => run[q].status = "failed"
    BY DEF VerdictInv, AnswerMatchesVerdict, ErrorsFailed, Typed, RowsOK
  <1>1. CASE UNCHANGED <<run, message>>
    BY <1>0, <1>1
  <1>2. ASSUME NEW r \in Runs, Moves(r)
        PROVE  /\ run'[q].status = "completed" <=> message'[q].kind = "final"
               /\ message'[q].kind = "error" => run'[q].status = "failed"
    <2>1. /\ run[q].status = "completed" <=> run'[q].status = "completed"
          /\ run[q].status \in Settled => run'[q].status = run[q].status
      <3>1. CASE q = r
        BY <1>0, <1>2, <3>1, GoesOn DEF Moves
      <3>2. CASE q # r
        BY <1>2, <3>2 DEF Moves
      <3> QED BY <3>1, <3>2
    <2>2. CASE Unshown(r)
      BY <1>0, <2>1, <2>2 DEF Unshown, Settled
    <2>3. CASE Apologises(r)
      <3>1. PICK w \in Workers : message' = [message EXCEPT ![r] = [kind |-> "error", by |-> w]]
        BY <2>3 DEF Apologises
      <3>2. CASE q = r
        BY <3>1, <3>2, <2>3 DEF Apologises, Typed, RestOK
      <3>3. CASE q # r
        BY <3>1, <3>3, <1>0, <2>1 DEF Typed, RestOK, Settled
      <3> QED BY <3>2, <3>3
    <2>4. CASE Trails(r)
      <3>1. PICK w \in Workers : message' = [message EXCEPT ![r] = [kind |-> "partial", by |-> w]]
        BY <2>4 DEF Trails
      <3>2. CASE q = r
        BY <3>1, <3>2, <2>4 DEF Trails, Typed, RestOK
      <3>3. CASE q # r
        BY <3>1, <3>3, <1>0, <2>1 DEF Typed, RestOK, Settled
      <3> QED BY <3>2, <3>3
    <2> QED BY <1>2, <2>2, <2>3, <2>4 DEF Moves
  <1>3. ASSUME NEW r \in Runs, Opens(r)
        PROVE  /\ run'[q].status = "completed" <=> message'[q].kind = "final"
               /\ message'[q].kind = "error" => run'[q].status = "failed"
    <2>1. PICK c \in Chats : run' = [run EXCEPT ![r] = PendingRow(c, FALSE)]
      BY <1>3 DEF Opens
    <2>2. CASE q = r
      BY <1>0, <1>3, <2>1, <2>2, AnswerStatus DEF Opens, Typed, RowsOK
    <2>3. CASE q # r
      BY <1>0, <1>3, <2>1, <2>3 DEF Opens, Typed, RowsOK
    <2> QED BY <2>2, <2>3
  <1>4. ASSUME NEW w \in Workers, NEW next \in Runs \cup {None},
               Leaves(w, next)
        PROVE  /\ run'[q].status = "completed" <=> message'[q].kind = "final"
               /\ message'[q].kind = "error" => run'[q].status = "failed"
    <2> DEFINE r == worker[w].run
    <2>1. CASE q = r
      BY <1>0, <1>4, <2>1, AnswerStatus DEF Leaves, Typed, RowsOK
    <2>2. CASE q # r /\ q = next
      BY <1>0, <1>4, <2>2, AnswerStatus DEF Leaves, Typed, RowsOK
    <2>3. CASE q # r /\ q # next
      BY <1>0, <1>4, <2>3 DEF Leaves
    <2> QED BY <2>1, <2>2, <2>3
  <1>5. \A w \in Workers : Answers(w) => \E next \in Runs \cup {None} : Leaves(w, next)
    BY Answered DEF Answers
  <1> QED BY <1>1, <1>2, <1>3, <1>4, <1>5 DEF RowsMove

\* Neither verdict nor output of a settled run moves.
LEMMA FinalStep ==
    ASSUME Typed, VerdictInv, RowsMove, NEW q \in Runs, run[q].status \in Settled
    PROVE  /\ run'[q].status = run[q].status
           /\ message[q].kind \in {"final", "error"} => message'[q] = message[q]
  <1>0. /\ run[q] \in Row /\ run[q].status \notin Live /\ run[q].status # "absent"
        /\ message[q].kind \in {"final", "error"} => run[q].status # "cancelled"
    BY DEF VerdictInv, AnswerMatchesVerdict, ErrorsFailed, Typed, RowsOK, Live, Settled
  <1>1. CASE UNCHANGED <<run, message>>
    BY <1>1
  <1>2. ASSUME NEW r \in Runs, Moves(r)
        PROVE  /\ run'[q].status = run[q].status
               /\ message[q].kind \in {"final", "error"} => message'[q] = message[q]
    <2>1. run'[q].status = run[q].status
      BY <1>0, <1>2, GoesOn DEF Moves
    <2>2. CASE Unshown(r)
      BY <2>1, <2>2 DEF Unshown
    <2>3. CASE Apologises(r)
      BY <1>0, <2>1, <2>3 DEF Apologises, Typed, RestOK
    <2>4. CASE Trails(r)
      BY <1>0, <2>1, <2>4 DEF Trails, Typed, RestOK
    <2> QED BY <1>2, <2>2, <2>3, <2>4 DEF Moves
  <1>3. ASSUME NEW r \in Runs, Opens(r)
        PROVE  /\ run'[q].status = run[q].status
               /\ message[q].kind \in {"final", "error"} => message'[q] = message[q]
    BY <1>0, <1>3 DEF Opens, Typed, RowsOK
  <1>4. ASSUME NEW w \in Workers, NEW next \in Runs \cup {None},
               Leaves(w, next)
        PROVE  /\ run'[q].status = run[q].status
               /\ message[q].kind \in {"final", "error"} => message'[q] = message[q]
    <2>1. q # worker[w].run /\ (next \in Runs => q # next)
      BY <1>0, <1>4 DEF Leaves
    <2>2. q # next
      BY <2>1
    <2> QED BY <1>4, <2>1, <2>2 DEF Leaves
  <1>5. \A w \in Workers : Answers(w) => \E next \in Runs \cup {None} : Leaves(w, next)
    BY Answered DEF Answers
  <1> QED BY <1>1, <1>2, <1>3, <1>4, <1>5 DEF RowsMove

\* Every step, and one that changes nothing.
LEMMA AnyStep == Typed /\ [Next]_vars => RowsMove
  <1>1. UNCHANGED vars => RowsMove
    BY DEF vars, RowsMove
  <1> QED BY <1>1, RowsMoveStep

\* Where it begins, and that it goes on.
LEMMA VerdictInit == Init => VerdictInv
  BY DEF Init, VerdictInv, AnswerMatchesVerdict, ErrorsFailed, AbsentRow

\* Verdicts match outputs along every behaviour.
THEOREM VerdictsAlways == Spec => [](Typed /\ VerdictInv)
  <1>1. Init => Typed /\ VerdictInv
    BY InitTyped, VerdictInit
  <1>2. Typed /\ VerdictInv /\ [Next]_vars => (Typed /\ VerdictInv)'
    BY NextTyped, AnyStep, VerdictStep
  <1> QED BY <1>1, <1>2, PTL DEF Spec

\* A run is completed exactly when its final answer was written: complete()
\* commits both, and nothing that a fenced, cancelled or recovering worker does
\* later (_persist_cancelled_partial, _commit_failed_output) parts them.
THEOREM AnswerMatchesVerdictAlways == Spec => []AnswerMatchesVerdict
  <1>1. Typed /\ VerdictInv => AnswerMatchesVerdict
    BY DEF VerdictInv
  <1> QED BY <1>1, VerdictsAlways, PTL

\* The verdict of a settled run and the output committed with it stay, whatever
\* the reaper, a cancel, a late worker or a recovery sweep does (_finalize_run,
\* complete, cancel).
THEOREM VerdictIsFinalAlways == Spec => VerdictIsFinal
  <1>1. Typed /\ VerdictInv /\ [Next]_vars =>
            \A r \in Runs : run[r].status \in Settled =>
                /\ run'[r].status = run[r].status
                /\ message[r].kind \in {"final", "error"} => message'[r] = message[r]
    BY AnyStep, FinalStep
  <1> QED BY <1>1, VerdictsAlways, PTL DEF Spec, VerdictIsFinal

-----------------------------------------------------------------------------
(* The hand-off.                                                            *)

\* Nobody gets a successor to schedule.
NextKept == \A x \in Workers : worker'[x].next \in {worker[x].next, None}

\* Or one task does, which commits an answer.
NextGiven ==
    \/ NextKept
    \/ \E w \in Workers : Answers(w) /\ \A x \in Workers \ {w} : worker'[x] = worker[x]

\* Only complete() gives a task a successor to schedule.
LEMMA NextGivenStep ==
    ASSUME Typed, Next
    PROVE  NextGiven
  <1>1. ASSUME NEW w \in Workers, InitialClaim(w) PROVE NextGiven
    BY <1>1 DEF InitialClaim, Finish, Goto, Typed, TasksOK, Task, NextKept, NextGiven
  <1>2. ASSUME NEW w \in Workers, JournalClaim(w) PROVE NextGiven
    BY <1>2 DEF JournalClaim, Finish, Goto, Typed, TasksOK, Task, NextKept, NextGiven
  <1>3. ASSUME NEW w \in Workers, WorkerStarted(w) PROVE NextGiven
    BY <1>3 DEF WorkerStarted, Finish, Goto, Typed, TasksOK, Task, NextKept, NextGiven
  <1>4. ASSUME NEW w \in Workers, ToolUnknown(w) PROVE NextGiven
    BY <1>4 DEF ToolUnknown, Goto, Typed, TasksOK, Task, NextKept, NextGiven
  <1>5. ASSUME NEW w \in Workers, Pause(w) PROVE NextGiven
    BY <1>5 DEF Pause, Goto, Typed, TasksOK, Task, NextKept, NextGiven
  <1>6. ASSUME NEW w \in Workers, SaveSnapshot(w) PROVE NextGiven
    BY <1>6 DEF SaveSnapshot, Goto, Typed, TasksOK, Task, NextKept, NextGiven
  <1>7. ASSUME NEW w \in Workers, WorkerFails(w) PROVE NextGiven
    BY <1>7 DEF WorkerFails, Goto, Typed, TasksOK, Task, NextKept, NextGiven
  <1>8. ASSUME NEW w \in Workers, NEW next \in Runs \cup {None}, Complete(w, next)
    PROVE NextGiven
    <2>1. worker[w].pc \in {"snapped", "recommitting"} /\ CommitOutput(w, next)
      BY <1>8 DEF Complete
    <2>2. worker'[w].next = next /\ \A x \in Workers \ {w} : worker'[x] = worker[x]
      BY <1>8 DEF Complete, Typed, TasksOK, Task
    <2> QED BY <2>1, <2>2 DEF NextGiven, Answers
  <1>9. ASSUME NEW w \in Workers, CompleteLost(w) PROVE NextGiven
    BY <1>9 DEF CompleteLost, Goto, Typed, TasksOK, Task, NextKept, NextGiven
  <1>10. ASSUME NEW w \in Workers, Fenced(w) PROVE NextGiven
    BY <1>10 DEF Fenced, Goto, Typed, TasksOK, Task, NextKept, NextGiven
  <1>11. ASSUME NEW w \in Workers, WrapUp(w) PROVE NextGiven
    BY <1>11 DEF WrapUp, Goto, Typed, TasksOK, Task, NextKept, NextGiven
  <1>12. ASSUME NEW w \in Workers, HeartbeatFails(w) PROVE NextGiven
    BY <1>12 DEF HeartbeatFails, Goto, Typed, TasksOK, Task, NextKept, NextGiven
  <1>13. ASSUME NEW w \in Workers, HandoffInterrupted(w) PROVE NextGiven
    BY <1>13 DEF HandoffInterrupted, Typed, TasksOK, Task, NextKept, NextGiven
  <1>14. ASSUME NEW w \in Workers, Close(w) PROVE NextGiven
    BY <1>14 DEF Close, Finish, Goto, Typed, TasksOK, Task, NextKept, NextGiven
  <1>15. ASSUME NEW w \in Workers, NEW x \in Workers, Schedule(w, x) PROVE NextGiven
    BY <1>15 DEF Schedule, Spawn, Typed, TasksOK, Task, NextKept, NextGiven
  <1>16. ASSUME NEW w \in Workers, NEW next \in Runs \cup {None}, Recommit(w, next)
    PROVE NextGiven
    <2>1. worker[w].pc \in {"snapped", "recommitting"} /\ CommitOutput(w, next)
      BY <1>16 DEF Recommit
    <2>2. worker'[w].next = next /\ \A x \in Workers \ {w} : worker'[x] = worker[x]
      BY <1>16 DEF Recommit, Typed, TasksOK, Task
    <2> QED BY <2>1, <2>2 DEF NextGiven, Answers
  <1>17. ASSUME NEW w \in Workers, RecommitFails(w) PROVE NextGiven
    BY <1>17 DEF RecommitFails, Goto, Typed, TasksOK, Task, NextKept, NextGiven
  <1>18. ASSUME NEW r \in Runs, NEW w \in Workers, NEW b \in BOOLEAN, Launch(r, w, b)
    PROVE NextGiven
    BY <1>18 DEF Launch, Spawn, Typed, TasksOK, Task, NextKept, NextGiven
  <1>19. ASSUME NEW p \in Procs, NEW r \in Runs, Cancel(p, r) PROVE NextGiven
    BY <1>19 DEF Cancel, StopLocalTask, Finish, Goto, Typed, TasksOK, Task, NextKept, NextGiven
  <1>20. ASSUME NEW p \in Procs, NEW r \in Runs, NEW b \in BOOLEAN, Reap(p, r, b)
    PROVE NextGiven
    BY <1>20 DEF Reap, StopLocalTask, Finish, Goto, Typed, TasksOK, Task, NextKept, NextGiven
  <1>21. ASSUME NEW p \in Procs, NEW r \in Runs, NEW w \in Workers, Resume(p, r, w)
    PROVE NextGiven
    BY <1>21 DEF Resume, Spawn, Typed, TasksOK, Task, NextKept, NextGiven
  <1>22. ASSUME NEW p \in Procs, NEW r \in Runs, NEW w \in Workers, RecommitClaim(p,
    r, w) PROVE NextGiven
    BY <1>22 DEF RecommitClaim, Spawn, Typed, TasksOK, Task, NextKept, NextGiven
  <1>23. ASSUME NEW p \in Procs, Crash(p) PROVE NextGiven
    BY <1>23 DEF Crash, Typed, TasksOK, Task, NextKept, NextGiven
  <1>24. ASSUME NEW w \in Workers, Recycle(w) PROVE NextGiven
    BY <1>24 DEF Recycle, FreeTask, Typed, TasksOK, Task, NextKept, NextGiven
  <1>25. ASSUME NEW w \in Workers, ModelDispatch(w) \/ SteerCommitted(w) \/
    ToolIntent(w) \/ ToolResult(w)
       PROVE  UNCHANGED <<worker>>
    BY <1>25 DEF ModelDispatch, ghosts, SteerCommitted, ToolIntent, ToolResult
  <1>26. ASSUME NEW p \in Procs, NEW r \in Runs, NEW c \in Chats, Accept(p, r, c)
       PROVE  UNCHANGED <<worker>>
    BY <1>26 DEF Accept, ghosts
  <1>27. ASSUME NEW r \in Runs, LaunchRefused(r) \/ PrepareFails(r) \/ WaitRun(r) \/
    LeaseExpires(r)
       PROVE  UNCHANGED <<worker>>
    BY <1>27 DEF LaunchRefused, ghosts, PrepareFails, WaitRun, LeaseExpires
  <1>28. ASSUME NEW r \in Runs, NEW w \in Workers, StopAcknowledged(r, w) \/
    StopTimesOut(r, w)
       PROVE  UNCHANGED <<worker>>
    BY <1>28 DEF StopAcknowledged, ghosts, StopTimesOut
  <1>29. ASSUME NEW p \in Procs, NEW r \in Runs, RecoverUnprepared(p, r) \/
    RecoverPause(p, r) \/ SettleStoppedEffect(p, r) \/ ClaimEffect(p, r)
       PROVE  UNCHANGED <<worker>>
    BY <1>29 DEF RecoverUnprepared, ghosts, RecoverPause, SettleStoppedEffect,
      ClaimEffect
  <1>30. ASSUME NEW p \in Procs, NEW r \in Runs, NEW a \in Actions, RecoverDecide(p,
    r, a)
       PROVE  UNCHANGED <<worker>>
    BY <1>30 DEF RecoverDecide, ghosts
  <1>31. ASSUME NEW p \in Procs, RecoverEffect(p) \/ ReleaseRun(p) \/ GiveUpEffect(p)
    \/ DeferEffect(p)
       PROVE  UNCHANGED <<worker>>
    BY <1>31 DEF RecoverEffect, ghosts, ReleaseRun, GiveUpEffect, DeferEffect
  <1>32. ASSUME UNCHANGED <<worker>> PROVE NextGiven
    BY <1>32 DEF NextGiven, NextKept
  <1>33. QED
    BY <1>1, <1>2, <1>3, <1>4, <1>5, <1>6, <1>7, <1>8, <1>9, <1>10, <1>11, <1>12,
      <1>13, <1>14, <1>15, <1>16, <1>17, <1>18, <1>19, <1>20, <1>21, <1>22, <1>23,
      <1>24, <1>25, <1>26, <1>27, <1>28, <1>29, <1>30, <1>31, <1>32 DEF Next,
      WorkerStep, WorkerActs, WorkerEnds, WorkerCommits, RecommitEnds, RequestStep,
      SweepStep, SweepEnds

\* The hand-off of a chat has no gap: the slot passes from the run that
\* complete() settles to the successor it stages (_schedule_queued_handoff
\* finds it there), and to no request that races with it.
THEOREM SlotHandedOverAlways ==
    ASSUME TimelyClaims
    PROVE  Spec => SlotHandedOver
  <1>1. ASSUME SInv, [Next]_vars, NEW w \in Workers, NEW n \in Runs,
               worker'[w].next = n, worker[w].next # n
        PROVE  /\ run[worker[w].run].slot
               /\ run'[n].slot /\ run'[n].chat = run[worker[w].run].chat
    <2>1. Next
      BY <1>1 DEF vars
    <2>2. NextGiven
      BY <1>1, <2>1, NextGivenStep DEF SInv
    <2>3. ~NextKept
      BY <1>1, ConstantsAssumption DEF NextKept
    <2>4. Answers(w)
      BY <1>1, <2>2, <2>3 DEF NextGiven
    <2>5. worker[w].pc # "free" /\ CommitOutput(w, n)
      BY <1>1, <2>4 DEF Answers
    <2>6. Leaves(w, n)
      <3>1. n \in Runs \cup {None} /\ Typed
        BY <1>1 DEF SInv
      <3> QED BY <2>5, <3>1, Answered
    <2>7. run[worker[w].run].slot
      BY <1>1, <2>6, OwnedSlot DEF Leaves, SInv, Typed, Slots
    <2>8. PendingRow(run[worker[w].run].chat, TRUE).slot
          /\ PendingRow(run[worker[w].run].chat, TRUE).chat = run[worker[w].run].chat
      BY DEF PendingRow, AbsentRow
    <2> QED BY <2>6, <2>7, <2>8 DEF Leaves
  <1>2. SInv /\ [Next]_vars =>
            \A w \in Workers, n \in Runs :
                (worker'[w].next = n /\ worker[w].next # n) =>
                    /\ run[worker[w].run].slot
                    /\ run'[n].slot /\ run'[n].chat = run[worker[w].run].chat
    BY <1>1
  <1> QED BY <1>2, SlotsAlways, PTL DEF Spec, SlotHandedOver

-----------------------------------------------------------------------------
(* The rows implement the turns of ChatTurns.                               *)

\* What TurnState makes of a row.
TurnOf(row) ==
    CASE row.status = "absent"    -> "absent"
      [] row.status = "completed" -> "answered"
      [] row.status \in {"failed", "cancelled"} -> row.status
      [] row.status \in Live /\ row.slot -> "open"
      [] OTHER -> "parked"

\* The abstract state before and after a step.
LEMMA TurnsSeen ==
    /\ \A q \in Runs : TurnState(q) = TurnOf(run[q]) /\ TurnState(q)' = TurnOf(run'[q])
    /\ T!tvars = <<[q \in Runs |-> TurnOf(run[q])], [q \in Runs |-> run[q].chat]>>
    /\ T!tvars' = <<[q \in Runs |-> TurnOf(run'[q])], [q \in Runs |-> run'[q].chat]>>
  BY DEF TurnState, TurnOf, T!tvars

\* A run that is absent, live with its slot, answered.
LEMMA TurnNames ==
    ASSUME NEW row \in Row
    PROVE  /\ TurnOf(row) = "absent" <=> row.status = "absent"
           /\ TurnOf(row) = "open" <=> row.status \in Live /\ row.slot
           /\ row.status = "completed" => TurnOf(row) = "answered"
  BY DEF TurnOf, Row, Status, Live, Stopped, Settled

\* A row that moves stays the turn it was, or is set aside, or ends.
LEMMA TurnGoes ==
    ASSUME NEW old \in Row, NEW new \in Row, Goes(old, new),
           old.status = "needs_attention" /\ old.effect = "open" => ~old.slot
    PROVE  \/ TurnOf(new) = TurnOf(old)
           \/ TurnOf(old) = "open" /\ TurnOf(new) = "parked"
           \/ TurnOf(old) \in {"open", "parked"} /\ TurnOf(new) \in {"failed", "cancelled"}
  <1> USE DEF TurnOf, Row, Status, Live, Stopped, Settled
  <1>1. CASE new.status = old.status /\ (old.status \in Live => new.slot = old.slot)
    BY <1>1
  <1>2. CASE {old.status, new.status} \subseteq Live /\ new.slot = old.slot
    BY <1>2
  <1>3. CASE old.status \in Live /\ new.status \in Stopped \ {"completed"}
    BY <1>3
  <1>4. CASE /\ old.status = "needs_attention" /\ old.effect = "open"
             /\ new.status = "running" /\ new.slot = old.slot
    BY <1>4
  <1> HIDE DEF TurnOf, Row, Status, Live, Stopped, Settled
  <1> QED BY <1>1, <1>2, <1>3, <1>4 DEF Goes

\* A run that stops with its tool call open has given up its slot, so that it stays set
\* aside when a tool sweep reopens it (claim_recovery_intent).
LEMMA AsideStep ==
    ASSUME Typed, SetAside, RowsMove
    PROVE  SetAside'
  <1> SUFFICES ASSUME NEW q \in Runs, run'[q].status = "needs_attention",
                      run'[q].effect = "open"
               PROVE  ~run'[q].slot
    BY DEF SetAside
  <1>0. run[q].status = "needs_attention" /\ run[q].effect = "open" => ~run[q].slot
    BY DEF SetAside
  <1>1. CASE run'[q] = run[q]
    BY <1>0, <1>1
  <1>2. ASSUME NEW r \in Runs, Moves(r) PROVE ~run'[q].slot
    <2>1. run'[q] = run[q] \/ Goes(run[q], run'[q])
      BY <1>2 DEF Moves
    <2>2. CASE Goes(run[q], run'[q])
      BY <1>0, <2>2 DEF Goes
    <2> QED BY <1>1, <2>1, <2>2
  <1>3. ASSUME NEW r \in Runs, Opens(r) PROVE ~run'[q].slot
    <2>1. PICK c \in Chats : run' = [run EXCEPT ![r] = PendingRow(c, FALSE)]
      BY <1>3 DEF Opens
    <2>2. q # r
      BY <2>1, AnswerStatus DEF Typed, RowsOK
    <2> QED BY <1>1, <2>1, <2>2 DEF Typed, RowsOK
  <1>4. ASSUME NEW w \in Workers, NEW next \in Runs \cup {None}, Leaves(w, next)
        PROVE  ~run'[q].slot
    <2>1. q # worker[w].run /\ q # next
      BY <1>4, AnswerStatus DEF Leaves, Typed, RowsOK
    <2> QED BY <1>1, <1>4, <2>1 DEF Leaves
  <1>5. \A w \in Workers : Answers(w) => \E next \in Runs \cup {None} : Leaves(w, next)
    BY Answered DEF Answers
  <1> QED BY <1>1, <1>2, <1>3, <1>4, <1>5 DEF RowsMove

\* A transition of one row, on the abstract state.
LEMMA OneTurn ==
    ASSUME NEW r \in Runs, \A q \in Runs \ {r} : run'[q] = run[q]
    PROVE  /\ [q \in Runs |-> TurnOf(run'[q])]
                 = [[q \in Runs |-> TurnOf(run[q])] EXCEPT ![r] = TurnOf(run'[r])]
           /\ [q \in Runs |-> run'[q].chat]
                 = [[q \in Runs |-> run[q].chat] EXCEPT ![r] = run'[r].chat]
  OBVIOUS

\* A row that moves: a stutter, or the turn is set aside or ends.
LEMMA MovesTurn ==
    ASSUME Typed, Typed', SetAside, NEW r \in Runs, Moves(r)
    PROVE  [T!TurnsNext]_(T!tvars)
  <1> DEFINE S == [q \in Runs |-> TurnOf(run[q])]
             SN == [q \in Runs |-> TurnOf(run'[q])]
             C == [q \in Runs |-> run[q].chat]
             CN == [q \in Runs |-> run'[q].chat]
  <1>1. /\ SN = [S EXCEPT ![r] = TurnOf(run'[r])]
        /\ CN = [C EXCEPT ![r] = run'[r].chat]
    BY OneTurn DEF Moves
  <1>2. Goes(run[r], run'[r]) /\ run'[r].chat = run[r].chat
    BY DEF Moves, Goes
  <1>3. CN = C
    BY <1>1, <1>2
  <1>4. \/ TurnOf(run'[r]) = S[r]
        \/ S[r] = "open" /\ TurnOf(run'[r]) = "parked"
        \/ S[r] \in {"open", "parked"} /\ TurnOf(run'[r]) \in {"failed", "cancelled"}
    BY <1>2, TurnGoes DEF Typed, RowsOK, SetAside
  <1>5. /\ T!tvars = <<S, C>> /\ T!tvars' = <<SN, CN>>
        /\ [q \in Runs |-> TurnState(q)] = S /\ [q \in Runs |-> TurnState(q)]' = SN
    BY TurnsSeen
  <1>6. CASE TurnOf(run'[r]) = S[r]
    <2>1. SN = S
      BY <1>1, <1>6
    <2> QED BY <1>3, <1>5, <2>1
  <1>7. CASE S[r] = "open" /\ TurnOf(run'[r]) = "parked"
    <2>1. T!Park(r)
      BY <1>1, <1>3, <1>5, <1>7 DEF T!Park
    <2> QED BY <2>1 DEF T!TurnsNext
  <1>8. CASE S[r] \in {"open", "parked"} /\ TurnOf(run'[r]) \in {"failed", "cancelled"}
    <2>1. T!End(r, TurnOf(run'[r]))
      BY <1>1, <1>3, <1>5, <1>8 DEF T!End
    <2> QED BY <1>8, <2>1 DEF T!TurnsNext
  <1> QED BY <1>4, <1>6, <1>7, <1>8


\* A request is admitted to a chat with no turn open.
LEMMA OpensTurn ==
    ASSUME Typed, NEW r \in Runs, Opens(r)
    PROVE  T!TurnsNext
  <1> DEFINE S == [q \in Runs |-> TurnOf(run[q])]
             SN == [q \in Runs |-> TurnOf(run'[q])]
             C == [q \in Runs |-> run[q].chat]
             CN == [q \in Runs |-> run'[q].chat]
  <1>1. PICK c \in Chats : SlotFree(c) /\ run' = [run EXCEPT ![r] = PendingRow(c, FALSE)]
    BY DEF Opens
  <1>2. run'[r] = PendingRow(c, FALSE) /\ \A q \in Runs \ {r} : run'[q] = run[q]
    BY <1>1 DEF Typed, RowsOK
  <1>3. run'[r].chat = c /\ TurnOf(run'[r]) = "open"
    BY <1>2 DEF PendingRow, AbsentRow, TurnOf, Live
  <1>4. /\ SN = [S EXCEPT ![r] = "open"]
        /\ CN = [C EXCEPT ![r] = c]
    BY <1>2, <1>3, OneTurn
  <1>5. \A q \in Runs : C[q] = c => S[q] # "open"
    BY <1>1, TurnNames DEF SlotFree, Typed, RowsOK
  <1>6. S[r] = "absent"
    BY TurnNames DEF Opens, Typed, RowsOK
  <1>7. [q \in Runs |-> TurnState(q)] = S /\ [q \in Runs |-> TurnState(q)]' = SN
    BY TurnsSeen
  <1>8. T!Open(r, c)
    BY <1>4, <1>5, <1>6, <1>7 DEF T!Open, T!Quiet
  <1> QED BY <1>8 DEF T!TurnsNext

\* complete() answers an open turn and opens the queued one in its place.
LEMMA AnswersTurn ==
    ASSUME SInv, NEW w \in Workers, NEW next \in Runs \cup {None}, Leaves(w, next)
    PROVE  T!TurnsNext
  <1> DEFINE r == worker[w].run
             S == [q \in Runs |-> TurnOf(run[q])]
             SN == [q \in Runs |-> TurnOf(run'[q])]
             C == [q \in Runs |-> run[q].chat]
             CN == [q \in Runs |-> run'[q].chat]
  <1>1. r \in Runs /\ run[r] \in Row /\ run[r].status \in Live /\ run[r].slot
    BY OwnedSlot DEF Leaves, SInv, Slots, Typed, RowsOK
  <1>2. S[r] = "open"
    BY <1>1, TurnNames
  <1>3. TurnOf(run'[r]) = "answered" /\ run'[r].chat = C[r]
    BY <1>1 DEF Leaves, Completed, TurnOf, Row
  <1>4. [q \in Runs |-> TurnState(q)] = S /\ [q \in Runs |-> TurnState(q)]' = SN
    BY TurnsSeen
  <1>5. CASE next = None
    <2>1. \A q \in Runs \ {r} : run'[q] = run[q]
      BY <1>5, ConstantsAssumption DEF Leaves
    <2>2. SN = [S EXCEPT ![r] = "answered"] /\ CN = C
      BY <1>1, <1>3, <2>1
    <2>3. T!Answer(r)
      BY <1>2, <1>4, <2>2 DEF T!Answer
    <2> QED BY <1>1, <2>3 DEF T!TurnsNext
  <1>6. CASE next \in Runs
    <2>1. /\ next # r /\ run[next].status = "absent"
          /\ run'[next] = PendingRow(C[r], TRUE)
          /\ \A q \in Runs \ {r} : C[q] = C[r] => ~run[q].slot
          /\ \A q \in Runs \ {r, next} : run'[q] = run[q]
      BY <1>1, <1>6 DEF Leaves
    <2>2. TurnOf(run'[next]) = "open" /\ run'[next].chat = C[r]
      BY <2>1 DEF PendingRow, AbsentRow, TurnOf, Live
    <2>3. /\ SN = [S EXCEPT ![r] = "answered", ![next] = "open"]
          /\ CN = [C EXCEPT ![next] = C[r]]
      BY <1>1, <1>3, <1>6, <2>1, <2>2
    <2>4. S[next] = "absent"
      BY <1>6, <2>1, TurnNames DEF SInv, Typed, RowsOK
    <2>5. \A q \in Runs \ {r} : C[q] = C[r] => S[q] # "open"
      BY <2>1, TurnNames DEF SInv, Typed, RowsOK
    <2>6. T!AnswerAndContinue(r, next)
      BY <1>2, <1>4, <2>3, <2>4, <2>5 DEF T!AnswerAndContinue, T!Quiet
    <2> QED BY <1>1, <1>6, <2>6 DEF T!TurnsNext
  <1> QED BY <1>5, <1>6

\* Every step of the rows is one of the turns, or none.
LEMMA TurnsStep == SInv /\ SInv' /\ SetAside /\ RowsMove => [T!TurnsNext]_(T!tvars)
  <1> SUFFICES ASSUME SInv, SInv', SetAside, RowsMove PROVE [T!TurnsNext]_(T!tvars)
    OBVIOUS
  <1>1. Typed /\ Typed'
    BY DEF SInv
  <1>2. CASE UNCHANGED <<run, message>>
    BY <1>2, TurnsSeen
  <1>3. \A r \in Runs : Moves(r) \/ Opens(r) => [T!TurnsNext]_(T!tvars)
    BY <1>1, MovesTurn, OpensTurn
  <1>4. ASSUME NEW w \in Workers, Answers(w) PROVE T!TurnsNext
    <2>1. PICK next \in Runs \cup {None} : Leaves(w, next)
      BY <1>1, <1>4, Answered DEF Answers
    <2> QED BY <2>1, AnswersTurn
  <1> QED BY <1>2, <1>3, <1>4 DEF RowsMove

\* With no run accepted, no turn is there.
LEMMA TurnsStart == Init => SetAside /\ T!TurnsInit
  BY DEF Init, SetAside, T!TurnsInit, TurnState, AbsentRow

\* The chat runs implement the turns of a chat: one open turn per chat
\* (uq_chat_runs_writer_slot), verdicts that stay, no answer for a run that was set
\* aside (needs_attention), a hand-off inside complete() with no gap.
THEOREM RunsImplementTurns ==
    ASSUME TimelyClaims
    PROVE  Spec => ImplementsTurns
  <1>1. Init => SInv /\ SetAside /\ T!TurnsInit
    BY InitTyped, InitSlots, TurnsStart DEF SInv
  <1>2. SInv /\ SetAside /\ [Next]_vars => (SInv /\ SetAside)'
    BY NextSlots, AnyStep, AsideStep DEF SInv
  <1>3. SInv /\ SInv' /\ SetAside /\ [Next]_vars => [T!TurnsNext]_(T!tvars)
    BY AnyStep, TurnsStep DEF SInv
  <1> QED BY <1>1, <1>2, <1>3, PTL DEF Spec, ImplementsTurns, T!TurnsSpec


-----------------------------------------------------------------------------
(* No replay: how a step changes who holds a row, and who restarts it.      *)

\* What a step may do to row q: begin it, if nobody asked the model for it; of a run
\* that is asked, keep it past its model call, keep the lease that makes a restart too
\* late, and give it to nobody who asks the model.
RowFine(q) ==
    /\ run'[q].status \in {"absent", "pending"} =>
          \/ run[q].status \in {"absent", "pending"} /\ run'[q].owner \in {run[q].owner, None}
          \/ ~Asked(q) /\ run'[q].owner = None
    /\ Asked(q) =>
          /\ run'[q].phase \in PreModel => run[q].phase \in PreModel
          /\ run'[q].status \in Live /\ Resuming(q) =>
                \/ run[q].status \in Live /\ run'[q].owner = run[q].owner
                   /\ run'[q].fresh = run[q].fresh
                \/ run'[q].owner \in Workers /\ run'[q].fresh
          /\ \A x \in Workers :
                Holds(x, q)' => Holds(x, q) \/ worker'[x].pc \notin {"starting", "working"}

RowsFine == \A q \in Runs : RowFine(q)

\* Nobody begins to ask for a run that is asked, or decides to restart it.
TasksFine ==
    /\ \A x \in Workers : worker'[x].pc \in {"starting", "working"} =>
          \/ worker'[x].pc = worker[x].pc /\ worker'[x].run = worker[x].run
          \/ ~Asked(worker'[x].run)
    /\ \A q \in Runs : Resuming(q)' => Resuming(q) \/ ~Asked(q)

\* That keeps a recorded model call the only one.
LEMMA ReplayFine ==
    ASSUME Typed', ReplayInv, dispatched' = dispatched, RowsFine, TasksFine
    PROVE  ReplayInv'
  <1>1. \A q \in Runs : Asked(q)' <=> Asked(q)
    BY DEF Asked
  <1>2. NotBegun'
    BY <1>1 DEF NotBegun, ReplayInv, RowsFine, RowFine
  <1>3. AskedPast'
    BY <1>1 DEF AskedPast, ReplayInv, RowsFine, RowFine
  <1>4. TooLate'
    <2> SUFFICES ASSUME NEW q \in Runs, Asked(q), run'[q].status \in Live, Resuming(q)'
                 PROVE  run'[q].owner \in Workers /\ run'[q].fresh
      BY <1>1 DEF TooLate
    <2>1. Resuming(q)
      BY DEF TasksFine
    <2>2. run[q].status \in Live => run[q].owner \in Workers /\ run[q].fresh
      BY <2>1 DEF ReplayInv, TooLate
    <2> QED BY <2>1, <2>2 DEF RowsFine, RowFine
  <1>5. OwnerAsks'
    <2> SUFFICES ASSUME NEW x \in Workers, worker'[x].pc \in {"starting", "working"},
                        Owned(x)'
                 PROVE  /\ worker'[x].pc = "starting" => dispatched[worker'[x].run] = {}
                        /\ worker'[x].pc = "working" => dispatched[worker'[x].run] \subseteq {x}
      BY DEF OwnerAsks, Asked
    <2>1. worker'[x].run \in Runs
      BY DEF Typed, TasksOK, TasksHaveRuns
    <2>2. CASE ~Asked(worker'[x].run)
      BY <2>2 DEF Asked
    <2>3. CASE Asked(worker'[x].run)
      <3>1. worker'[x].pc = worker[x].pc /\ worker'[x].run = worker[x].run
        BY <2>3 DEF TasksFine
      <3>2. Holds(x, worker[x].run)'
        BY <3>1 DEF Owned, Holds
      <3>3. Owned(x)
        BY <2>1, <2>3, <3>1, <3>2 DEF RowsFine, RowFine, Owned
      <3> QED BY <3>1, <3>3 DEF ReplayInv, OwnerAsks, Asked
    <2> QED BY <2>2, <2>3
  <1>6. NoModelReplay'
    BY DEF ReplayInv, NoModelReplay
  <1> QED BY <1>2, <1>3, <1>4, <1>5, <1>6 DEF ReplayInv

\* What most operations do to a row: they leave the lease of a live one alone.
Stays(old, new) ==
    /\ new.status \in {"absent", "pending"} => new.status = old.status /\ new.owner = old.owner
    /\ new.phase \in PreModel => old.phase \in PreModel
    /\ new.status \in Live =>
          old.status \in Live /\ new.owner = old.owner /\ new.fresh = old.fresh

\* Such an operation is fine for its row.
LEMMA StaysFine ==
    ASSUME NEW q \in Runs, Stays(run[q], run'[q])
    PROVE  RowFine(q)
  BY DEF Stays, RowFine, Holds

\* See Stays.
LEMMA StaysOps ==
    ASSUME NEW row \in Row
    PROVE  /\ Stays(row, row) /\ Stays(row, Acked(row))
           /\ \A phase \in Phases \ PreModel : Stays(row, [row EXCEPT !.phase = phase])
           /\ Stays(row, [row EXCEPT !.snap = TRUE]) /\ Stays(row, [row EXCEPT !.effect = "unknown"])
           /\ Stays(row, Abandoned(row)) /\ Stays(row, Cancelled(row))
           /\ Stays(row, Completed(row, "failed")) /\ Stays(row, Completed(row, "completed"))
           /\ Stays(row, Paused(row)) /\ Stays(row, Unknown(row))
           /\ Stays(row, [row EXCEPT !.status = "failed"])
           /\ \A e \in Effects : Stays(row, InTool(row, e))
           /\ row.status \in Live => Stays(row, Started(row))
  <1> USE DEF Stays, Row, Live, PreModel
  <1>1. Stays(row, row) /\ Stays(row, Acked(row))
    BY DEF Acked
  <1>2. /\ \A phase \in Phases \ PreModel : Stays(row, [row EXCEPT !.phase = phase])
        /\ Stays(row, [row EXCEPT !.snap = TRUE]) /\ Stays(row, [row EXCEPT !.effect = "unknown"])
    OBVIOUS
  <1>3. Stays(row, Abandoned(row)) /\ Stays(row, Cancelled(row))
    BY DEF Abandoned, Cancelled
  <1>4. Stays(row, Completed(row, "failed")) /\ Stays(row, Completed(row, "completed"))
    BY DEF Completed
  <1>5. /\ Stays(row, Paused(row)) /\ Stays(row, Unknown(row))
        /\ Stays(row, [row EXCEPT !.status = "failed"])
    BY DEF Paused, Unknown
  <1>6. \A e \in Effects : Stays(row, InTool(row, e))
    BY DEF InTool
  <1>7. row.status \in Live => Stays(row, Started(row))
    BY DEF Started
  <1> HIDE DEF Stays, Row, Live, PreModel
  <1> QED BY <1>1, <1>2, <1>3, <1>4, <1>5, <1>6, <1>7

\* A transaction that does it to one row.
LEMMA OneStays ==
    ASSUME Typed, NEW r \in Runs, NEW row, run' = [run EXCEPT ![r] = row], Stays(run[r], row)
    PROVE  RowsFine
  <1>1. run'[r] = row /\ \A q \in Runs \ {r} : run'[q] = run[q]
    BY DEF Typed, RowsOK
  <1>2. \A q \in Runs : Stays(run[q], run'[q])
    BY <1>1, StaysOps DEF Typed, RowsOK
  <1> QED BY <1>2, StaysFine DEF RowsFine

\* And to none.
LEMMA NoneStays ==
    ASSUME Typed, run' = run
    PROVE  RowsFine
  BY StaysOps, StaysFine DEF RowsFine, Typed, RowsOK

\* A transaction that changes row r, and what is fine for it.
LEMMA OneFine ==
    ASSUME Typed, NEW r \in Runs, \A q \in Runs \ {r} : run'[q] = run[q], RowFine(r)
    PROVE  RowsFine
  BY StaysOps, StaysFine DEF RowsFine, Typed, RowsOK

\* A decision to restart that is carried out within a lease period finds the row as it
\* was: no lease of it ran out, no tool sweep took it.
LEMMA NoLapse ==
    ASSUME TimelyClaims, NEW r \in Runs, MayLapse(r)
    PROVE  ~Resuming(r)
  BY DEF MayLapse, Settling, Resuming, Actions

\* A worker that restarts the request may claim it only if no model call is recorded.
LEMMA ClaimTooLate ==
    ASSUME ReplayInv, NEW w \in Workers, worker[w].run \in Runs, Claims(w),
           Claimable(worker[w].run)
    PROVE  ~Asked(worker[w].run)
  BY ConstantsAssumption DEF ReplayInv, TooLate, Resuming, Claims, Claimable

\* An answer settles a run, and begins one that is not asked.
LEMMA LeavesFine ==
    ASSUME Typed, ReplayInv, NEW w \in Workers, NEW next \in Runs \cup {None}, Leaves(w, next)
    PROVE  RowsFine
  <1> SUFFICES ASSUME NEW q \in Runs PROVE RowFine(q)
    BY DEF RowsFine
  <1>0. run[q] \in Row
    BY DEF Typed, RowsOK
  <1>1. CASE q = worker[w].run
    BY <1>0, <1>1, StaysOps, StaysFine DEF Leaves
  <1>2. CASE q # worker[w].run /\ q = next
    <2>1. ~Asked(q) /\ run'[q] = PendingRow(run[worker[w].run].chat, TRUE)
      BY <1>2 DEF Leaves, ReplayInv, NotBegun
    <2> QED BY <2>1 DEF RowFine, PendingRow, AbsentRow
  <1>3. CASE q # worker[w].run /\ q # next
    BY <1>0, <1>3, StaysOps, StaysFine DEF Leaves
  <1> QED BY <1>1, <1>2, <1>3

\* Every step but the recording of a model call is fine for the rows.
LEMMA RowsFineStep ==
    ASSUME Typed, ReplayInv, TimelyClaims, Next
    PROVE  RowsFine \/ \E m \in Workers : ModelDispatch(m)
  <1>1. ASSUME NEW w \in Workers, InitialClaim(w) PROVE RowsFine \/ \E m \in Workers :
    ModelDispatch(m)
    <2> DEFINE q == worker[w].run
    <2>1. q \in Runs /\ run[q] \in Row
      BY <1>1, TaskOf DEF InitialClaim, Live
    <2>2. \/ run' = run
          \/ run[q].status \in Live /\ run' = [run EXCEPT ![q] = Started(run[q])]
          \/ run' = [run EXCEPT ![q] = Acked(run[q])]
      BY <1>1 DEF InitialClaim, Live
    <2> HIDE DEF q
    <2> QED BY <2>1, <2>2, NoneStays, OneStays, StaysOps
  <1>2. ASSUME NEW w \in Workers, JournalClaim(w) PROVE RowsFine \/ \E m \in Workers :
    ModelDispatch(m)
    <2>0. worker[w].run \in Runs
      BY <1>2, TaskOf DEF JournalClaim, Claims
    <2> PICK q \in Runs : q = worker[w].run
      BY <2>0
    <2>1. run[q] \in Row
      BY DEF Typed, RowsOK
    <2>2. \/ run' = run
          \/ run' = [run EXCEPT ![q] = Acked(run[q])]
          \/ Claimable(q) /\ run' = [run EXCEPT ![q] = Granted(run[q], w)]
      BY <1>2 DEF JournalClaim
    <2>3. Claimable(q) => ~Asked(q)
      BY <1>2, ClaimTooLate DEF JournalClaim
    <2>4. ASSUME Claimable(q), run' = [run EXCEPT ![q] = Granted(run[q], w)] PROVE RowsFine
      <3>1. run'[q] = Granted(run[q], w) /\ \A i \in Runs \ {q} : run'[i] = run[i]
        BY <2>1, <2>4 DEF Typed, RowsOK
      <3>2. Granted(run[q], w).status = "running"
        BY <2>1 DEF Granted, Row
      <3>3. RowFine(q)
        BY <2>3, <2>4, <3>1, <3>2 DEF RowFine
      <3> QED BY <2>1, <3>1, <3>3, OneFine
    <2> QED BY <2>1, <2>2, <2>4, NoneStays, OneStays, StaysOps
  <1>3. ASSUME NEW w \in Workers, WorkerStarted(w) PROVE RowsFine \/ \E m \in Workers
    : ModelDispatch(m)
    <2>0. worker[w].run \in Runs
      BY <1>3, TaskOf DEF WorkerStarted
    <2> PICK q \in Runs : q = worker[w].run
      BY <2>0
    <2>1. run[q] \in Row
      BY DEF Typed, RowsOK
    <2>2. CASE ~Owned(w)
      BY <1>3, <2>2, NoneStays DEF WorkerStarted
    <2>3. CASE Owned(w)
      <3>1. ~Asked(q) /\ run[q].status # "pending" /\ run[q].status # "absent"
        BY <1>3, <2>1, <2>3, ConstantsAssumption
           DEF WorkerStarted, ReplayInv, OwnerAsks, NotBegun, Owned, Holds
      <3>2. run' = [run EXCEPT ![q] = [run[q] EXCEPT !.phase = "pre_model"]]
        BY <1>3, <2>3 DEF WorkerStarted
      <3>3. run'[q].status = run[q].status /\ \A i \in Runs \ {q} : run'[i] = run[i]
        BY <2>1, <3>2 DEF Typed, RowsOK, Row
      <3>4. RowFine(q)
        BY <3>1, <3>3 DEF RowFine
      <3> QED BY <2>1, <3>3, <3>4, OneFine
    <2> QED BY <2>2, <2>3
  <1>4. ASSUME NEW w \in Workers, ModelDispatch(w) PROVE RowsFine \/ \E m \in Workers
    : ModelDispatch(m)
    BY <1>4
  <1>5. ASSUME NEW w \in Workers, SteerCommitted(w) PROVE RowsFine \/ \E m \in Workers
    : ModelDispatch(m)
    <2> DEFINE q == worker[w].run
    <2>1. q \in Runs /\ run[q] \in Row
      BY <1>5, TaskOf DEF SteerCommitted, Append, Working, Phases, PreModel
    <2>2. run' = [run EXCEPT ![q] = [run[q] EXCEPT !.phase = "steer_committed"]] /\ "steer_committed" \in Phases \ PreModel
      BY <1>5 DEF SteerCommitted, Append, Working, Phases, PreModel
    <2> HIDE DEF q
    <2> QED BY <2>1, <2>2, NoneStays, OneStays, StaysOps
  <1>6. ASSUME NEW w \in Workers, ToolIntent(w) PROVE RowsFine \/ \E m \in Workers :
    ModelDispatch(m)
    <2> DEFINE q == worker[w].run
    <2>1. q \in Runs /\ run[q] \in Row
      BY <1>6, TaskOf DEF ToolIntent, Effects
    <2>2. "open" \in Effects /\ run' = [run EXCEPT ![q] = InTool(run[q], "open")]
      BY <1>6 DEF ToolIntent, Effects
    <2> HIDE DEF q
    <2> QED BY <2>1, <2>2, NoneStays, OneStays, StaysOps
  <1>7. ASSUME NEW w \in Workers, ToolResult(w) PROVE RowsFine \/ \E m \in Workers :
    ModelDispatch(m)
    <2> DEFINE q == worker[w].run
    <2>1. q \in Runs /\ run[q] \in Row
      BY <1>7, TaskOf DEF ToolResult, Effects
    <2>2. "settled" \in Effects /\ run' = [run EXCEPT ![q] = InTool(run[q], "settled")]
      BY <1>7 DEF ToolResult, Effects
    <2> HIDE DEF q
    <2> QED BY <2>1, <2>2, NoneStays, OneStays, StaysOps
  <1>8. ASSUME NEW w \in Workers, ToolUnknown(w) PROVE RowsFine \/ \E m \in Workers :
    ModelDispatch(m)
    <2> DEFINE q == worker[w].run
    <2>1. q \in Runs /\ run[q] \in Row
      BY <1>8, TaskOf DEF ToolUnknown, Working
    <2>2. run' = [run EXCEPT ![q] = Unknown(run[q])]
      BY <1>8 DEF ToolUnknown, Working
    <2> HIDE DEF q
    <2> QED BY <2>1, <2>2, NoneStays, OneStays, StaysOps
  <1>9. ASSUME NEW w \in Workers, Pause(w) PROVE RowsFine \/ \E m \in Workers :
    ModelDispatch(m)
    <2> DEFINE q == worker[w].run
    <2>1. q \in Runs /\ run[q] \in Row
      BY <1>9, TaskOf DEF Pause, Working
    <2>2. \/ run' = run
          \/ run' = [run EXCEPT ![q] = Paused(run[q])]
      BY <1>9 DEF Pause, Working
    <2> HIDE DEF q
    <2> QED BY <2>1, <2>2, NoneStays, OneStays, StaysOps
  <1>10. ASSUME NEW w \in Workers, SaveSnapshot(w) PROVE RowsFine \/ \E m \in Workers
    : ModelDispatch(m)
    <2> DEFINE q == worker[w].run
    <2>1. q \in Runs /\ run[q] \in Row
      BY <1>10, TaskOf DEF SaveSnapshot, Append, Working, Phases, PreModel
    <2>2. run' = [run EXCEPT ![q] = [run[q] EXCEPT !.phase = "model_completed"]] /\ "model_completed" \in Phases \ PreModel
      BY <1>10 DEF SaveSnapshot, Append, Working, Phases, PreModel
    <2> HIDE DEF q
    <2> QED BY <2>1, <2>2, NoneStays, OneStays, StaysOps
  <1>11. ASSUME NEW w \in Workers, WorkerFails(w) PROVE RowsFine \/ \E m \in Workers :
    ModelDispatch(m)
    <2> DEFINE q == worker[w].run
    <2>1. q \in Runs /\ run[q] \in Row
      BY <1>11, TaskOf DEF WorkerFails
    <2>2. \/ run' = run
          \/ run' = [run EXCEPT ![q] = Completed(run[q], "failed")]
      BY <1>11 DEF WorkerFails
    <2> HIDE DEF q
    <2> QED BY <2>1, <2>2, NoneStays, OneStays, StaysOps
  <1>12. ASSUME NEW w \in Workers, NEW next \in Runs \cup {None}, Complete(w, next)
    PROVE RowsFine \/ \E m \in Workers : ModelDispatch(m)
    <2>1. Leaves(w, next)
      BY <1>12, Answered DEF Complete
    <2> QED BY <2>1, LeavesFine
  <1>13. ASSUME NEW w \in Workers, Close(w) PROVE RowsFine \/ \E m \in Workers :
    ModelDispatch(m)
    <2> DEFINE q == worker[w].run
    <2>1. q \in Runs /\ run[q] \in Row
      BY <1>13, TaskOf DEF Close
    <2>2. run' = [run EXCEPT ![q] = Acked(run[q])]
      BY <1>13 DEF Close
    <2> HIDE DEF q
    <2> QED BY <2>1, <2>2, NoneStays, OneStays, StaysOps
  <1>14. ASSUME NEW w \in Workers, NEW next \in Runs \cup {None}, Recommit(w, next)
    PROVE RowsFine \/ \E m \in Workers : ModelDispatch(m)
    <2>1. Leaves(w, next)
      BY <1>14, Answered DEF Recommit
    <2> QED BY <2>1, LeavesFine
  <1>15. ASSUME NEW w \in Workers, RecommitFails(w) PROVE RowsFine \/ \E m \in Workers
    : ModelDispatch(m)
    <2> DEFINE q == worker[w].run
    <2>1. q \in Runs /\ run[q] \in Row
      BY <1>15, TaskOf DEF RecommitFails
    <2>2. \/ run' = run
          \/ run' = [run EXCEPT ![q] = Paused(run[q])]
      BY <1>15 DEF RecommitFails
    <2> HIDE DEF q
    <2> QED BY <2>1, <2>2, NoneStays, OneStays, StaysOps
  <1>16. ASSUME NEW p \in Procs, NEW r \in Runs, NEW c \in Chats, Accept(p, r, c)
    PROVE RowsFine \/ \E m \in Workers : ModelDispatch(m)
    <2>1. run'[r] = PendingRow(c, FALSE) /\ \A q \in Runs \ {r} : run'[q] = run[q]
      BY <1>16 DEF Accept, Typed, RowsOK
    <2>2. ~Asked(r)
      BY <1>16 DEF Accept, ReplayInv, NotBegun
    <2>3. RowFine(r)
      BY <2>1, <2>2 DEF RowFine, PendingRow, AbsentRow
    <2> QED BY <2>1, <2>3, OneFine
  <1>17. ASSUME NEW r \in Runs, NEW w \in Workers, NEW b \in BOOLEAN, Launch(r, w, b)
    PROVE RowsFine \/ \E m \in Workers : ModelDispatch(m)
    <2> DEFINE q == r
    <2>1. q \in Runs /\ run[q] \in Row
      BY <1>17, TaskOf DEF Launch, Typed, RowsOK
    <2>2. run' = [run EXCEPT ![q] = [run[q] EXCEPT !.snap = TRUE]]
      BY <1>17 DEF Launch, Typed, RowsOK
    <2> HIDE DEF q
    <2> QED BY <2>1, <2>2, NoneStays, OneStays, StaysOps
  <1>18. ASSUME NEW r \in Runs, PrepareFails(r) PROVE RowsFine \/ \E m \in Workers :
    ModelDispatch(m)
    <2> DEFINE q == r
    <2>1. q \in Runs /\ run[q] \in Row
      BY <1>18, TaskOf DEF PrepareFails, Typed, RowsOK
    <2>2. \/ run' = run
          \/ run' = [run EXCEPT ![q] = Abandoned(run[q])]
      BY <1>18 DEF PrepareFails, Typed, RowsOK
    <2> HIDE DEF q
    <2> QED BY <2>1, <2>2, NoneStays, OneStays, StaysOps
  <1>19. ASSUME NEW r \in Runs, WaitRun(r) PROVE RowsFine \/ \E m \in Workers :
    ModelDispatch(m)
    <2> DEFINE q == r
    <2>1. q \in Runs /\ run[q] \in Row
      BY <1>19, TaskOf DEF WaitRun, Typed, RowsOK
    <2>2. \/ run' = run
          \/ run' = [run EXCEPT ![q] = Abandoned(run[q])]
      BY <1>19 DEF WaitRun, Typed, RowsOK
    <2> HIDE DEF q
    <2> QED BY <2>1, <2>2, NoneStays, OneStays, StaysOps
  <1>20. ASSUME NEW p \in Procs, NEW r \in Runs, Cancel(p, r) PROVE RowsFine \/ \E m
    \in Workers : ModelDispatch(m)
    <2> DEFINE q == r
    <2>1. q \in Runs /\ run[q] \in Row
      BY <1>20, TaskOf DEF Cancel, Typed, RowsOK
    <2>2. run' = [run EXCEPT ![q] = Cancelled(run[q])]
      BY <1>20 DEF Cancel, Typed, RowsOK
    <2> HIDE DEF q
    <2> QED BY <2>1, <2>2, NoneStays, OneStays, StaysOps
  <1>21. ASSUME NEW p \in Procs, NEW r \in Runs, NEW b \in BOOLEAN, Reap(p, r, b)
    PROVE RowsFine \/ \E m \in Workers : ModelDispatch(m)
    <2> DEFINE q == r
    <2>1. q \in Runs /\ run[q] \in Row
      BY <1>21, TaskOf DEF Reap, Typed, RowsOK
    <2>2. run' = [run EXCEPT ![q] = [run[q] EXCEPT !.status = "failed"]]
      BY <1>21 DEF Reap, Typed, RowsOK
    <2> HIDE DEF q
    <2> QED BY <2>1, <2>2, NoneStays, OneStays, StaysOps
  <1>22. ASSUME NEW r \in Runs, NEW w \in Workers, StopAcknowledged(r, w) PROVE
    RowsFine \/ \E m \in Workers : ModelDispatch(m)
    <2> DEFINE q == r
    <2>1. q \in Runs /\ run[q] \in Row
      BY <1>22, TaskOf DEF StopAcknowledged, Typed, RowsOK
    <2>2. run' = [run EXCEPT ![q] = Acked(run[q])]
      BY <1>22 DEF StopAcknowledged, Typed, RowsOK
    <2> HIDE DEF q
    <2> QED BY <2>1, <2>2, NoneStays, OneStays, StaysOps
  <1>23. ASSUME NEW p \in Procs, NEW r \in Runs, RecoverUnprepared(p, r) PROVE
    RowsFine \/ \E m \in Workers : ModelDispatch(m)
    <2> DEFINE q == r
    <2>1. q \in Runs /\ run[q] \in Row
      BY <1>23, TaskOf DEF RecoverUnprepared, Typed, RowsOK
    <2>2. run' = [run EXCEPT ![q] = Completed(run[q], "failed")]
      BY <1>23 DEF RecoverUnprepared, Typed, RowsOK
    <2> HIDE DEF q
    <2> QED BY <2>1, <2>2, NoneStays, OneStays, StaysOps
  <1>24. ASSUME NEW p \in Procs, NEW r \in Runs, RecoverPause(p, r) PROVE RowsFine \/
    \E m \in Workers : ModelDispatch(m)
    <2> DEFINE q == r
    <2>1. q \in Runs /\ run[q] \in Row
      BY <1>24, TaskOf DEF RecoverPause, Typed, RowsOK
    <2>2. run' = [run EXCEPT ![q] = Paused(run[q])]
      BY <1>24 DEF RecoverPause, Typed, RowsOK
    <2> HIDE DEF q
    <2> QED BY <2>1, <2>2, NoneStays, OneStays, StaysOps
  <1>25. ASSUME NEW p \in Procs, NEW r \in Runs, NEW w \in Workers, RecommitClaim(p,
    r, w) PROVE RowsFine \/ \E m \in Workers : ModelDispatch(m)
    <2>0. run[r] \in Row
      BY <1>25 DEF Typed, RowsOK
    <2>1. CASE run' = run
      BY <2>1, NoneStays
    <2>2. CASE /\ run' = [run EXCEPT ![r] = Granted(run[r], w)]
               /\ worker' = Spawn(w, r, p, "recommitting", TRUE)
      <3>1. run'[r] = Granted(run[r], w) /\ \A i \in Runs \ {r} : run'[i] = run[i]
        BY <2>2 DEF Typed, RowsOK
      <3>2. /\ run'[r].status = "running" /\ run'[r].owner = w /\ run'[r].fresh
            /\ run'[r].phase = run[r].phase
        BY <2>0, <3>1 DEF Granted, Row
      <3>3. worker'[w].pc = "recommitting"
        BY <2>2 DEF Spawn, Typed, TasksOK
      <3>4. \A x \in Workers : Holds(x, r)' => worker'[x].pc \notin {"starting", "working"}
        BY <3>2, <3>3 DEF Holds
      <3>5. RowFine(r)
        BY <3>2, <3>4 DEF RowFine
      <3> QED BY <3>1, <3>5, OneFine
    <2> QED BY <1>25, <2>1, <2>2 DEF RecommitClaim
  <1>26. ASSUME NEW p \in Procs, NEW r \in Runs, SettleStoppedEffect(p, r) PROVE
    RowsFine \/ \E m \in Workers : ModelDispatch(m)
    <2> DEFINE q == r
    <2>1. q \in Runs /\ run[q] \in Row
      BY <1>26, TaskOf DEF SettleStoppedEffect, Typed, RowsOK
    <2>2. run' = [run EXCEPT ![q] = [run[q] EXCEPT !.effect = "unknown"]]
      BY <1>26 DEF SettleStoppedEffect, Typed, RowsOK
    <2> HIDE DEF q
    <2> QED BY <2>1, <2>2, NoneStays, OneStays, StaysOps
  <1>27. ASSUME NEW p \in Procs, NEW r \in Runs, ClaimEffect(p, r) PROVE RowsFine \/
    \E m \in Workers : ModelDispatch(m)
    <2>1. ~Resuming(r)
      BY <1>27, NoLapse DEF ClaimEffect
    <2>2. run'[r] = Reopened(run[r], p) /\ \A i \in Runs \ {r} : run'[i] = run[i]
      BY <1>27 DEF ClaimEffect, Typed, RowsOK
    <2>3. run'[r].status = "running" /\ run'[r].phase = "tool" /\ run'[r].owner = p
      BY <1>27, <2>2 DEF Reopened, Typed, RowsOK, Row
    <2>4. \A x \in Workers : ~Holds(x, r)'
      BY <2>3, ConstantsAssumption DEF Holds
    <2>5. RowFine(r)
      BY <2>1, <2>3, <2>4 DEF RowFine, PreModel
    <2> QED BY <2>2, <2>5, OneFine
  <1>28. ASSUME NEW p \in Procs, RecoverEffect(p) PROVE RowsFine \/ \E m \in Workers :
    ModelDispatch(m)
    <2> DEFINE q == sweeping[p]
    <2>1. q \in Runs /\ run[q] \in Row
      BY <1>28, TaskOf DEF RecoverEffect, Typed, RowsOK, RestOK, Effects
    <2>2. "settled" \in Effects /\ run' = [run EXCEPT ![q] = InTool(run[q], "settled")]
      BY <1>28 DEF RecoverEffect, Typed, RowsOK, RestOK, Effects
    <2> HIDE DEF q
    <2> QED BY <2>1, <2>2, NoneStays, OneStays, StaysOps
  <1>29. ASSUME NEW p \in Procs, ReleaseRun(p) PROVE RowsFine \/ \E m \in Workers :
    ModelDispatch(m)
    <2>0. sweeping[p] \in Runs
      BY <1>29 DEF ReleaseRun, Typed, RestOK
    <2> PICK q \in Runs : q = sweeping[p]
      BY <2>0
    <2>1. run[q] \in Row
      BY DEF Typed, RowsOK
    <2>2. \/ run' = run
          \/ run[q].owner = p /\ run' = [run EXCEPT ![q] = Unleased(run[q])]
      BY <1>29 DEF ReleaseRun
    <2>3. CASE run' = run
      BY <2>3, NoneStays
    <2>4. CASE run[q].owner = p /\ run' = [run EXCEPT ![q] = Unleased(run[q])]
      <3>1. run'[q] = Unleased(run[q]) /\ \A i \in Runs \ {q} : run'[i] = run[i]
        BY <2>1, <2>4 DEF Typed, RowsOK
      <3>2. /\ run'[q].status = run[q].status /\ run'[q].phase = run[q].phase
            /\ run'[q].owner = None
        BY <2>1, <3>1 DEF Unleased, Row
      <3>3. Asked(q) /\ run[q].status \in Live => ~Resuming(q)
        BY <1>29, <2>1, <2>4, ConstantsAssumption DEF ReplayInv, TooLate
      <3>4. \A x \in Workers : ~Holds(x, q)'
        BY <3>2, ConstantsAssumption DEF Holds
      <3>5. RowFine(q)
        BY <3>2, <3>3, <3>4 DEF RowFine
      <3> QED BY <2>1, <3>1, <3>5, OneFine
    <2> QED BY <2>2, <2>3, <2>4
  <1>30. ASSUME NEW p \in Procs, GiveUpEffect(p) PROVE RowsFine \/ \E m \in Workers :
    ModelDispatch(m)
    <2> DEFINE q == sweeping[p]
    <2>1. q \in Runs /\ run[q] \in Row
      BY <1>30, TaskOf DEF GiveUpEffect, Typed, RowsOK, RestOK
    <2>2. run' = [run EXCEPT ![q] = Unknown(run[q])]
      BY <1>30 DEF GiveUpEffect, Typed, RowsOK, RestOK
    <2> HIDE DEF q
    <2> QED BY <2>1, <2>2, NoneStays, OneStays, StaysOps
  <1>31. ASSUME NEW r \in Runs, LeaseExpires(r) PROVE RowsFine \/ \E m \in Workers :
    ModelDispatch(m)
    <2>1. ~Resuming(r)
      BY <1>31, NoLapse DEF LeaseExpires
    <2>2. /\ run'[r].status = run[r].status /\ run'[r].phase = run[r].phase
          /\ run'[r].owner = run[r].owner /\ ~run'[r].fresh
          /\ \A i \in Runs \ {r} : run'[i] = run[i]
      BY <1>31 DEF LeaseExpires, Typed, RowsOK, Row
    <2>3. \A x \in Workers : ~Holds(x, r)'
      BY <2>2 DEF Holds
    <2>4. RowFine(r)
      BY <2>1, <2>2, <2>3 DEF RowFine
    <2> QED BY <2>2, <2>4, OneFine
  <1>32. ASSUME NEW w \in Workers, CompleteLost(w) \/ Fenced(w) \/ WrapUp(w) \/
    HeartbeatFails(w) \/ HandoffInterrupted(w) \/ Recycle(w)
       PROVE  UNCHANGED <<run>>
    BY <1>32 DEF CompleteLost, ghosts, Fenced, WrapUp, HeartbeatFails,
      HandoffInterrupted, Recycle
  <1>33. ASSUME NEW w \in Workers, NEW x \in Workers, Schedule(w, x)
       PROVE  UNCHANGED <<run>>
    BY <1>33 DEF Schedule, ghosts
  <1>34. ASSUME NEW r \in Runs, LaunchRefused(r)
       PROVE  UNCHANGED <<run>>
    BY <1>34 DEF LaunchRefused, ghosts
  <1>35. ASSUME NEW r \in Runs, NEW w \in Workers, StopTimesOut(r, w)
       PROVE  UNCHANGED <<run>>
    BY <1>35 DEF StopTimesOut, ghosts
  <1>36. ASSUME NEW p \in Procs, NEW r \in Runs, NEW a \in Actions, RecoverDecide(p,
    r, a)
       PROVE  UNCHANGED <<run>>
    BY <1>36 DEF RecoverDecide, ghosts
  <1>37. ASSUME NEW p \in Procs, NEW r \in Runs, NEW w \in Workers, Resume(p, r, w)
       PROVE  UNCHANGED <<run>>
    BY <1>37 DEF Resume, ghosts
  <1>38. ASSUME NEW p \in Procs, DeferEffect(p) \/ Crash(p)
       PROVE  UNCHANGED <<run>>
    BY <1>38 DEF DeferEffect, ghosts, Crash
  <1>39. ASSUME UNCHANGED <<run>> PROVE RowsFine \/ \E m \in Workers : ModelDispatch(m)
    BY <1>39, NoneStays DEF RowsFine
  <1>40. QED
    BY <1>1, <1>2, <1>3, <1>4, <1>5, <1>6, <1>7, <1>8, <1>9, <1>10, <1>11, <1>12,
      <1>13, <1>14, <1>15, <1>16, <1>17, <1>18, <1>19, <1>20, <1>21, <1>22, <1>23,
      <1>24, <1>25, <1>26, <1>27, <1>28, <1>29, <1>30, <1>31, <1>32, <1>33, <1>34,
      <1>35, <1>36, <1>37, <1>38, <1>39 DEF Next, WorkerStep, WorkerActs, WorkerEnds,
      WorkerCommits, RecommitEnds, RequestStep, SweepStep, SweepEnds

-----------------------------------------------------------------------------
(* No replay: tasks and decisions.                                          *)

\* Nobody comes to a point where it asks, or where it restarts a run.
TasksKept ==
    /\ \A x \in Workers :
          /\ worker'[x].pc \in {"starting", "working"} =>
                worker'[x].pc = worker[x].pc /\ worker'[x].run = worker[x].run
          /\ \A q \in Runs : SettlesAs(worker'[x], q) => SettlesAs(worker[x], q)
    /\ \A p \in Procs : todo'[p] \subseteq todo[p]

\* Such a step is fine for the tasks.
LEMMA KeptFine ==
    ASSUME TasksKept
    PROVE  TasksFine
  <1>1. \A q \in Runs : Resuming(q)' => Resuming(q)
    BY DEF TasksKept, Resuming, SettlesAs
  <1> QED BY <1>1 DEF TasksKept, TasksFine

\* Every step is fine for the tasks and decisions.
LEMMA TasksFineStep ==
    ASSUME Typed, ReplayInv, Next
    PROVE  TasksFine
  <1>1. ASSUME NEW w \in Workers, InitialClaim(w) PROVE TasksFine
    <2>0. worker[w].run \in Runs
      BY <1>1, TaskOf DEF InitialClaim
    <2> PICK r \in Runs : r = worker[w].run
      BY <2>0
    <2>1. /\ \A x \in Workers \ {w} : worker'[x] = worker[x]
          /\ worker'[w].run = r /\ todo' = todo
          /\ \/ worker'[w].pc = "done"
             \/ worker'[w].pc = "claiming" /\ run[r].status = "pending"
      BY <1>1 DEF InitialClaim, Finish, Goto, sweeps, Typed, TasksOK, Task
    <2>2. run[r].status = "pending" => ~Asked(r)
      BY DEF ReplayInv, NotBegun
    <2>3. \A x \in Workers : worker'[x].pc \in {"starting", "working"} =>
              worker'[x].pc = worker[x].pc /\ worker'[x].run = worker[x].run
      BY <2>1
    <2>4. \A q \in Runs : Resuming(q)' => Resuming(q) \/ ~Asked(q)
      BY <2>1, <2>2 DEF Resuming
    <2> QED BY <2>3, <2>4 DEF TasksFine
  <1>2. ASSUME NEW w \in Workers, JournalClaim(w) PROVE TasksFine
    <2>0. worker[w].run \in Runs
      BY <1>2, TaskOf DEF JournalClaim, Claims
    <2> PICK r \in Runs : r = worker[w].run
      BY <2>0
    <2>1. /\ \A x \in Workers \ {w} : worker'[x] = worker[x]
          /\ worker'[w].run = r /\ todo' = todo
          /\ \/ worker'[w].pc = "done"
             \/ worker'[w].pc = "starting" /\ Claimable(r)
      BY <1>2 DEF JournalClaim, Finish, Goto, sweeps, Typed, TasksOK, Task
    <2>2. Claimable(r) => ~Asked(r)
      BY <1>2, ClaimTooLate DEF JournalClaim
    <2>3. \A x \in Workers : worker'[x].pc \in {"starting", "working"} =>
              \/ worker'[x].pc = worker[x].pc /\ worker'[x].run = worker[x].run
              \/ ~Asked(worker'[x].run)
      BY <2>1, <2>2
    <2>4. \A q \in Runs : Resuming(q)' => Resuming(q)
      BY <2>1 DEF Resuming
    <2> QED BY <2>3, <2>4 DEF TasksFine
  <1>3. ASSUME NEW w \in Workers, WorkerStarted(w) PROVE TasksFine
    <2>0. worker[w].run \in Runs
      BY <1>3, TaskOf DEF WorkerStarted
    <2> PICK r \in Runs : r = worker[w].run
      BY <2>0
    <2>1. /\ \A x \in Workers \ {w} : worker'[x] = worker[x]
          /\ worker'[w].run = r /\ todo' = todo
          /\ \/ worker'[w].pc = "done"
             \/ worker'[w].pc = "working" /\ Owned(w)
      BY <1>3 DEF WorkerStarted, Finish, Goto, sweeps, Typed, TasksOK, Task
    <2>2. Owned(w) => ~Asked(r)
      BY <1>3 DEF WorkerStarted, ReplayInv, OwnerAsks
    <2>3. \A x \in Workers : worker'[x].pc \in {"starting", "working"} =>
              \/ worker'[x].pc = worker[x].pc /\ worker'[x].run = worker[x].run
              \/ ~Asked(worker'[x].run)
      BY <2>1, <2>2
    <2>4. \A q \in Runs : Resuming(q)' => Resuming(q)
      BY <2>1 DEF Resuming
    <2> QED BY <2>3, <2>4 DEF TasksFine
  <1>4. ASSUME NEW w \in Workers, ToolUnknown(w) PROVE TasksFine
    <2>1. TasksKept
      BY <1>4 DEF ToolUnknown, Goto, Typed, TasksOK, Task, TasksKept, SettlesAs, sweeps
    <2> QED BY <2>1, KeptFine
  <1>5. ASSUME NEW w \in Workers, Pause(w) PROVE TasksFine
    <2>1. TasksKept
      BY <1>5 DEF Pause, Goto, Typed, TasksOK, Task, TasksKept, SettlesAs, sweeps
    <2> QED BY <2>1, KeptFine
  <1>6. ASSUME NEW w \in Workers, SaveSnapshot(w) PROVE TasksFine
    <2>1. TasksKept
      BY <1>6 DEF SaveSnapshot, Goto, Typed, TasksOK, Task, TasksKept, SettlesAs, sweeps
    <2> QED BY <2>1, KeptFine
  <1>7. ASSUME NEW w \in Workers, WorkerFails(w) PROVE TasksFine
    <2>1. TasksKept
      BY <1>7 DEF WorkerFails, Goto, Typed, TasksOK, Task, TasksKept, SettlesAs, sweeps
    <2> QED BY <2>1, KeptFine
  <1>8. ASSUME NEW w \in Workers, NEW next \in Runs \cup {None}, Complete(w, next)
    PROVE TasksFine
    <2>1. TasksKept
      BY <1>8 DEF Complete, Typed, TasksOK, Task, TasksKept, SettlesAs, sweeps
    <2> QED BY <2>1, KeptFine
  <1>9. ASSUME NEW w \in Workers, CompleteLost(w) PROVE TasksFine
    <2>1. TasksKept
      BY <1>9 DEF CompleteLost, Goto, Typed, TasksOK, Task, TasksKept, SettlesAs, sweeps
    <2> QED BY <2>1, KeptFine
  <1>10. ASSUME NEW w \in Workers, Fenced(w) PROVE TasksFine
    <2>1. TasksKept
      BY <1>10 DEF Fenced, Goto, Typed, TasksOK, Task, TasksKept, SettlesAs, sweeps
    <2> QED BY <2>1, KeptFine
  <1>11. ASSUME NEW w \in Workers, WrapUp(w) PROVE TasksFine
    <2>1. TasksKept
      BY <1>11 DEF WrapUp, Goto, Typed, TasksOK, Task, TasksKept, SettlesAs, sweeps
    <2> QED BY <2>1, KeptFine
  <1>12. ASSUME NEW w \in Workers, HeartbeatFails(w) PROVE TasksFine
    <2>1. TasksKept
      BY <1>12 DEF HeartbeatFails, Goto, Typed, TasksOK, Task, TasksKept, SettlesAs, sweeps
    <2> QED BY <2>1, KeptFine
  <1>13. ASSUME NEW w \in Workers, HandoffInterrupted(w) PROVE TasksFine
    <2>1. TasksKept
      BY <1>13 DEF HandoffInterrupted, Typed, TasksOK, Task, TasksKept, SettlesAs, sweeps
    <2> QED BY <2>1, KeptFine
  <1>14. ASSUME NEW w \in Workers, Close(w) PROVE TasksFine
    <2>1. TasksKept
      BY <1>14 DEF Close, Finish, Goto, Typed, TasksOK, Task, TasksKept, SettlesAs, sweeps
    <2> QED BY <2>1, KeptFine
  <1>15. ASSUME NEW w \in Workers, NEW x \in Workers, Schedule(w, x) PROVE TasksFine
    <2>1. TasksKept
      BY <1>15 DEF Schedule, Spawn, Typed, TasksOK, Task, TasksKept, SettlesAs, sweeps
    <2> QED BY <2>1, KeptFine
  <1>16. ASSUME NEW w \in Workers, NEW next \in Runs \cup {None}, Recommit(w, next)
    PROVE TasksFine
    <2>1. TasksKept
      BY <1>16 DEF Recommit, Typed, TasksOK, Task, TasksKept, SettlesAs, sweeps
    <2> QED BY <2>1, KeptFine
  <1>17. ASSUME NEW w \in Workers, RecommitFails(w) PROVE TasksFine
    <2>1. TasksKept
      BY <1>17 DEF RecommitFails, Goto, Typed, TasksOK, Task, TasksKept, SettlesAs, sweeps
    <2> QED BY <2>1, KeptFine
  <1>18. ASSUME NEW r \in Runs, NEW w \in Workers, NEW b \in BOOLEAN, Launch(r, w, b)
    PROVE TasksFine
    <2>1. TasksKept
      BY <1>18 DEF Launch, Spawn, Typed, TasksOK, Task, TasksKept, SettlesAs, sweeps
    <2> QED BY <2>1, KeptFine
  <1>19. ASSUME NEW p \in Procs, NEW r \in Runs, Cancel(p, r) PROVE TasksFine
    <2>1. TasksKept
      BY <1>19 DEF Cancel, StopLocalTask, Finish, Goto, Typed, TasksOK, Task, TasksKept, SettlesAs, sweeps
    <2> QED BY <2>1, KeptFine
  <1>20. ASSUME NEW p \in Procs, NEW r \in Runs, NEW b \in BOOLEAN, Reap(p, r, b)
    PROVE TasksFine
    <2>1. TasksKept
      BY <1>20 DEF Reap, StopLocalTask, Finish, Goto, Typed, TasksOK, Task, TasksKept, SettlesAs, sweeps
    <2> QED BY <2>1, KeptFine
  <1>21. ASSUME NEW p \in Procs, NEW r \in Runs, NEW a \in Actions, RecoverDecide(p,
    r, a) PROVE TasksFine
    <2>1. a = "resume" => ~Asked(r)
      BY <1>21 DEF RecoverDecide, SafePoint, PreModel, ReplayInv, AskedPast
    <2>2. worker' = worker /\ \A i \in Procs : todo'[i] \subseteq todo[i] \cup {<<r, a>>}
      BY <1>21 DEF RecoverDecide, Typed, RestOK
    <2>3. \A q \in Runs : Resuming(q)' => Resuming(q) \/ ~Asked(q)
      BY <2>1, <2>2 DEF Resuming
    <2> QED BY <2>2, <2>3 DEF TasksFine
  <1>22. ASSUME NEW p \in Procs, NEW r \in Runs, NEW w \in Workers, Resume(p, r, w)
    PROVE TasksFine
    <2>1. Resuming(r)
      BY <1>22 DEF Resume, Resuming
    <2>2. /\ \A x \in Workers \ {w} : worker'[x] = worker[x]
          /\ worker'[w].run = r /\ worker'[w].pc = "spawned"
          /\ \A i \in Procs : todo'[i] \subseteq todo[i]
      BY <1>22 DEF Resume, Spawn, Typed, TasksOK, Task, RestOK
    <2>3. \A q \in Runs : Resuming(q)' => Resuming(q)
      BY <2>1, <2>2 DEF Resuming
    <2>4. \A x \in Workers : worker'[x].pc \in {"starting", "working"} =>
              worker'[x].pc = worker[x].pc /\ worker'[x].run = worker[x].run
      BY <2>2
    <2> QED BY <2>3, <2>4 DEF TasksFine
  <1>23. ASSUME NEW p \in Procs, NEW r \in Runs, NEW w \in Workers, RecommitClaim(p,
    r, w) PROVE TasksFine
    <2>1. \A i \in Procs : todo'[i] \subseteq todo[i]
      BY <1>23 DEF RecommitClaim, Typed, RestOK
    <2>2. worker' = worker \/ worker' = Spawn(w, r, p, "recommitting", TRUE)
      BY <1>23 DEF RecommitClaim
    <2>3. \A x \in Workers : worker'[x] = worker[x] \/ worker'[x].pc = "recommitting"
      BY <2>2 DEF Spawn, Typed, TasksOK
    <2>4. TasksKept
      BY <2>1, <2>3 DEF TasksKept, SettlesAs
    <2> QED BY <2>4, KeptFine
  <1>24. ASSUME NEW p \in Procs, Crash(p) PROVE TasksFine
    <2>1. TasksKept
      BY <1>24 DEF Crash, RestOK, Typed, TasksOK, Task, TasksKept, SettlesAs
    <2> QED BY <2>1, KeptFine
  <1>25. ASSUME NEW w \in Workers, Recycle(w) PROVE TasksFine
    <2>1. TasksKept
      BY <1>25 DEF Recycle, FreeTask, Typed, TasksOK, Task, TasksKept, SettlesAs, sweeps
    <2> QED BY <2>1, KeptFine
  <1>26. ASSUME NEW w \in Workers, ModelDispatch(w) \/ SteerCommitted(w) \/
    ToolIntent(w) \/ ToolResult(w)
       PROVE  UNCHANGED <<worker, todo>>
    BY <1>26 DEF ModelDispatch, sweeps, SteerCommitted, ToolIntent, ToolResult
  <1>27. ASSUME NEW p \in Procs, NEW r \in Runs, NEW c \in Chats, Accept(p, r, c)
       PROVE  UNCHANGED <<worker, todo>>
    BY <1>27 DEF Accept, sweeps
  <1>28. ASSUME NEW r \in Runs, LaunchRefused(r) \/ PrepareFails(r) \/ WaitRun(r) \/
    LeaseExpires(r)
       PROVE  UNCHANGED <<worker, todo>>
    BY <1>28 DEF LaunchRefused, sweeps, PrepareFails, WaitRun, LeaseExpires
  <1>29. ASSUME NEW r \in Runs, NEW w \in Workers, StopAcknowledged(r, w) \/
    StopTimesOut(r, w)
       PROVE  UNCHANGED <<worker, todo>>
    BY <1>29 DEF StopAcknowledged, sweeps, StopTimesOut
  <1>30. ASSUME NEW p \in Procs, NEW r \in Runs, RecoverUnprepared(p, r) \/
    RecoverPause(p, r) \/ SettleStoppedEffect(p, r) \/ ClaimEffect(p, r)
       PROVE  UNCHANGED <<worker, todo>>
    BY <1>30 DEF RecoverUnprepared, sweeps, RecoverPause, SettleStoppedEffect,
      ClaimEffect
  <1>31. ASSUME NEW p \in Procs, RecoverEffect(p) \/ ReleaseRun(p) \/ GiveUpEffect(p)
    \/ DeferEffect(p)
       PROVE  UNCHANGED <<worker, todo>>
    BY <1>31 DEF RecoverEffect, sweeps, ReleaseRun, GiveUpEffect, DeferEffect
  <1>32. ASSUME UNCHANGED <<worker, todo>> PROVE TasksFine
    BY <1>32 DEF TasksFine, Resuming
  <1>33. QED
    BY <1>1, <1>2, <1>3, <1>4, <1>5, <1>6, <1>7, <1>8, <1>9, <1>10, <1>11, <1>12,
      <1>13, <1>14, <1>15, <1>16, <1>17, <1>18, <1>19, <1>20, <1>21, <1>22, <1>23,
      <1>24, <1>25, <1>26, <1>27, <1>28, <1>29, <1>30, <1>31, <1>32 DEF Next,
      WorkerStep, WorkerActs, WorkerEnds, WorkerCommits, RecommitEnds, RequestStep,
      SweepStep, SweepEnds

\* Only the recording of a model call adds one.
LEMMA AsksStep ==
    ASSUME Typed, Next
    PROVE  dispatched' = dispatched \/ \E m \in Workers : ModelDispatch(m)
  <1>1. ASSUME NEW w \in Workers, ModelDispatch(w) PROVE dispatched' = dispatched \/
    \E m \in Workers : ModelDispatch(m)
    BY <1>1
  <1>2. ASSUME NEW w \in Workers, InitialClaim(w) \/ JournalClaim(w) \/
    WorkerStarted(w) \/ SteerCommitted(w) \/ ToolIntent(w) \/ ToolResult(w) \/
    ToolUnknown(w) \/ Pause(w) \/ SaveSnapshot(w) \/ WorkerFails(w) \/ CompleteLost(w)
    \/ Fenced(w) \/ WrapUp(w) \/ HeartbeatFails(w) \/ HandoffInterrupted(w) \/
    Close(w) \/ RecommitFails(w) \/ Recycle(w)
       PROVE  UNCHANGED <<dispatched>>
    BY <1>2 DEF InitialClaim, ghosts, JournalClaim, WorkerStarted, SteerCommitted,
      ToolIntent, ToolResult, ToolUnknown, Pause, SaveSnapshot, WorkerFails,
      CompleteLost, Fenced, WrapUp, HeartbeatFails, HandoffInterrupted, Close,
      RecommitFails, Recycle
  <1>3. ASSUME NEW w \in Workers, NEW next \in Runs \cup {None}, Complete(w, next) \/
    Recommit(w, next)
       PROVE  UNCHANGED <<dispatched>>
    BY <1>3 DEF Complete, ghosts, Recommit
  <1>4. ASSUME NEW w \in Workers, NEW x \in Workers, Schedule(w, x)
       PROVE  UNCHANGED <<dispatched>>
    BY <1>4 DEF Schedule, ghosts
  <1>5. ASSUME NEW p \in Procs, NEW r \in Runs, NEW c \in Chats, Accept(p, r, c)
       PROVE  UNCHANGED <<dispatched>>
    BY <1>5 DEF Accept, ghosts
  <1>6. ASSUME NEW r \in Runs, NEW w \in Workers, NEW b \in BOOLEAN, Launch(r, w, b)
       PROVE  UNCHANGED <<dispatched>>
    BY <1>6 DEF Launch, ghosts
  <1>7. ASSUME NEW r \in Runs, LaunchRefused(r) \/ PrepareFails(r) \/ WaitRun(r) \/
    LeaseExpires(r)
       PROVE  UNCHANGED <<dispatched>>
    BY <1>7 DEF LaunchRefused, ghosts, PrepareFails, WaitRun, LeaseExpires
  <1>8. ASSUME NEW p \in Procs, NEW r \in Runs, Cancel(p, r) \/ RecoverUnprepared(p,
    r) \/ RecoverPause(p, r) \/ SettleStoppedEffect(p, r) \/ ClaimEffect(p, r)
       PROVE  UNCHANGED <<dispatched>>
    BY <1>8 DEF Cancel, ghosts, RecoverUnprepared, RecoverPause, SettleStoppedEffect,
      ClaimEffect
  <1>9. ASSUME NEW p \in Procs, NEW r \in Runs, NEW b \in BOOLEAN, Reap(p, r, b)
       PROVE  UNCHANGED <<dispatched>>
    BY <1>9 DEF Reap, ghosts
  <1>10. ASSUME NEW r \in Runs, NEW w \in Workers, StopAcknowledged(r, w) \/
    StopTimesOut(r, w)
       PROVE  UNCHANGED <<dispatched>>
    BY <1>10 DEF StopAcknowledged, ghosts, StopTimesOut
  <1>11. ASSUME NEW p \in Procs, NEW r \in Runs, NEW a \in Actions, RecoverDecide(p,
    r, a)
       PROVE  UNCHANGED <<dispatched>>
    BY <1>11 DEF RecoverDecide, ghosts
  <1>12. ASSUME NEW p \in Procs, NEW r \in Runs, NEW w \in Workers, Resume(p, r, w) \/
    RecommitClaim(p, r, w)
       PROVE  UNCHANGED <<dispatched>>
    BY <1>12 DEF Resume, ghosts, RecommitClaim
  <1>13. ASSUME NEW p \in Procs, RecoverEffect(p) \/ ReleaseRun(p) \/ GiveUpEffect(p)
    \/ DeferEffect(p) \/ Crash(p)
       PROVE  UNCHANGED <<dispatched>>
    BY <1>13 DEF RecoverEffect, ghosts, ReleaseRun, GiveUpEffect, DeferEffect, Crash
  <1>14. ASSUME UNCHANGED <<dispatched>> PROVE dispatched' = dispatched \/ \E m \in Workers : ModelDispatch(m)
    BY <1>14 DEF ModelDispatch
  <1>15. QED
    BY <1>1, <1>2, <1>3, <1>4, <1>5, <1>6, <1>7, <1>8, <1>9, <1>10, <1>11, <1>12,
      <1>13, <1>14 DEF Next, WorkerStep, WorkerActs, WorkerEnds, WorkerCommits,
      RecommitEnds, RequestStep, SweepStep, SweepEnds

\* A worker that records a model call is the only one of its run to do so.
LEMMA DispatchStep ==
    ASSUME Typed, ReplayInv, NEW w \in Workers, ModelDispatch(w)
    PROVE  ReplayInv'
  <1>0. worker[w].pc = "working" /\ Owned(w)
    BY DEF ModelDispatch, Append, Working
  <1>1. worker[w].run \in Runs
    BY <1>0, TaskOf
  <1> PICK r \in Runs : r = worker[w].run
    BY <1>1
  <1>2. /\ \A q \in Runs \ {r} : run'[q] = run[q] /\ dispatched'[q] = dispatched[q]
        /\ run'[r].status = run[r].status /\ run'[r].owner = run[r].owner
        /\ run'[r].fresh = run[r].fresh /\ run'[r].phase = "model_inflight"
        /\ dispatched'[r] = dispatched[r] \cup {w}
        /\ worker' = worker /\ todo' = todo
    BY DEF ModelDispatch, Append, sweeps, Typed, RowsOK, Row, RestOK
  <1>3. /\ run[r].status \in Live /\ run[r].owner = w /\ run[r].fresh
        /\ run[r].status \notin {"absent", "pending"} /\ dispatched[r] \subseteq {w}
    BY <1>0, ConstantsAssumption DEF Owned, Holds, ReplayInv, NotBegun, OwnerAsks, Live
  <1>4. NotBegun'
    BY <1>2, <1>3 DEF NotBegun, ReplayInv, Asked
  <1>5. AskedPast'
    BY <1>2 DEF AskedPast, ReplayInv, Asked, PreModel
  <1>6. TooLate'
    <2>1. \A q \in Runs : Resuming(q)' <=> Resuming(q)
      BY <1>2 DEF Resuming
    <2> QED BY <1>2, <1>3, <2>1 DEF TooLate, ReplayInv, Asked
  <1>7. OwnerAsks'
    <2> SUFFICES ASSUME NEW x \in Workers, Owned(x)'
                 PROVE  /\ worker'[x].pc = "starting" => dispatched'[worker'[x].run] = {}
                        /\ worker'[x].pc = "working" => dispatched'[worker'[x].run] \subseteq {x}
      BY DEF OwnerAsks, Asked
    <2>1. CASE worker[x].run = r
      <3>1. x = w
        BY <1>2, <1>3, <2>1 DEF Owned, Holds
      <3> QED BY <1>0, <1>2, <1>3, <3>1
    <2>2. CASE worker[x].run # r
      <3>1. worker[x].pc \in {"starting", "working"} => worker[x].run \in Runs
        BY TaskOf
      <3>2. worker[x].pc \in {"starting", "working"} => Owned(x)
        BY <1>2, <2>2, <3>1 DEF Owned, Holds
      <3> QED BY <1>2, <2>2, <3>1, <3>2 DEF ReplayInv, OwnerAsks, Asked
    <2> QED BY <2>1, <2>2
  <1>8. NoModelReplay'
    BY <1>2, <1>3 DEF NoModelReplay, ReplayInv
  <1> QED BY <1>4, <1>5, <1>6, <1>7, <1>8 DEF ReplayInv

\* With no run accepted no model call is recorded and nobody restarts one.
LEMMA ReplayStart == Init => ReplayInv
  BY DEF Init, ReplayInv, NotBegun, AskedPast, TooLate, OwnerAsks, NoModelReplay, Asked, AbsentRow,
     FreeTask

\* A request is re-run only from before its first recorded model call: recover()
\* classifies by the phase, claim() does not look at it again, and still no two
\* workers record a call for the same run ("automatic replay is unsafe").
THEOREM NoModelReplayAlways ==
    ASSUME TimelyClaims
    PROVE  Spec => []NoModelReplay
  <1>1. Init => Typed /\ ReplayInv
    BY InitTyped, ReplayStart
  <1>2. Typed /\ ReplayInv /\ [Next]_vars => (Typed /\ ReplayInv)'
    <2> SUFFICES ASSUME Typed, ReplayInv, [Next]_vars PROVE (Typed /\ ReplayInv)'
      OBVIOUS
    <2>1. Typed'
      BY NextTyped
    <2>2. CASE UNCHANGED vars
      BY <2>1, <2>2 DEF vars, ReplayInv, NotBegun, AskedPast, TooLate, OwnerAsks, NoModelReplay,
         Asked, Resuming, Owned, Holds
    <2>3. CASE Next
      <3>1. CASE \E m \in Workers : ModelDispatch(m)
        BY <2>1, <3>1, DispatchStep
      <3>2. CASE ~\E m \in Workers : ModelDispatch(m)
        BY <2>1, <2>3, <3>2, AsksStep, RowsFineStep, TasksFineStep, ReplayFine
      <3> QED BY <3>1, <3>2
    <2> QED BY <2>2, <2>3
  <1>3. Typed /\ ReplayInv => NoModelReplay
    BY DEF ReplayInv
  <1> QED BY <1>1, <1>2, <1>3, PTL DEF Spec

=============================================================================
