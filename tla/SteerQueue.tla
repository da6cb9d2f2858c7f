----------------------------- MODULE SteerQueue -----------------------------
(***************************************************************************)
(* The durable queue of instructions a user adds while a run is working,   *)
(* the agent that picks them up, and the hand-off of what is left over.    *)
(*                                                                         *)
(*   core/services/steer_queue.py         the queue rows                   *)
(*   core/llm/middlewares.py              SteerMiddleware, in the agent    *)
(*   orchestration/streaming.py           from the agent to the executor   *)
(*   orchestration/chat_run_executor.py   acknowledgement and hand-off     *)
(*                                                                         *)
(* One chat.  The agent of a worker is a task of its own: it runs ahead of *)
(* the executor, which learns through the event stream that an instruction *)
(* was put before the model and acknowledges it in the database.  A claim  *)
(* is known by its item and delivery attempt (each poll has a fresh owner  *)
(* id).  Of chat_runs only what the queue depends on is kept; ChatRuns     *)
(* models the rest.                                                        *)
(***************************************************************************)
EXTENDS Naturals, FiniteSets

CONSTANTS
    Items,        \* queue items; the run an item is handed to has its identity
    Requests,     \* runs that requests open
    Workers,
    None,
    Disturbances, \* the kinds of outside event and fault that may happen
    MaxAttempts   \* bound on the delivery attempts of an item

Runs  == Requests \cup Items
Modes == {"steer", "follow_up", "next_run"}
Kinds == {"fail", "cancel", "withdraw", "stall", "crash"}

ASSUME QueueAssumption ==
    /\ None \notin Runs \cup Workers
    /\ Requests \cap Items = {} /\ IsFiniteSet(Items)
    /\ Disturbances \subseteq Kinds
    /\ MaxAttempts \in Nat \ {0}

VARIABLES
    item,     \* chat_steer_queue
    run,      \* chat_runs
    task,     \* the worker tasks, each with its agent
    shown,    \* items that were put into the context of a model
    said      \* how often an item was committed as a message, up to 2

vars == <<item, run, task, shown, said>>

Delivery == [item: Items, attempt: 1 .. MaxAttempts]

QueueTypeOK ==
    /\ item \in [Items ->
          [st: {"none", "accepted", "claimed", "applied", "cancelled", "superseded"},
           mode: Modes, target: Runs \cup {None}, seq: 0 .. Cardinality(Items),
           attempt: 0 .. MaxAttempts, fresh: BOOLEAN]]
    /\ run \in [Runs ->
          [st: {"absent", "live", "completed", "stopped"}, root: Runs \cup {None},
           owner: Workers \cup {None}, phase: {"early", "late", "saved"}]]
    /\ task \in [Workers ->
          [run: Runs \cup {None}, pc: {"free", "reason", "model", "act", "ended"},
           held: Delivery \cup {None}, injected: Delivery \cup {None}]]
    /\ shown \subseteq Items
    /\ said \in [Items -> 0 .. 2]
    /\ \A i \in Items : (item[i].st = "none") <=> (item[i].seq = 0)
    /\ \A i, j \in Items : item[i].seq = item[j].seq => i = j \/ item[i].seq = 0

FreeTask == [run |-> None, pc |-> "free", held |-> None, injected |-> None]

Init ==
    /\ item = [i \in Items |-> [st |-> "none", mode |-> "steer", target |-> None,
                                seq |-> 0, attempt |-> 0, fresh |-> FALSE]]
    /\ run = [r \in Runs |-> [st |-> "absent", root |-> None, owner |-> None,
                              phase |-> "early"]]
    /\ task = [w \in Workers |-> FreeTask]
    /\ shown = {}
    /\ said = [i \in Items |-> 0]

-----------------------------------------------------------------------------
Live(r)  == run[r].st = "live"
Owned(w) == /\ task[w].pc # "free"
            /\ Live(task[w].run)
            /\ run[task[w].run].owner = w

\* Deviation: newest first.
OldestReversed(S) == CHOOSE i \in S : \A j \in S : item[j].seq <= item[i].seq

\* order_by(steer_seq).first()
Oldest(S) == CHOOSE i \in S : \A j \in S : item[i].seq <= item[j].seq

NewRun(r, root) == [run EXCEPT ![r] = [st |-> "live", root |-> root,
                                       owner |-> None, phase |-> "early"]]

-----------------------------------------------------------------------------
(* Requests of the user.                                                   *)

\* A message opens a run when the chat has no live one (accept_main_run).
Ask(r) ==
    /\ r \in Requests
    /\ run[r].st = "absent"
    /\ \A q \in Runs : ~Live(q)
    /\ run' = NewRun(r, r)
    /\ UNCHANGED <<item, task, shown, said>>

\* Deviation: the items that wait are counted instead of all there ever were.
NextSeqQueued == 1 + Cardinality({i \in Items : item[i].st = "accepted"})

\* max(steer_seq) + 1 in the chat, under the lock of the run's row.
NextSeq == 1 + Cardinality({i \in Items : item[i].st # "none"})

\* SteerQueue.accept: the run must be live; the sequence number is the next of
\* the chat; a replacing steer supersedes the ones nobody has claimed.
Accept(i, r, mode, replace) ==
    /\ item[i].st = "none"
    /\ Live(r)
    /\ LET old == IF replace /\ mode = "steer"
                  THEN {j \in Items : /\ item[j].target = r
                                       /\ item[j].mode = "steer"
                                       /\ item[j].st = "accepted"}
                   ELSE {} IN
       item' = [j \in Items |->
                  IF j = i THEN [item[i] EXCEPT !.st = "accepted", !.mode = mode,
                                                !.target = r, !.seq = NextSeq]
                  ELSE IF j \in old THEN [item[j] EXCEPT !.st = "superseded"]
                  ELSE item[j]]
    /\ UNCHANGED <<run, task, shown, said>>

\* SteerQueue.cancel: nobody has it, or its claim ran out.
Withdraw(i) ==
    /\ "withdraw" \in Disturbances
    /\ \/ item[i].st = "accepted"
       \/ item[i].st = "claimed" /\ ~item[i].fresh
    /\ item' = [item EXCEPT ![i].st = "cancelled", ![i].fresh = FALSE]
    /\ UNCHANGED <<run, task, shown, said>>

\* cancel_run
CancelRun(r) ==
    /\ "cancel" \in Disturbances
    /\ Live(r)
    /\ run' = [run EXCEPT ![r].st = "stopped", ![r].owner = None]
    /\ UNCHANGED <<item, task, shown, said>>

-----------------------------------------------------------------------------
(* The agent: SteerMiddleware.                                             *)

\* What claim_next of run r may take.
Claimable(r) ==
    {i \in Items : /\ item[i].target = r
                   /\ item[i].mode = "steer"
                   /\ \/ item[i].st = "accepted"
                      \/ item[i].st = "claimed" /\ ~item[i].fresh}

\* take_pending_steer, unless a delivery is at hand already.  The run lease is
\* not looked at: a fenced worker claims as well.
Polled(w) ==
    LET i == Oldest(Claimable(task[w].run)) IN
    IF task[w].held # None \/ Claimable(task[w].run) = {} THEN task[w].held
    ELSE [item |-> i, attempt |-> item[i].attempt + 1]

Poll(w) ==
    IF Polled(w) = task[w].held THEN UNCHANGED item
    ELSE item' = [item EXCEPT ![Polled(w).item].st = "claimed",
                              ![Polled(w).item].attempt = Polled(w).attempt,
                              ![Polled(w).item].fresh = TRUE]

\* on_reasoning: the instruction joins the context, then the model is called.
\* The state has room for one acknowledgement.
Reason(w) ==
    /\ task[w].pc = "reason"
    /\ Poll(w)
    /\ task' = [task EXCEPT ![w].pc = "model", ![w].held = None,
                            ![w].injected = IF Polled(w) = None THEN @
                                                                ELSE Polled(w)]
    /\ shown' = IF Polled(w) = None THEN shown ELSE shown \cup {Polled(w).item}
    /\ UNCHANGED <<run, said>>

\* The model answers with a tool call or with its last words.
ModelAnswers(w, next) ==
    /\ task[w].pc = "model"
    /\ next \in {"act", "ended"}
    /\ task' = [task EXCEPT ![w].pc = next]
    /\ UNCHANGED <<item, run, shown, said>>

\* on_acting: a pending steer interrupts the tool.  The iteration budget may end
\* the reply after the tool.
Act(w, next) ==
    /\ task[w].pc = "act"
    /\ next \in {"reason", "ended"}
    /\ Poll(w)
    /\ task' = [task EXCEPT ![w].pc = next, ![w].held = Polled(w)]
    /\ UNCHANGED <<run, shown, said>>

-----------------------------------------------------------------------------
(* The executor.                                                           *)

Freed(w) == [task EXCEPT ![w] = FreeTask]

\* The first worker of a run, of a hand-off, or of a recovery before the model.
Start(r, w) ==
    /\ Live(r)
    /\ run[r].owner = None
    /\ run[r].phase = "early"
    /\ task[w].pc = "free"
    /\ run' = [run EXCEPT ![r].owner = w]
    /\ task' = [task EXCEPT ![w].run = r, ![w].pc = "reason"]
    /\ UNCHANGED <<item, shown, said>>

\* chunk "model_dispatch"
RecordDispatch(w) ==
    /\ Owned(w)
    /\ task[w].pc # "reason"
    /\ task[w].injected = None
    /\ run[task[w].run].phase = "early"
    /\ run' = [run EXCEPT ![task[w].run].phase = "late"]
    /\ UNCHANGED <<item, task, shown, said>>

\* Deviation: the row is acknowledged whatever became of the claim.
StillClaimedAnyway(d) == TRUE

\* The WHERE clause of mark_applied_in_session: an expired claim is good enough.
StillClaimed(d) == /\ item[d.item].st = "claimed"
                   /\ item[d.item].attempt = d.attempt

Twice(n) == IF n < 2 THEN n + 1 ELSE n

\* chunk "steer_applied": acknowledgement and user message, one transaction.
Acknowledge(w) ==
    LET d == task[w].injected IN
    /\ d # None
    /\ Owned(w)
    /\ StillClaimed(d)
    /\ item' = [item EXCEPT ![d.item].st = "applied", ![d.item].fresh = FALSE]
    /\ said' = [said EXCEPT ![d.item] = Twice(@)]
    /\ run' = [run EXCEPT ![task[w].run].phase = "late"]
    /\ task' = [task EXCEPT ![w].injected = None]
    /\ UNCHANGED shown

\* The run fails: SteerClaimLost, or an exception of its own.  The agent goes on
\* for a while.
RunFails(w) ==
    /\ Owned(w)
    /\ \/ "fail" \in Disturbances
       \/ task[w].injected # None /\ ~StillClaimed(task[w].injected)
    /\ run' = [run EXCEPT ![task[w].run].st = "stopped",
                          ![task[w].run].owner = None]
    /\ UNCHANGED <<item, task, shown, said>>

\* RunLeaseLost, or the end of the run: the worker leaves without a trace.
Fenced(w) ==
    /\ task[w].pc # "free"
    /\ ~Owned(w)
    /\ task' = Freed(w)
    /\ UNCHANGED <<item, run, shown, said>>

\* save_snapshot(model_completed)
Save(w) ==
    /\ Owned(w)
    /\ task[w].pc = "ended"
    /\ task[w].injected = None
    /\ run[task[w].run].phase # "saved"
    /\ run' = [run EXCEPT ![task[w].run].phase = "saved"]
    /\ UNCHANGED <<item, task, shown, said>>

\* Deviation: only what was addressed to the completed run itself.
HandoffTargetsSelf(r) == {r}

HandoffTargets(r) == {r, run[r].root}

\* Deviation: whatever is left over in the chat.
LeftOversAny(r) == {i \in Items : item[i].st = "accepted"}

\* The candidates of consume_next_handoff_in_session.
LeftOvers(r) ==
    {i \in Items : /\ item[i].st = "accepted"
                   /\ \/ item[i].mode = "next_run"
                      \/ item[i].target \in HandoffTargets(r)}

\* complete("completed") with _commit_queued_handoff_in_session: the oldest
\* left-over is applied, becomes a message and opens its run.
Completes(r) ==
    LET done == [run EXCEPT ![r].st = "completed", ![r].owner = None]
        i == Oldest(LeftOvers(r)) IN
    IF LeftOvers(r) = {} THEN run' = done /\ UNCHANGED <<item, said>>
    ELSE /\ run' = [done EXCEPT ![i] = [st |-> "live", root |-> run[r].root,
                                        owner |-> None, phase |-> "early"]]
         /\ item' = [item EXCEPT ![i].st = "applied"]
         /\ said' = [said EXCEPT ![i] = Twice(@)]

Complete(w) ==
    /\ Owned(w)
    /\ run[task[w].run].phase = "saved"
    /\ Completes(task[w].run)
    /\ task' = Freed(w)
    /\ UNCHANGED shown

\* _commit_recovered_chat_snapshot
Recommit(r) ==
    /\ Live(r)
    /\ run[r].owner = None
    /\ run[r].phase = "saved"
    /\ Completes(r)
    /\ UNCHANGED <<task, shown>>

\* recover(): no safe point.
Park(r) ==
    /\ Live(r)
    /\ run[r].owner = None
    /\ run[r].phase = "late"
    /\ run' = [run EXCEPT ![r].st = "stopped"]
    /\ UNCHANGED <<item, task, shown, said>>

-----------------------------------------------------------------------------
(* The environment.                                                        *)

\* The lease of the run's worker ends.
RunLeaseEnds(r) ==
    /\ Live(r)
    /\ run[r].owner # None
    /\ "stall" \in Disturbances \/ task[run[r].owner].run # r
    /\ run' = [run EXCEPT ![r].owner = None]
    /\ UNCHANGED <<item, task, shown, said>>

\* A claim is not renewed.
ClaimEnds(i) ==
    /\ item[i].st = "claimed"
    /\ item[i].fresh
    /\ item[i].attempt < MaxAttempts
    /\ item' = [item EXCEPT ![i].fresh = FALSE]
    /\ UNCHANGED <<run, task, shown, said>>

Crash(w) ==
    /\ "crash" \in Disturbances
    /\ task[w].pc # "free"
    /\ task' = Freed(w)
    /\ UNCHANGED <<item, run, shown, said>>

-----------------------------------------------------------------------------
AgentStep(w) ==
    \/ Reason(w)
    \/ \E next \in {"act", "ended"} : ModelAnswers(w, next)
    \/ \E next \in {"reason", "ended"} : Act(w, next)

ExecutorStep(w) ==
    \/ RecordDispatch(w) \/ Acknowledge(w) \/ RunFails(w) \/ Fenced(w)
    \/ Save(w) \/ Complete(w)

RecoveryStep(r) ==
    \/ \E w \in Workers : Start(r, w)
    \/ Recommit(r) \/ Park(r)

Next ==
    \/ \E w \in Workers : AgentStep(w) \/ ExecutorStep(w) \/ Crash(w)
    \/ \E r \in Runs : Ask(r) \/ CancelRun(r) \/ RecoveryStep(r) \/ RunLeaseEnds(r)
    \/ \E i \in Items : Withdraw(i) \/ ClaimEnds(i)
    \/ \E i \in Items, r \in Runs, m \in Modes, b \in BOOLEAN : Accept(i, r, m, b)

Spec == Init /\ [][Next]_vars

(* The tasks of a live process run on and recovery is periodic.  An agent  *)
(* does not call tools for ever: its iteration budget ends the reply.      *)
Fairness ==
    /\ \A w \in Workers :
          /\ WF_vars(AgentStep(w))
          /\ SF_vars(ModelAnswers(w, "ended"))
          /\ WF_vars(Acknowledge(w)) /\ WF_vars(RunFails(w)) /\ WF_vars(Fenced(w))
          /\ WF_vars(Save(w)) /\ WF_vars(Complete(w))
    /\ \A r \in Runs : WF_vars(RecoveryStep(r))

FairSpec == Spec /\ Fairness

-----------------------------------------------------------------------------
(* Properties.                                                             *)

\* An instruction is a message of the chat exactly if it was applied, and then
\* once, whichever of acknowledgement, redelivery to another worker, withdrawal
\* and hand-off wins (mark_applied_in_session, consume_next_handoff_in_session).
SaidOnceIfApplied ==
    \A i \in Items : said[i] = IF item[i].st = "applied" THEN 1 ELSE 0

\* What was meant for one conversation chain does not surface in another: a left
\* over steer or follow-up of a run that failed is not picked up by the next,
\* unrelated run of the chat.
StaysInChain ==
    \A i \in Items :
        (run[i].st # "absent" /\ item[i].mode # "next_run")
            => run[i].root = run[item[i].target].root

\* Instructions of one kind for one run take effect in the order in which they
\* were accepted: none is applied while an earlier one is still waiting.
InOrder ==
    \A i, j \in Items :
        /\ item[i].target = item[j].target /\ item[i].mode = item[j].mode
        /\ item[i].seq < item[j].seq
        /\ item[j].st = "applied"
        => item[i].st # "accepted"

\* What waits for the first run of a chain is taken in the end, by that run or by
\* one of its successors, if the runs of the chain complete.
FirstRunQueueDrains ==
    \A i \in Items :
        (item[i].st = "accepted" /\ item[i].target \in Requests)
            ~> item[i].st # "accepted"

\* chat_run_executor.py:557-559, _commit_queued_handoff_in_session: "Such an
\* instruction can no longer enter the source ReAct loop, so completion hands it
\* to a successor instead of stranding it."  A successor that may still take it
\* is live.
NotStranded ==
    \A i \in Items :
        (item[i].st = "accepted" /\ run[item[i].target].st = "completed")
            => \E n \in Runs : Live(n) /\ i \in LeftOvers(n)

\* chat_steer_service.py:125, remove_pending_steer: "claimed/applied items cannot
\* be retracted", so the model never has read an item that the user withdrew.
ReadIsNotWithdrawn == \A i \in shown : item[i].st # "cancelled"
=============================================================================
