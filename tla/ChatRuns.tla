------------------------------ MODULE ChatRuns ------------------------------
(***************************************************************************)
(* The durable chat run: one row of chat_runs per request, the workers     *)
(* that execute it, and everything that may move the row behind their      *)
(* back.                                                                   *)
(*                                                                         *)
(*   core/services/chat_sequencer.py      admission, the writer slot       *)
(*   core/services/run_journal.py         lease, phases, terminal CAS      *)
(*   orchestration/chat_run_executor.py   workers, cancel, recovery sweep, *)
(*                                        stale reaper                     *)
(*   core/services/tool_effect_ledger.py  the part of a recovery sweep     *)
(*                                        that moves the run row           *)
(*                                                                         *)
(* A database transaction is one step.  Several server processes share the *)
(* database; inside a process the asyncio loop runs one task at a time, so *)
(* code with no await between two transactions is not interleaved with the *)
(* other tasks of its process (operator Idle), only with other processes.  *)
(* Transactions run in a thread (asyncio.to_thread: complete("completed"), *)
(* the tool gateway's journal calls) commit at any time.                   *)
(***************************************************************************)
EXTENDS Naturals, FiniteSets

CONSTANTS
    Runs,          \* run ids
    Chats,         \* chat ids
    Workers,       \* worker incarnations; each is a fresh lease owner
    Procs,         \* server processes
    None,          \* no owner, no run, no worker
    Disturbances,  \* the kinds of outside event and fault that may happen
    MaxCrashes,    \* bound on process crashes
    TimelyClaims   \* see Settling below

DisturbanceKinds == {"cancel", "crash", "stall", "heartbeat", "reap", "handler",
                     "hook", "tool"}

ASSUME ConstantsAssumption ==
    /\ None \notin Runs \cup Chats \cup Workers \cup Procs
    /\ Workers \cap Procs = {}
    /\ Disturbances \subseteq DisturbanceKinds
    /\ MaxCrashes \in Nat
    /\ TimelyClaims \in BOOLEAN

Live     == {"pending", "running"}
Settled  == {"completed", "failed", "cancelled"}
\* chat_run_executor counts needs_attention as terminal, run_journal does not.
Stopped  == Settled \cup {"needs_attention"}
Status   == {"absent"} \cup Live \cup Stopped

PreModel == {"accepted", "pre_model"}
Phases   == PreModel \cup {"model_inflight", "steer_committed", "tool",
                           "model_completed", "closed"}

Effects  == {"none", "open", "settled", "unknown"}

VARIABLES
    run,        \* chat_runs: the durable rows
    worker,     \* the worker tasks of all processes
    active,     \* _active_runs of each process
    handler,    \* the request handler that accepted a run
    todo,       \* decisions of recover() a sweep has not carried out yet
    sweeping,   \* the run whose tool effect a sweep of the process holds
    acks,       \* cancel_run / reaper waiting for a local task to stop
    crashes,    \* process crashes so far
    message,    \* the assistant row: which output was written, and by whom
    dispatched, \* workers that recorded a model call of a run
    lastOwner   \* the last worker that was granted the run's lease

vars == <<run, worker, active, handler, todo, sweeping, acks, crashes,
          message, dispatched, lastOwner>>

Row == [status: Status, phase: Phases, owner: Workers \cup Procs \cup {None},
        fresh: BOOLEAN, slot: BOOLEAN, chat: Chats \cup {None},
        started: BOOLEAN, snap: BOOLEAN, effect: Effects]

PCs == {"free", "spawned", "claiming", "starting", "working", "snapped",
        "stopping", "handoff", "closing", "recommitting", "relay", "done"}

Task == [run: Runs \cup {None}, proc: Procs \cup {None}, pc: PCs,
         recovering: BOOLEAN, next: Runs \cup {None}]

Handler == [st: {"none", "preparing", "waiting"}, proc: Procs \cup {None},
            task: Workers \cup {None}]

Actions == {"resume", "resume_from_snapshot"}

Output == [kind: {"none", "final", "error", "partial"}, by: Workers \cup {None}]

TypeOK ==
    /\ run \in [Runs -> Row]
    /\ worker \in [Workers -> Task]
    /\ active \in [Procs -> [Runs -> Workers \cup {None}]]
    /\ handler \in [Runs -> Handler]
    /\ todo \in [Procs -> SUBSET (Runs \X Actions)]
    /\ sweeping \in [Procs -> Runs \cup {None}]
    /\ acks \in SUBSET (Runs \X Workers)
    /\ crashes \in 0 .. MaxCrashes
    /\ message \in [Runs -> Output]
    /\ dispatched \in [Runs -> SUBSET Workers]
    /\ lastOwner \in [Runs -> Workers \cup {None}]

AbsentRow == [status |-> "absent", phase |-> "accepted", owner |-> None,
              fresh |-> FALSE, slot |-> FALSE, chat |-> None,
              started |-> FALSE, snap |-> FALSE, effect |-> "none"]

\* Deviation: the successor is staged with accept_in_session's default slot.
PendingRowDefaultSlot(c, withSnapshot) ==
    [AbsentRow EXCEPT !.status = "pending", !.slot = ~withSnapshot, !.chat = c,
                      !.snap = withSnapshot]

\* accept_main_run and its siblings write no recovery snapshot;
\* accept_in_session of a queued hand-off does.
PendingRow(c, withSnapshot) ==
    [AbsentRow EXCEPT !.status = "pending", !.slot = TRUE, !.chat = c,
                      !.snap = withSnapshot]

FreeTask  == [run |-> None, proc |-> None, pc |-> "free",
              recovering |-> FALSE, next |-> None]
NoHandler == [st |-> "none", proc |-> None, task |-> None]

Init ==
    /\ run = [r \in Runs |-> AbsentRow]
    /\ worker = [w \in Workers |-> FreeTask]
    /\ active = [p \in Procs |-> [r \in Runs |-> None]]
    /\ handler = [r \in Runs |-> NoHandler]
    /\ todo = [p \in Procs |-> {}]
    /\ sweeping = [p \in Procs |-> None]
    /\ acks = {}
    /\ crashes = 0
    /\ message = [r \in Runs |-> [kind |-> "none", by |-> None]]
    /\ dispatched = [r \in Runs |-> {}]
    /\ lastOwner = [r \in Runs |-> None]

-----------------------------------------------------------------------------
(* Conditions shared by several operations.                                *)

\* Deviation: admission looks for a running run instead of a taken slot.
SlotFreeByStatus(c) ==
    \A r \in Runs : run[r].chat = c => run[r].status # "running"

\* uq_chat_runs_writer_slot: the slot of a chat is free.
SlotFree(c) == \A r \in Runs : run[r].chat = c => ~run[r].slot

\* The WHERE clause of RunJournal.claim, and of recover().
Claimable(r) ==
    /\ run[r].status \in Live
    /\ run[r].owner = None \/ ~run[r].fresh

\* Deviation: ownership without a look at the status.
HoldsAnyStatus(o, r) ==
    /\ run[r].owner = o
    /\ run[r].fresh

\* RunJournal._locked_owned_run does not raise.
Holds(o, r) ==
    /\ run[r].status \in Live
    /\ run[r].owner = o
    /\ run[r].fresh

Owned(w) == Holds(w, worker[w].run)

\* No task of p is between two statements with no await in between: a handler
\* from admission to launch, a worker from its first statement to its loop.
Idle(p) ==
    /\ \A r \in Runs : handler[r].st = "preparing" => handler[r].proc # p
    /\ \A w \in Workers :
          worker[w].proc = p =>
             worker[w].pc \notin {"claiming", "starting", "recommitting"}

\* Someone has decided to take over r, or has won its admission CAS, and has
\* not tried to claim its lease yet.
Settling(r) ==
    \/ \E p \in Procs, a \in Actions : <<r, a>> \in todo[p]
    \/ \E w \in Workers :
          /\ worker[w].run = r
          /\ \/ worker[w].pc = "claiming"
             \/ worker[w].pc = "spawned" /\ worker[w].recovering

\* TimelyClaims is the assumption that those decisions are acted on within a
\* lease period (90 s): no lease of the run runs out and no tool sweep reopens
\* the run in the meantime.  claim() itself does not re-check the phase.
MayLapse(r) == TimelyClaims => ~Settling(r)

\* Deviation: the acknowledgement is not limited to stopped runs.
AckedLive(row) == [row EXCEPT !.slot = FALSE]

\* Deviation: run_journal's list of terminal states, without needs_attention.
AckedSettled(row) ==
    [row EXCEPT !.slot = row.slot /\ row.status \notin Settled]

\* _acknowledge_terminal_writer
Acked(row) == [row EXCEPT !.slot = row.slot /\ row.status \notin Stopped]

Spawn(w, r, p, pc, recovering) ==
    [worker EXCEPT ![w] = [run |-> r, proc |-> p, pc |-> pc,
                           recovering |-> recovering, next |-> None]]

Goto(w, pc) == [worker EXCEPT ![w].pc = pc]

\* The done callback pops the run id, whichever task is registered under it.
Deregister(w) == [active EXCEPT ![worker[w].proc][worker[w].run] = None]

Working(w) == worker[w].pc = "working" /\ Idle(worker[w].proc)

ghosts == <<message, dispatched, lastOwner>>
sweeps == <<todo, sweeping>>

-----------------------------------------------------------------------------
(* Admission and launch (request handlers).                                *)

\* accept_main_run, accept_existing_user_run, accept_replacement_user_run: the
\* loser of the unique constraint rolls everything back and reports busy.
Accept(p, r, c) ==
    /\ Idle(p)
    /\ run[r].status = "absent"
    /\ SlotFree(c)
    /\ run' = [run EXCEPT ![r] = PendingRow(c, FALSE)]
    /\ handler' = [handler EXCEPT ![r] = [st |-> "preparing", proc |-> p,
                                          task |-> None]]
    /\ UNCHANGED <<worker, active, sweeps, acks, crashes, ghosts>>

\* start_run on an accepted row: store the recovery snapshot, spawn the worker.
\* Only the non-streaming endpoint then waits for the run (wait_run).
Launch(r, w, waits) ==
    /\ handler[r].st = "preparing"
    /\ run[r].status = "pending"
    /\ worker[w].pc = "free"
    /\ LET p == handler[r].proc IN
       /\ run' = [run EXCEPT ![r].snap = TRUE]
       /\ worker' = Spawn(w, r, p, "spawned", FALSE)
       /\ active' = [active EXCEPT ![p][r] = w]
       /\ handler' = [handler EXCEPT ![r] =
             IF waits THEN [st |-> "waiting", proc |-> p, task |-> w]
                      ELSE NoHandler]
    /\ UNCHANGED <<sweeps, acks, crashes, ghosts>>

\* start_run refuses a row that is no longer pending; abandon_pending_run then
\* finds nothing to release.
LaunchRefused(r) ==
    /\ handler[r].st = "preparing"
    /\ run[r].status # "pending"
    /\ handler' = [handler EXCEPT ![r] = NoHandler]
    /\ UNCHANGED <<run, worker, active, sweeps, acks, crashes, ghosts>>

\* abandon_pending_run and fail_run: the verdict and the slot, nothing else.
Abandoned(row) == [row EXCEPT !.status = "failed", !.slot = FALSE]

\* An exception between admission and launch.
PrepareFails(r) ==
    /\ "handler" \in Disturbances
    /\ handler[r].st = "preparing"
    /\ run' = IF run[r].status = "pending"
              THEN [run EXCEPT ![r] = Abandoned(run[r])]
              ELSE run
    /\ handler' = [handler EXCEPT ![r] = NoHandler]
    /\ UNCHANGED <<worker, active, sweeps, acks, crashes, ghosts>>

\* wait_run returns; if the local task is gone and the row still live the
\* endpoint fails the run (fail_run), whoever owns it by now.
WaitRun(r) ==
    /\ handler[r].st = "waiting"
    /\ worker[handler[r].task].pc = "done"
    /\ Idle(handler[r].proc)
    /\ run' = IF run[r].status \in Live
              THEN [run EXCEPT ![r] = Abandoned(run[r])]
              ELSE run
    /\ handler' = [handler EXCEPT ![r] = NoHandler]
    /\ UNCHANGED <<worker, active, sweeps, acks, crashes, ghosts>>

-----------------------------------------------------------------------------
(* _run_workflow, from its first statement to its loop.                    *)

Finish(w) ==
    /\ worker' = Goto(w, "done")
    /\ active' = Deregister(w)

\* _claim_run_execution's UPDATE
Started(row) == [row EXCEPT !.status = "running", !.started = TRUE]

\* RunJournal.claim for owner o
Granted(row, o) == [row EXCEPT !.status = "running", !.owner = o,
                               !.fresh = TRUE, !.started = TRUE]

\* _claim_run_execution: the pending-to-running CAS of an initial worker.  The
\* loser runs _acknowledge_never_started_terminal_writer and returns.
InitialClaim(w) ==
    /\ worker[w].pc = "spawned"
    /\ ~worker[w].recovering
    /\ Idle(worker[w].proc)
    /\ LET r == worker[w].run IN
       \/ /\ run[r].status = "pending"
          /\ run' = [run EXCEPT ![r] = Started(run[r])]
          /\ worker' = Goto(w, "claiming")
          /\ UNCHANGED active
       \/ /\ run[r].status # "pending"
          /\ run' = IF run[r].started THEN run
                    ELSE [run EXCEPT ![r] = Acked(run[r])]
          /\ Finish(w)
    /\ UNCHANGED <<handler, sweeps, acks, crashes, ghosts>>

\* Is w about to execute RunJournal.claim?
Claims(w) ==
    \/ worker[w].pc = "claiming"
    \/ worker[w].pc = "spawned" /\ worker[w].recovering /\ Idle(worker[w].proc)

JournalClaim(w) ==
    /\ Claims(w)
    /\ LET r == worker[w].run IN
       \/ /\ Claimable(r)
          /\ run' = [run EXCEPT ![r] = Granted(run[r], w)]
          /\ lastOwner' = [lastOwner EXCEPT ![r] = w]
          /\ worker' = Goto(w, "starting")
          /\ UNCHANGED active
       \/ /\ ~Claimable(r)
          /\ run' = IF worker[w].recovering THEN run
                    ELSE [run EXCEPT ![r] = Acked(run[r])]
          /\ Finish(w)
          /\ UNCHANGED lastOwner
    /\ UNCHANGED <<handler, sweeps, acks, crashes, message, dispatched>>

\* append_operation(worker_started); on RunLeaseLost the worker returns from
\* outside the try block, so without the acknowledgement of its finally clause.
WorkerStarted(w) ==
    /\ worker[w].pc = "starting"
    /\ LET r == worker[w].run IN
       \/ /\ Owned(w)
          /\ run' = [run EXCEPT ![r].phase = "pre_model"]
          /\ worker' = Goto(w, "working")
          /\ UNCHANGED active
       \/ /\ ~Owned(w)
          /\ Finish(w)
          /\ UNCHANGED run
    /\ UNCHANGED <<handler, sweeps, acks, crashes, ghosts>>

-----------------------------------------------------------------------------
(* The worker's loop.  Every append and snapshot is fenced by the lease.   *)

Append(w, phase) ==
    /\ Working(w)
    /\ Owned(w)
    /\ run' = [run EXCEPT ![worker[w].run].phase = phase]

\* chunk "model_dispatch": the call is recorded when its event comes through the
\* stream's queue, so possibly behind the agent, which may be in a tool by then.
ModelDispatch(w) ==
    /\ Append(w, "model_inflight")
    /\ dispatched' = [dispatched EXCEPT ![worker[w].run] = @ \cup {w}]
    /\ UNCHANGED <<worker, active, handler, sweeps, acks, crashes, message,
                   lastOwner>>

\* chunk "steer_applied", before or between model calls: queue acknowledgement,
\* messages and snapshot commit with the operation.
SteerCommitted(w) ==
    /\ Append(w, "steer_committed")
    /\ UNCHANGED <<worker, active, handler, sweeps, acks, crashes, ghosts>>

InTool(row, effect) == [row EXCEPT !.phase = "tool", !.effect = effect]

\* ToolEffectJournal.begin_intent, in a thread
ToolIntent(w) ==
    /\ "tool" \in Disturbances
    /\ worker[w].pc = "working"
    /\ Owned(w)
    /\ run[worker[w].run].effect \in {"none", "settled"}
    /\ run' = [run EXCEPT ![worker[w].run] = InTool(run[worker[w].run], "open")]
    /\ UNCHANGED <<worker, active, handler, sweeps, acks, crashes, ghosts>>

\* ToolEffectJournal.commit_result, in a thread
ToolResult(w) ==
    /\ worker[w].pc = "working"
    /\ Owned(w)
    /\ run[worker[w].run].effect = "open"
    /\ run' = [run EXCEPT ![worker[w].run] =
                          InTool(run[worker[w].run], "settled")]
    /\ UNCHANGED <<worker, active, handler, sweeps, acks, crashes, ghosts>>

\* _mark_unknown_locked stops the run but leaves its writer slot alone.
Unknown(row) == [row EXCEPT !.status = "needs_attention", !.phase = "closed",
                            !.owner = None, !.fresh = FALSE,
                            !.effect = "unknown"]

\* mark_unknown inside a tool call; the pause that follows finds the row
\* already stopped and the worker reaches its finally clause.
ToolUnknown(w) ==
    /\ Working(w)
    /\ Owned(w)
    /\ run[worker[w].run].effect = "open"
    /\ run' = [run EXCEPT ![worker[w].run] = Unknown(run[worker[w].run])]
    /\ worker' = Goto(w, "closing")
    /\ UNCHANGED <<active, handler, sweeps, acks, crashes, ghosts>>

\* RunJournal.needs_attention and the classification branches of recover()
Paused(row) == [row EXCEPT !.status = "needs_attention", !.phase = "closed",
                           !.owner = None, !.fresh = FALSE, !.slot = FALSE]

\* HookPaused, or a tool call that raised without an outcome (its intent stays
\* open): _pause_for_hook / _pause_for_tool_outcome.
Pause(w) ==
    /\ Working(w)
    /\ "hook" \in Disturbances \/ run[worker[w].run].effect = "open"
    /\ run' = IF Owned(w)
              THEN [run EXCEPT ![worker[w].run] = Paused(run[worker[w].run])]
              ELSE run
    /\ worker' = Goto(w, "closing")
    /\ UNCHANGED <<active, handler, sweeps, acks, crashes, ghosts>>

\* save_snapshot(model_completed)
SaveSnapshot(w) ==
    /\ Append(w, "model_completed")
    /\ run[worker[w].run].effect # "open"
    /\ worker' = Goto(w, "snapped")
    /\ UNCHANGED <<active, handler, sweeps, acks, crashes, ghosts>>

\* RunJournal.complete: the terminal state, the lease and the slot change
\* together, before commit_effect runs.
Completed(row, status) ==
    [row EXCEPT !.status = status, !.phase = "closed", !.owner = None,
                !.fresh = FALSE, !.slot = FALSE]

\* complete("completed") with _commit_output: the final message and, when the
\* steer queue has an item, the successor run, in one transaction.  next = None
\* means an empty queue.
CommitOutput(w, next) ==
    LET r == worker[w].run
        after == [run EXCEPT ![r] = Completed(run[r], "completed")] IN
    /\ Owned(w)
    /\ \/ next = None /\ run' = after
       \/ /\ next \in Runs
          /\ run[next].status = "absent"
          /\ \A q \in Runs : after[q].chat = run[r].chat => ~after[q].slot
          /\ run' = [after EXCEPT ![next] = PendingRow(run[r].chat, TRUE)]
    /\ message' = [message EXCEPT ![r] = [kind |-> "final", by |-> w]]

Complete(w, next) ==
    /\ worker[w].pc = "snapped"
    /\ CommitOutput(w, next)
    /\ worker' = [worker EXCEPT ![w].pc = IF next = None THEN "closing"
                                                         ELSE "handoff",
                                ![w].next = next]
    /\ UNCHANGED <<active, handler, sweeps, acks, crashes, dispatched,
                   lastOwner>>

\* complete() returned False: the worker returns without writing anything.
CompleteLost(w) ==
    /\ worker[w].pc = "snapped"
    /\ Idle(worker[w].proc)
    /\ ~Owned(w)
    /\ worker' = Goto(w, "closing")
    /\ UNCHANGED <<run, active, handler, sweeps, acks, crashes, ghosts>>

\* The generic exception handler: complete("failed") with _commit_failed_output.
WorkerFails(w) ==
    /\ worker[w].pc \in {"working", "snapped"}
    /\ Idle(worker[w].proc)
    /\ LET r == worker[w].run IN
       IF Owned(w)
       THEN /\ run' = [run EXCEPT ![r] = Completed(run[r], "failed")]
            /\ message' = [message EXCEPT ![r] = [kind |-> "error", by |-> w]]
       ELSE UNCHANGED <<run, message>>
    /\ worker' = Goto(w, "closing")
    /\ UNCHANGED <<active, handler, sweeps, acks, crashes, dispatched,
                   lastOwner>>

\* The worker learns that it lost the run: RunLeaseLost from an append, a
\* refused renewal, is_run_cancelled, or task.cancel() after an outside verdict.
Fenced(w) ==
    /\ worker[w].pc \in {"working", "snapped"}
    /\ Idle(worker[w].proc)
    /\ ~Owned(w)
    /\ worker' = Goto(w, "stopping")
    /\ UNCHANGED <<run, active, handler, sweeps, acks, crashes, ghosts>>

\* Deviation: whoever is fenced persists its partial answer.
WrapUpAlways(w) ==
    /\ worker[w].pc = "stopping"
    /\ Idle(worker[w].proc)
    /\ message' = [message EXCEPT ![worker[w].run] =
                       [kind |-> "partial", by |-> w]]
    /\ worker' = Goto(w, "closing")
    /\ UNCHANGED <<run, active, handler, sweeps, acks, crashes, dispatched,
                   lastOwner>>

\* _persist_cancelled_partial, only if _cancelled_by_user: written without any
\* ownership check, the journal being closed to the worker by then.
WrapUp(w) ==
    /\ worker[w].pc = "stopping"
    /\ Idle(worker[w].proc)
    /\ LET r == worker[w].run IN
       message' = IF run[r].status = "cancelled"
                  THEN [message EXCEPT ![r] = [kind |-> "partial", by |-> w]]
                  ELSE message
    /\ worker' = Goto(w, "closing")
    /\ UNCHANGED <<run, active, handler, sweeps, acks, crashes, dispatched,
                   lastOwner>>

\* _lease_heartbeat: a driver error counts as a lost lease; the worker stops
\* although the row still names it.
HeartbeatFails(w) ==
    /\ "heartbeat" \in Disturbances
    /\ worker[w].pc \in {"working", "snapped"}
    /\ Idle(worker[w].proc)
    /\ Owned(w)
    /\ worker' = Goto(w, "closing")
    /\ UNCHANGED <<run, active, handler, sweeps, acks, crashes, ghosts>>

\* The thread has committed the completion, but a renewal finds the lease ended
\* (or fails) before lease_task.cancel(): the worker is cancelled and the
\* successor, which has its row and the slot, is not scheduled by anybody.
HandoffInterrupted(w) ==
    /\ "heartbeat" \in Disturbances
    /\ worker[w].pc = "handoff"
    /\ Idle(worker[w].proc)
    /\ worker' = [worker EXCEPT ![w].pc = "closing", ![w].next = None]
    /\ UNCHANGED <<run, active, handler, sweeps, acks, crashes, ghosts>>

\* The finally clause.
Close(w) ==
    /\ worker[w].pc = "closing"
    /\ Idle(worker[w].proc)
    /\ LET r == worker[w].run IN run' = [run EXCEPT ![r] = Acked(run[r])]
    /\ Finish(w)
    /\ UNCHANGED <<handler, sweeps, acks, crashes, ghosts>>

\* _schedule_queued_handoff: spawn the initial worker x of the successor run.
Schedule(w, x) ==
    /\ worker[w].pc \in {"handoff", "relay"}
    /\ worker[x].pc = "free"
    /\ LET p == worker[w].proc
           n == worker[w].next IN
       /\ Idle(p)
       /\ worker' = [Spawn(x, n, p, "spawned", FALSE) EXCEPT
                        ![w].pc = IF worker[w].pc = "handoff" THEN "closing"
                                                              ELSE "done",
                        ![w].next = None]
       /\ active' = [active EXCEPT ![p][n] = x]
    /\ UNCHANGED <<run, handler, sweeps, acks, crashes, ghosts>>

-----------------------------------------------------------------------------
(* Verdicts from outside: the user's cancel and the stale reaper.          *)

\* Deviation: the caller waits for a task it did not find.
StopLocalTaskUnchecked(p, r) ==
    /\ acks' = acks \cup {<<r, active[p][r]>>}
    /\ UNCHANGED <<worker, active>>

\* task.cancel() on the registered task of r in process p, if there is one: a
\* task that has not run its first statement never will; any other one notices
\* through Fenced.  The caller waits a while for the task to be done.
StopLocalTask(p, r) ==
    LET w == active[p][r] IN
    IF w = None THEN UNCHANGED <<worker, active, acks>>
    ELSE /\ acks' = acks \cup {<<r, w>>}
         /\ IF worker[w].pc = "spawned" THEN Finish(w)
                                        ELSE UNCHANGED <<worker, active>>

\* RunJournal.cancel keeps the writer slot.
Cancelled(row) == [row EXCEPT !.status = "cancelled", !.phase = "closed",
                              !.owner = None, !.fresh = FALSE]

\* cancel_run in process p
Cancel(p, r) ==
    /\ "cancel" \in Disturbances
    /\ Idle(p)
    /\ run[r].status \in Live
    /\ run' = [run EXCEPT ![r] = Cancelled(run[r])]
    /\ StopLocalTask(p, r)
    /\ UNCHANGED <<handler, sweeps, crashes, ghosts>>

\* reap_stale_runs: over the hard age (any lease), or over-age and quiet with
\* no valid lease and no registered task here.  _request_run_stop leaves lease,
\* phase and slot as they are.
Reap(p, r, hard) ==
    /\ "reap" \in Disturbances
    /\ Idle(p)
    /\ run[r].status = "running"
    /\ hard \/ (~run[r].fresh /\ active[p][r] = None)
    /\ run' = [run EXCEPT ![r].status = "failed"]
    /\ StopLocalTask(p, r)
    /\ UNCHANGED <<handler, sweeps, crashes, ghosts>>

\* The task stopped in time: _acknowledge_terminal_writer.
StopAcknowledged(r, w) ==
    /\ <<r, w>> \in acks
    /\ worker[w].pc = "done"
    /\ Idle(worker[w].proc)
    /\ run' = [run EXCEPT ![r] = Acked(run[r])]
    /\ acks' = acks \ {<<r, w>>}
    /\ UNCHANGED <<worker, active, handler, sweeps, crashes, ghosts>>

\* It did not: the caller gives up waiting.
StopTimesOut(r, w) ==
    /\ <<r, w>> \in acks
    /\ worker[w].pc # "done"
    /\ Idle(worker[w].proc)
    /\ acks' = acks \ {<<r, w>>}
    /\ UNCHANGED <<run, worker, active, handler, sweeps, crashes, ghosts>>

-----------------------------------------------------------------------------
(* recover_orphan_runs, every 15 s in every process: RunJournal.recover    *)
(* classifies the claimable rows, then each decision is carried out.       *)

\* Deviation: only rows a worker had started.
RecoverUnpreparedStarted(p, r) ==
    /\ Idle(p)
    /\ Claimable(r)
    /\ run[r].started
    /\ ~run[r].snap
    /\ run' = [run EXCEPT ![r] = Completed(run[r], "failed")]
    /\ UNCHANGED <<worker, active, handler, sweeps, acks, crashes, ghosts>>

\* An accepted row without a snapshot: "server restarted before the accepted
\* run was prepared".
RecoverUnprepared(p, r) ==
    /\ Idle(p)
    /\ Claimable(r)
    /\ ~run[r].snap
    /\ run[r].slot
    /\ run[r].phase = "accepted"
    /\ run' = [run EXCEPT ![r] = Completed(run[r], "failed")]
    /\ UNCHANGED <<worker, active, handler, sweeps, acks, crashes, ghosts>>

\* No safe point to restart from.
RecoverPause(p, r) ==
    /\ Idle(p)
    /\ Claimable(r)
    /\ run[r].snap
    /\ run[r].phase \notin PreModel \cup {"model_completed"}
    /\ run' = [run EXCEPT ![r] = Paused(run[r])]
    /\ UNCHANGED <<worker, active, handler, sweeps, acks, crashes, ghosts>>

\* Deviation: a model call in flight is taken for a safe point.
SafePointInFlight(phase) ==
    IF phase \in PreModel \cup {"model_inflight"} THEN {"resume"}
    ELSE IF phase = "model_completed" THEN {"resume_from_snapshot"} ELSE {}

\* The phases from which recover() re-runs the request, and the one from which
\* it commits the saved output.
SafePoint(phase) ==
    IF phase \in PreModel THEN {"resume"}
    ELSE IF phase = "model_completed" THEN {"resume_from_snapshot"} ELSE {}

RecoverDecide(p, r, action) ==
    /\ Idle(p)
    /\ Claimable(r)
    /\ run[r].snap
    /\ action \in SafePoint(run[r].phase)
    /\ <<r, action>> \notin todo[p]
    /\ todo' = [todo EXCEPT ![p] = @ \cup {<<r, action>>}]
    /\ UNCHANGED <<run, worker, active, handler, sweeping, acks, crashes,
                   ghosts>>

\* _register_recovered_chat
Resume(p, r, w) ==
    /\ Idle(p)
    /\ <<r, "resume">> \in todo[p]
    /\ worker[w].pc = "free"
    /\ todo' = [todo EXCEPT ![p] = @ \ {<<r, "resume">>}]
    /\ worker' = Spawn(w, r, p, "spawned", TRUE)
    /\ active' = [active EXCEPT ![p][r] = w]
    /\ UNCHANGED <<run, handler, sweeping, acks, crashes, ghosts>>

\* _commit_recovered_chat_snapshot: claim the run under a new owner w ...
RecommitClaim(p, r, w) ==
    /\ Idle(p)
    /\ <<r, "resume_from_snapshot">> \in todo[p]
    /\ worker[w].pc = "free"
    /\ todo' = [todo EXCEPT ![p] = @ \ {<<r, "resume_from_snapshot">>}]
    /\ IF Claimable(r)
       THEN /\ run' = [run EXCEPT ![r] = Granted(run[r], w)]
            /\ lastOwner' = [lastOwner EXCEPT ![r] = w]
            /\ worker' = Spawn(w, r, p, "recommitting", TRUE)
       ELSE UNCHANGED <<run, lastOwner, worker>>
    /\ UNCHANGED <<active, handler, sweeping, acks, crashes, message,
                   dispatched>>

\* ... commit the saved output and the hand-off ...
Recommit(w, next) ==
    /\ worker[w].pc = "recommitting"
    /\ CommitOutput(w, next)
    /\ worker' = [worker EXCEPT ![w].pc = IF next = None THEN "done"
                                                         ELSE "relay",
                                ![w].next = next]
    /\ UNCHANGED <<active, handler, sweeps, acks, crashes, dispatched,
                   lastOwner>>

\* ... or lose the row, or pause the run if the commit raised.
RecommitFails(w) ==
    /\ worker[w].pc = "recommitting"
    /\ LET r == worker[w].run IN
       run' = IF Owned(w) THEN [run EXCEPT ![r] = Paused(run[r])] ELSE run
    /\ worker' = Goto(w, "done")
    /\ UNCHANGED <<active, handler, sweeps, acks, crashes, ghosts>>

-----------------------------------------------------------------------------
(* recover_incomplete_tool_effects, the first half of the same sweep, as   *)
(* far as the run row is concerned; the process stands for the unique      *)
(* recovery_owner of its current claim.                                    *)

\* settle_terminal_run_intent
SettleStoppedEffect(p, r) ==
    /\ Idle(p)
    /\ sweeping[p] = None
    /\ run[r].effect = "open"
    /\ run[r].status \in Settled
    /\ run' = [run EXCEPT ![r].effect = "unknown"]
    /\ UNCHANGED <<worker, active, handler, sweeps, acks, crashes, ghosts>>

\* The lease of a run for the recovery owner p; a run that needed attention is
\* running again.
Reopened(row, p) == [row EXCEPT !.status = "running", !.owner = p,
                                !.fresh = TRUE, !.phase = "tool"]

\* Deviation: any run with an open intent and a free lease is taken.
ClaimEffectAny(p, r) ==
    /\ Idle(p)
    /\ sweeping[p] = None
    /\ run[r].effect = "open"
    /\ run[r].owner = None \/ ~run[r].fresh
    /\ MayLapse(r)
    /\ run' = [run EXCEPT ![r] = Reopened(run[r], p)]
    /\ sweeping' = [sweeping EXCEPT ![p] = r]
    /\ UNCHANGED <<worker, active, handler, todo, acks, crashes, ghosts>>

\* claim_recovery_intent also takes a run that needs attention.
ClaimEffect(p, r) ==
    /\ Idle(p)
    /\ sweeping[p] = None
    /\ run[r].effect = "open"
    /\ run[r].status \in Live \cup {"needs_attention"}
    /\ run[r].owner = None \/ ~run[r].fresh
    /\ MayLapse(r)
    /\ run' = [run EXCEPT ![r] = Reopened(run[r], p)]
    /\ sweeping' = [sweeping EXCEPT ![p] = r]
    /\ UNCHANGED <<worker, active, handler, todo, acks, crashes, ghosts>>

\* commit_recovered_result, first transaction
RecoverEffect(p) ==
    /\ Idle(p)
    /\ sweeping[p] # None
    /\ Holds(p, sweeping[p])
    /\ run[sweeping[p]].effect = "open"
    /\ run' = [run EXCEPT ![sweeping[p]] = InTool(run[sweeping[p]], "settled")]
    /\ UNCHANGED <<worker, active, handler, sweeps, acks, crashes, ghosts>>

Unleased(row) == [row EXCEPT !.owner = None, !.fresh = FALSE]

\* commit_recovered_result, second transaction: give the lease back
ReleaseRun(p) ==
    /\ Idle(p)
    /\ sweeping[p] # None
    /\ run[sweeping[p]].effect # "open"
    /\ run' = IF run[sweeping[p]].owner = p
              THEN [run EXCEPT ![sweeping[p]] = Unleased(run[sweeping[p]])]
              ELSE run
    /\ sweeping' = [sweeping EXCEPT ![p] = None]
    /\ UNCHANGED <<worker, active, handler, todo, acks, crashes, ghosts>>

\* mark_unknown: a never_replay intent, or reconciliation that cannot tell
GiveUpEffect(p) ==
    /\ Idle(p)
    /\ sweeping[p] # None
    /\ Holds(p, sweeping[p])
    /\ run[sweeping[p]].effect = "open"
    /\ run' = [run EXCEPT ![sweeping[p]] = Unknown(run[sweeping[p]])]
    /\ sweeping' = [sweeping EXCEPT ![p] = None]
    /\ UNCHANGED <<worker, active, handler, todo, acks, crashes, ghosts>>

\* release_recovery_claim: keep the lease until the retry time; or the claim
\* was lost.
DeferEffect(p) ==
    /\ Idle(p)
    /\ sweeping[p] # None
    /\ sweeping' = [sweeping EXCEPT ![p] = None]
    /\ UNCHANGED <<run, worker, active, handler, todo, acks, crashes, ghosts>>

-----------------------------------------------------------------------------
(* The environment.                                                        *)

\* A lease runs out: its holder stalled, crashed or stopped renewing it.
LeaseExpires(r) ==
    /\ run[r].fresh
    /\ MayLapse(r)
    /\ \/ "stall" \in Disturbances
       \/ run[r].owner \in Workers /\ worker[run[r].owner].pc = "done"
       \/ run[r].owner \in Procs /\ sweeping[run[r].owner] # r
    /\ run' = [run EXCEPT ![r].fresh = FALSE]
    /\ UNCHANGED <<worker, active, handler, sweeps, acks, crashes, ghosts>>

\* Process p dies with everything in its memory and starts again empty.
Crash(p) ==
    /\ "crash" \in Disturbances
    /\ crashes < MaxCrashes
    /\ crashes' = crashes + 1
    /\ worker' = [w \in Workers |->
                    IF worker[w].proc = p THEN [worker[w] EXCEPT !.pc = "done"]
                                          ELSE worker[w]]
    /\ active' = [active EXCEPT ![p] = [r \in Runs |-> None]]
    /\ handler' = [r \in Runs |-> IF handler[r].proc = p THEN NoHandler
                                                         ELSE handler[r]]
    /\ todo' = [todo EXCEPT ![p] = {}]
    /\ sweeping' = [sweeping EXCEPT ![p] = None]
    /\ acks' = {a \in acks : worker[a[2]].proc # p}
    /\ UNCHANGED <<run, ghosts>>

\* A bound of the model, not of the code: the identity of a worker that nothing
\* mentions any more is used again.
Recycle(w) ==
    /\ worker[w].pc = "done"
    /\ \A r \in Runs : /\ w \notin {run[r].owner, handler[r].task}
                       /\ w \notin {message[r].by, lastOwner[r]}
                       /\ w \notin dispatched[r]
                       /\ <<r, w>> \notin acks
                       /\ \A p \in Procs : active[p][r] # w
    /\ worker' = [worker EXCEPT ![w] = FreeTask]
    /\ UNCHANGED <<run, active, handler, sweeps, acks, crashes, ghosts>>

-----------------------------------------------------------------------------
\* One round of the agent: model call, tool call, applied steer.
WorkerActs(w) ==
    \/ ModelDispatch(w)
    \/ SteerCommitted(w)
    \/ ToolIntent(w)
    \/ ToolResult(w)

\* The workflow ends.
WorkerEnds(w) ==
    \/ ToolUnknown(w)
    \/ Pause(w)
    \/ SaveSnapshot(w)
    \/ WorkerFails(w)

WorkerCommits(w) ==
    \/ \E next \in Runs \cup {None} : Complete(w, next)
    \/ CompleteLost(w)

RecommitEnds(w) ==
    \/ \E next \in Runs \cup {None} : Recommit(w, next)
    \/ RecommitFails(w)

SweepEnds(p) ==
    \/ RecoverEffect(p)
    \/ ReleaseRun(p)
    \/ GiveUpEffect(p)
    \/ DeferEffect(p)

WorkerStep(w) ==
    \/ InitialClaim(w)
    \/ JournalClaim(w)
    \/ WorkerStarted(w)
    \/ WorkerActs(w)
    \/ WorkerEnds(w)
    \/ WorkerCommits(w)
    \/ Fenced(w)
    \/ WrapUp(w)
    \/ HeartbeatFails(w)
    \/ HandoffInterrupted(w)
    \/ Close(w)
    \/ \E x \in Workers : Schedule(w, x)
    \/ RecommitEnds(w)

RequestStep(r) ==
    \/ \E p \in Procs, c \in Chats : Accept(p, r, c)
    \/ \E w \in Workers, waits \in BOOLEAN : Launch(r, w, waits)
    \/ LaunchRefused(r)
    \/ PrepareFails(r)
    \/ WaitRun(r)
    \/ \E p \in Procs : Cancel(p, r)
    \/ \E p \in Procs, hard \in BOOLEAN : Reap(p, r, hard)
    \/ \E w \in Workers : StopAcknowledged(r, w) \/ StopTimesOut(r, w)

SweepStep(p) ==
    \/ \E r \in Runs :
          \/ RecoverUnprepared(p, r)
          \/ RecoverPause(p, r)
          \/ \E a \in Actions : RecoverDecide(p, r, a)
          \/ \E w \in Workers : Resume(p, r, w) \/ RecommitClaim(p, r, w)
          \/ SettleStoppedEffect(p, r)
          \/ ClaimEffect(p, r)
    \/ SweepEnds(p)

Next ==
    \/ \E w \in Workers : WorkerStep(w)
    \/ \E r \in Runs : RequestStep(r)
    \/ \E p \in Procs : SweepStep(p)
    \/ \E r \in Runs : LeaseExpires(r)
    \/ \E p \in Procs : Crash(p)
    \/ \E w \in Workers : Recycle(w)

Spec == Init /\ [][Next]_vars

(* Tasks of a live event loop run on, a waiting handler is resumed, every   *)
(* process sweeps periodically, a lease nobody renews runs out.  A workflow *)
(* ends: the agent has an iteration budget and the watchdog of              *)
(* _aiter_with_inactivity_timeout ends a silent one.  Requests,             *)
(* cancellations and faults are never forced.                               *)
Fairness ==
    /\ \A w \in Workers :
          /\ WF_vars(InitialClaim(w)) /\ WF_vars(JournalClaim(w))
          /\ WF_vars(WorkerStarted(w)) /\ WF_vars(WorkerEnds(w))
          /\ WF_vars(WorkerCommits(w))
          /\ WF_vars(Fenced(w)) /\ WF_vars(WrapUp(w)) /\ WF_vars(Close(w))
          /\ WF_vars(\E x \in Workers : Schedule(w, x))
          /\ WF_vars(RecommitEnds(w))
          /\ WF_vars(Recycle(w))
    /\ \A r \in Runs :
          /\ WF_vars(\E w \in Workers, b \in BOOLEAN : Launch(r, w, b))
          /\ WF_vars(LaunchRefused(r)) /\ WF_vars(WaitRun(r))
          /\ WF_vars(\E w \in Workers : StopAcknowledged(r, w))
          /\ WF_vars(LeaseExpires(r))
    /\ \A p \in Procs, r \in Runs :
          /\ WF_vars(RecoverUnprepared(p, r)) /\ WF_vars(RecoverPause(p, r))
          /\ WF_vars(\E a \in Actions : RecoverDecide(p, r, a))
          /\ WF_vars(\E w \in Workers : Resume(p, r, w) \/ RecommitClaim(p, r, w))
    /\ \A p \in Procs : WF_vars(SweepEnds(p))

\* About the outside world: a recovery adapter that is retried for ever answers
\* in the end (release_recovery_claim retries every 30 s without a limit).
AdaptersAnswer ==
    \A p \in Procs : SF_vars(RecoverEffect(p) \/ GiveUpEffect(p))

FairSpec == Spec /\ Fairness /\ AdaptersAnswer

-----------------------------------------------------------------------------
(* Properties.                                                             *)

Holders(c) == {w \in Workers : worker[w].pc \notin {"free", "done"} /\ Owned(w)
                               /\ run[worker[w].run].chat = c}

\* The purpose of writer_slot and of the lease together: in a chat at most one
\* worker can commit anything to its run, across admission, hand-off, recovery
\* by several processes and tool recovery reopening a stopped run.
OneWriterPerChat ==
    \A c \in Chats : \A w, x \in Holders(c) : w = x

\* A worker that can commit to its run also holds the writer slot of the chat,
\* so a hand-off inside complete() always finds the slot free and no request
\* is admitted beside it (RunJournal.complete, accept_main_run).
WriterHoldsSlot ==
    \A w \in Workers :
        (worker[w].pc \notin {"free", "done"} /\ Owned(w))
            => run[worker[w].run].slot

\* recover() re-runs a request only from before its first recorded model call: no
\* two workers record one for the same run ("automatic replay is unsafe").
NoModelReplay == \A r \in Runs : \A w, x \in dispatched[r] : w = x

\* A completed run shows its final answer, and only a completed run does:
\* complete() commits the two in one transaction, and nothing that a fenced,
\* cancelled or recovering worker does later separates them.
AnswerMatchesVerdict ==
    \A r \in Runs : run[r].status = "completed" <=> message[r].kind = "final"

\* A verdict is final: neither the reaper, a cancel, a late worker nor a
\* recovery sweep changes the status of a settled run or replaces the output
\* that was committed with it (_finalize_run, complete, cancel).
VerdictIsFinal ==
    [][\A r \in Runs : run[r].status \in Settled =>
          /\ run'[r].status = run[r].status
          /\ message[r].kind \in {"final", "error"} => message'[r] = message[r]
      ]_vars

\* Admission has no gap: when a run hands its chat to a queued successor the
\* slot passes to that run and to no request that races with it.
SlotHandedOver ==
    [][\A w \in Workers, n \in Runs :
          (worker'[w].next = n /\ worker[w].next # n) =>
             /\ run[worker[w].run].slot
             /\ run'[n].slot /\ run'[n].chat = run[worker[w].run].chat]_vars

\* Every accepted run is settled or stops for attention: a crashed process is
\* made up for by lease expiry and the recovery sweeps.
RunStops == \A r \in Runs : run[r].status \in Live ~> run[r].status \in Stopped

\* A stopped run gives the chat back: its writer slot is released.
SlotReleased ==
    \A r \in Runs : (run[r].status \in Stopped /\ run[r].slot) ~> ~run[r].slot

\* As long as no process dies, which is what the acknowledgement of a stop by the
\* run's own task (_acknowledge_terminal_writer) relies on.
SlotReleasedIfUp ==
    \A r \in Runs : (run[r].status \in Stopped /\ run[r].slot /\ crashes = 0)
                        ~> (~run[r].slot \/ crashes > 0)
=============================================================================
