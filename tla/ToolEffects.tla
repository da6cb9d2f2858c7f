----------------------------- MODULE ToolEffects -----------------------------
(***************************************************************************)
(* The tool effect ledger: every tool call of an agent commits an intent,  *)
(* invokes its adapter, and commits one outcome; a sweep recovers intents  *)
(* whose worker is gone.                                                   *)
(*                                                                         *)
(*   core/services/tool_effect_ledger.py    journal, gateway, sweep        *)
(*   orchestration/tool_effect_recovery.py  replay and reconciliation      *)
(*   mcp_servers/automation_task_mcp        the adapter with receipts      *)
(*                                                                         *)
(* An effect is identified with its idempotency key.  A claim of an effect *)
(* has two owners: the run's owner, who holds the run lease, and the call  *)
(* or sweep that invokes the adapter.  Transactions are steps; the gateway *)
(* runs them in threads and awaits adapters, so any two actors interleave. *)
(* Of chat_runs only the status and the lease are kept; ChatRuns models    *)
(* the rest.                                                               *)
(***************************************************************************)
EXTENDS Naturals, FiniteSets

CONSTANTS
    Runs,         \* runs; a run also names its worker, the owner of its lease
    Effects,      \* idempotency keys, one intent each
    Calls,        \* tool calls, each a fresh claim owner
    Sweepers,     \* recovery sweeps, each a fresh recovery owner per claim
    None,
    RunOf,        \* the run a call belongs to
    KeyOf,        \* the idempotency key of a call
    PolicyOf,     \* the recovery policy of the tool behind an effect
    Disturbances  \* the kinds of outside event and fault that may happen

Policies == {"replay_safe", "reconcile", "never_replay"}
Actors   == Calls \cup Sweepers
Owners   == Runs \cup Sweepers \cup {None}

ASSUME EffectAssumption ==
    /\ None \notin Runs \cup Effects \cup Actors
    /\ Calls \cap Sweepers = {}
    /\ Runs \cap Actors = {}
    /\ RunOf \in [Calls -> Runs]
    /\ KeyOf \in [Calls -> Effects]
    /\ PolicyOf \in [Effects -> Policies]
    /\ Disturbances \subseteq {"cancel", "crash", "stall", "adapter", "doubt"}

VARIABLES
    run,      \* chat_runs: status and lease
    effect,   \* ToolEffectLedger: the intent and its terminal event
    claim,    \* ToolEffectLease
    pc,       \* where each call and each sweep is
    target,   \* the effect an actor works on
    flight,   \* the adapter invocation of an actor
    receipt,  \* ToolEffectReceipt rows
    applied,  \* how often the outside world was changed, counted up to 2
    alive     \* runs whose worker still runs

vars == <<run, effect, claim, pc, target, flight, receipt, applied, alive>>

\* A call in the try block of execute_outcome, an adapter at hand.
Guarded == {"judging", "yes", "no", "invoking"}
Busy    == {"waiting", "granted", "retaken"} \cup Guarded
Over    == {"returned", "unknown", "refused", "gone"}

EffectTypeOK ==
    /\ run \in [Runs -> [status: {"running", "needs_attention", "stopped"},
                         owner: Owners, fresh: BOOLEAN]]
    /\ effect \in [Effects -> [st: {"none", "open", "result", "unknown"},
                               run: Runs \cup {None}]]
    /\ claim \in [Effects -> [owner: Owners, by: Actors \cup {None},
                              fresh: BOOLEAN]]
    /\ pc \in [Actors -> {"idle", "claimed", "releasing"} \cup Busy \cup Over]
    /\ target \in [Actors -> Effects \cup {None}]
    /\ flight \in [Actors -> {"none", "sent", "applied", "failed"}]
    /\ receipt \in [Effects -> BOOLEAN]
    /\ applied \in [Effects -> 0 .. 2]
    /\ alive \in SUBSET Runs
    /\ \A e \in Effects :
          /\ effect[e].st = "none" <=> effect[e].run = None
          /\ effect[e].st # "open" => claim[e].by = None

Unclaimed == [owner |-> None, by |-> None, fresh |-> FALSE]

Init ==
    /\ run = [r \in Runs |-> [status |-> "running", owner |-> r, fresh |-> TRUE]]
    /\ effect = [e \in Effects |-> [st |-> "none", run |-> None]]
    /\ claim = [e \in Effects |-> Unclaimed]
    /\ pc = [a \in Actors |-> "idle"]
    /\ target = [a \in Actors |-> IF a \in Calls THEN KeyOf[a] ELSE None]
    /\ flight = [a \in Actors |-> "none"]
    /\ receipt = [e \in Effects |-> FALSE]
    /\ applied = [e \in Effects |-> 0]
    /\ alive = Runs

-----------------------------------------------------------------------------
Terminal(e) == effect[e].st \in {"result", "unknown"}

\* RunJournal._locked_owned_run does not raise.
HoldsRun(o, r) ==
    run[r].status = "running" /\ run[r].owner = o /\ run[r].fresh

\* The owner under which an actor holds the run of its effect.
OwnerOf(a) == IF a \in Calls THEN RunOf[a] ELSE a

\* The run lease and the invocation claim of a's effect are a's.
HoldsClaim(a) ==
    LET e == target[a] IN
    /\ HoldsRun(OwnerOf(a), effect[e].run)
    /\ claim[e] = [owner |-> OwnerOf(a), by |-> a, fresh |-> TRUE]

Goto(a, l) == pc' = [pc EXCEPT ![a] = l]

\* Deviation: the claim outlives the outcome.
RecordedHeld(e, st) ==
    /\ ~Terminal(e)
    /\ effect' = [effect EXCEPT ![e].st = st]
    /\ UNCHANGED claim

\* The terminal ledger event (terminal_effect_id is unique) and the end of the
\* claim.
Recorded(e, st) ==
    /\ ~Terminal(e)
    /\ effect' = [effect EXCEPT ![e].st = st]
    /\ claim' = [claim EXCEPT ![e].by = None, ![e].fresh = FALSE]

\* needs_attention, as written by mark_unknown, needs_attention() and recover()
SetAside(r) ==
    run' = [run EXCEPT ![r] = [status |-> "needs_attention", owner |-> None,
                               fresh |-> FALSE]]

\* mark_unknown does not raise: an expired claim is good enough.
MayMark(a) ==
    LET e == target[a] IN
    /\ HoldsRun(OwnerOf(a), effect[e].run)
    /\ claim[e].owner = OwnerOf(a) /\ claim[e].by = a

MarkUnknown(a) ==
    /\ MayMark(a)
    /\ Recorded(target[a], "unknown")
    /\ SetAside(effect[target[a]].run)

-----------------------------------------------------------------------------
(* ToolEffectGateway.execute_outcome: begin_intent and its waiting loop.   *)

Asking(c) == pc[c] \in {"idle", "waiting"} /\ RunOf[c] \in alive

\* The intent and the claim are committed together.
Intend(c) ==
    LET e == KeyOf[c] IN
    /\ Asking(c)
    /\ effect[e].st = "none"
    /\ HoldsRun(RunOf[c], RunOf[c])
    /\ effect' = [effect EXCEPT ![e] = [st |-> "open", run |-> RunOf[c]]]
    /\ claim' = [claim EXCEPT ![e] = [owner |-> RunOf[c], by |-> c,
                                      fresh |-> TRUE]]
    /\ Goto(c, "granted")
    /\ UNCHANGED <<run, target, flight, receipt, applied, alive>>

\* Deviation: only the run of the intent can read the outcome.
ReadableOwn(c) ==
    /\ Terminal(KeyOf[c])
    /\ effect[KeyOf[c]].run = RunOf[c]

\* The outcome is known: a waiting call, or one of the run of the intent, does
\* not need its lease to read it.
Readable(c) ==
    /\ Terminal(KeyOf[c])
    /\ \/ pc[c] = "waiting" \/ effect[KeyOf[c]].run = RunOf[c]
       \/ HoldsRun(RunOf[c], RunOf[c])

Learn(c) ==
    /\ Asking(c)
    /\ Readable(c)
    /\ Goto(c, IF effect[KeyOf[c]].st = "result" THEN "returned" ELSE "unknown")
    /\ UNCHANGED <<run, effect, claim, target, flight, receipt, applied, alive>>

\* ToolIntentCommitError: nothing was invoked.
Refuse(c) ==
    /\ Asking(c)
    /\ ~Readable(c)
    /\ ~HoldsRun(RunOf[c], RunOf[c])
    /\ Goto(c, "refused")
    /\ UNCHANGED <<run, effect, claim, target, flight, receipt, applied, alive>>

\* Another run's effect, or a claim that has not run out: poll.
Wait(c) ==
    LET e == KeyOf[c] IN
    /\ Asking(c)
    /\ effect[e].st = "open"
    /\ HoldsRun(RunOf[c], RunOf[c])
    /\ effect[e].run # RunOf[c] \/ claim[e].fresh
    /\ Goto(c, "waiting")
    /\ UNCHANGED <<run, effect, claim, target, flight, receipt, applied, alive>>

\* What a taken-over effect may do next.
Retaken(policy) == IF policy = "replay_safe" THEN "granted" ELSE "retaken"

\* The claim of an own effect has run out: take it over, in one transaction
\* with the verdict unknown when the tool must never be replayed.
Retake(c) ==
    LET e == KeyOf[c]
        r == RunOf[c] IN
    /\ Asking(c)
    /\ effect[e].st = "open"
    /\ effect[e].run = r
    /\ HoldsRun(r, r)
    /\ ~claim[e].fresh
    /\ IF PolicyOf[e] = "never_replay"
       THEN /\ Recorded(e, "unknown")
            /\ SetAside(r)
            /\ Goto(c, "unknown")
       ELSE /\ claim' = [claim EXCEPT ![e] = [owner |-> r, by |-> c,
                                              fresh |-> TRUE]]
            /\ Goto(c, Retaken(PolicyOf[e]))
            /\ UNCHANGED <<run, effect>>
    /\ UNCHANGED <<target, flight, receipt, applied, alive>>

-----------------------------------------------------------------------------
(* The invocation.                                                         *)

Send(a) ==
    /\ flight' = [flight EXCEPT ![a] = "sent"]
    /\ Goto(a, "invoking")

\* acquire_invocation_claim, then straight into the adapter or the reconciler;
\* a lost claim is raised outside the try block, before any invocation.
Acquire(c) ==
    /\ pc[c] \in {"granted", "retaken"}
    /\ RunOf[c] \in alive
    /\ IF ~HoldsClaim(c) \/ Terminal(KeyOf[c])
       THEN Goto(c, "refused") /\ UNCHANGED flight
       ELSE IF pc[c] = "granted" THEN Send(c)
       ELSE Goto(c, "judging") /\ UNCHANGED flight
    /\ UNCHANGED <<run, effect, claim, target, receipt, applied, alive>>

\* Is a about to call a reconciler?
Judging(a) ==
    \/ pc[a] = "judging" /\ RunOf[a] \in alive
    \/ pc[a] = "claimed" /\ PolicyOf[target[a]] = "reconcile"

\* The reconciler looks for the adapter's receipt.
Judge(a) ==
    /\ Judging(a)
    /\ Goto(a, IF receipt[target[a]] THEN "yes" ELSE "no")
    /\ UNCHANGED <<run, effect, claim, target, flight, receipt, applied, alive>>

\* The reconciler cannot tell.
JudgeUnknown(a) ==
    /\ "doubt" \in Disturbances
    /\ Judging(a)
    /\ MarkUnknown(a)
    /\ Goto(a, IF a \in Calls THEN "unknown" ELSE "idle")
    /\ UNCHANGED <<target, flight, receipt, applied, alive>>

\* Not applied: invoke, or replay.  Ownership is not looked at again, except
\* that a heartbeat that already failed leads to Abandon or Defer.
Invoke(a) ==
    /\ \/ pc[a] = "no" /\ a \in Calls /\ RunOf[a] \in alive
       \/ pc[a] = "no" /\ a \in Sweepers
       \/ pc[a] = "claimed" /\ PolicyOf[target[a]] = "replay_safe"
    /\ Send(a)
    /\ UNCHANGED <<run, effect, claim, target, receipt, applied, alive>>

\* Deviation: the receipt is committed apart from the mutation.
FirstAlways(e) == TRUE

\* create_task and its siblings commit the mutation and its receipt together
\* and return the receipt that is there already.  Other adapters keep none.
First(e) == PolicyOf[e] = "reconcile" => ~receipt[e]

\* The adapter does its work, whether or not its caller still waits.
Apply(a) ==
    LET e == target[a] IN
    /\ flight[a] = "sent"
    /\ flight' = [flight EXCEPT ![a] = IF pc[a] = "invoking" THEN "applied"
                                                             ELSE "none"]
    /\ applied' = [applied EXCEPT ![e] = IF First(e) /\ @ < 2 THEN @ + 1 ELSE @]
    /\ receipt' = [receipt EXCEPT ![e] = @ \/ PolicyOf[e] = "reconcile"]
    /\ UNCHANGED <<run, effect, claim, pc, target, alive>>

\* It raises or times out, before or after it did its work.
AdapterFails(a) ==
    /\ "adapter" \in Disturbances
    /\ flight[a] \in {"sent", "applied"}
    /\ flight' = [flight EXCEPT ![a] = IF pc[a] = "invoking" THEN "failed"
                                                             ELSE "none"]
    /\ UNCHANGED <<run, effect, claim, pc, target, receipt, applied, alive>>

\* Deviation: what an adapter raised is committed like a result.
AnsweredAnyhow(a) ==
    \/ pc[a] = "yes"
    \/ pc[a] = "invoking" /\ flight[a] \in {"applied", "failed"}

\* a has an outcome to commit.
Answered(a) ==
    \/ pc[a] = "yes"
    \/ pc[a] = "invoking" /\ flight[a] = "applied"

Landed(a) == flight' = [flight EXCEPT ![a] = "none"]

\* commit_result of a call; a result that somebody else committed is returned.
Commit(c) ==
    LET e == KeyOf[c] IN
    /\ c \in Calls
    /\ Answered(c)
    /\ RunOf[c] \in alive
    /\ \/ HoldsClaim(c) /\ Recorded(e, "result")
       \/ effect[e].st = "result" /\ UNCHANGED <<effect, claim>>
    /\ Goto(c, "returned")
    /\ Landed(c)
    /\ UNCHANGED <<run, target, receipt, applied, alive>>

\* abandon_invocation_claim: expire the claim if it is still c's.
Expired(c) ==
    claim' = [claim EXCEPT ![KeyOf[c]].fresh =
                 @ /\ ~(claim[KeyOf[c]].owner = RunOf[c] /\ claim[KeyOf[c]].by = c)]

\* An exception in the try block: the reconciler or the adapter raised, an
\* unknown outcome cannot be recorded, or the heartbeat or commit_result says
\* that the claim is lost (a false alarm of the heartbeat acts like an adapter
\* that raised).  Nobody looks at the claim while the adapter works.
Raises(a) ==
    \/ Judging(a) /\ "adapter" \in Disturbances
    \/ Judging(a) /\ "doubt" \in Disturbances /\ ~MayMark(a)
    \/ pc[a] \in {"yes", "no"} /\ ~HoldsClaim(a)
    \/ pc[a] = "invoking" /\ flight[a] = "failed"
    \/ pc[a] = "invoking" /\ flight[a] = "applied" /\ ~HoldsClaim(a)

\* The call gives its claim up and raises ToolOutcomeUnknown.
Abandon(c) ==
    /\ RunOf[c] \in alive
    /\ Raises(c)
    /\ Expired(c)
    /\ Goto(c, "unknown")
    /\ Landed(c)
    /\ UNCHANGED <<run, effect, target, receipt, applied, alive>>

\* The worker was cancelled and CancelledError reaches the call; an invocation
\* on its way is not called back.
CancelCall(c) ==
    /\ pc[c] \in Busy
    /\ RunOf[c] \notin alive
    /\ IF pc[c] \in Guarded THEN Expired(c) ELSE UNCHANGED claim
    /\ Goto(c, "gone")
    /\ flight' = [flight EXCEPT ![c] = IF @ = "sent" THEN @ ELSE "none"]
    /\ UNCHANGED <<run, effect, target, receipt, applied, alive>>

-----------------------------------------------------------------------------
(* The run of the calls, as far as the ledger depends on it.               *)

CallsOf(r) == {c \in Calls : RunOf[c] = r}

\* The worker ends its run: paused after an unknown outcome, settled otherwise.
WorkerEnds(r) ==
    /\ r \in alive
    /\ \A c \in CallsOf(r) : pc[c] \notin Busy
    /\ alive' = alive \ {r}
    /\ IF ~HoldsRun(r, r) THEN UNCHANGED run
       ELSE IF \E c \in CallsOf(r) : pc[c] = "unknown" THEN SetAside(r)
       ELSE run' = [run EXCEPT ![r] = [status |-> "stopped", owner |-> None,
                                       fresh |-> FALSE]]
    /\ UNCHANGED <<effect, claim, pc, target, flight, receipt, applied>>

\* The worker is cancelled because it lost its run.
WorkerFenced(r) ==
    /\ r \in alive
    /\ ~HoldsRun(r, r)
    /\ alive' = alive \ {r}
    /\ UNCHANGED <<run, effect, claim, pc, target, flight, receipt, applied>>

\* cancel_run
CancelRun(r) ==
    /\ "cancel" \in Disturbances
    /\ run[r].status = "running"
    /\ run' = [run EXCEPT ![r] = [status |-> "stopped", owner |-> None,
                                  fresh |-> FALSE]]
    /\ UNCHANGED <<effect, claim, pc, target, flight, receipt, applied, alive>>

\* RunJournal.recover: the run stopped inside a tool call and nobody owns it.
RecoverPause(r) ==
    /\ run[r].status = "running"
    /\ run[r].owner = None \/ ~run[r].fresh
    /\ \E e \in Effects : effect[e].run = r
    /\ SetAside(r)
    /\ UNCHANGED <<effect, claim, pc, target, flight, receipt, applied, alive>>

-----------------------------------------------------------------------------
(* recover_incomplete_tool_effects.                                        *)

\* settle_terminal_run_intent
SettleStopped(e) ==
    /\ effect[e].st = "open"
    /\ run[effect[e].run].status = "stopped"
    /\ Recorded(e, "unknown")
    /\ UNCHANGED <<run, pc, target, flight, receipt, applied, alive>>

\* Deviation: a run that was set aside is not looked at again.
RecoverableRunning == {"running"}

\* The runs whose intents are still worth recovering.
Recoverable == {"running", "needs_attention"}

\* claim_recovery_intent: the run lease and the claim must both be free.  s is
\* a new recovery owner each time.
ClaimRecovery(s, e) ==
    LET r == effect[e].run IN
    /\ pc[s] = "idle"
    /\ flight[s] = "none"
    /\ effect[e].st = "open"
    /\ run[r].status \in Recoverable
    /\ run[r].owner = None \/ ~run[r].fresh
    /\ ~claim[e].fresh
    /\ run' = [run EXCEPT ![r] = [status |-> "running", owner |-> s,
                                  fresh |-> TRUE]]
    /\ claim' = [claim EXCEPT ![e] = [owner |-> s, by |-> s, fresh |-> TRUE]]
    /\ target' = [target EXCEPT ![s] = e]
    /\ Goto(s, "claimed")
    /\ UNCHANGED <<effect, flight, receipt, applied, alive>>

\* A tool that must never be replayed.
GiveUp(s) ==
    /\ pc[s] = "claimed"
    /\ PolicyOf[target[s]] = "never_replay"
    /\ MarkUnknown(s)
    /\ Goto(s, "idle")
    /\ UNCHANGED <<target, flight, receipt, applied, alive>>

\* commit_recovered_result, first transaction
CommitRecovered(s) ==
    LET e == target[s] IN
    /\ s \in Sweepers
    /\ Answered(s)
    /\ \/ HoldsClaim(s) /\ Recorded(e, "result")
       \/ effect[e].st = "result" /\ UNCHANGED <<effect, claim>>
    /\ Goto(s, "releasing")
    /\ Landed(s)
    /\ UNCHANGED <<run, target, receipt, applied, alive>>

\* ... and second: give the run lease back.
ReleaseRun(s) ==
    LET e == target[s]
        r == effect[e].run IN
    /\ pc[s] = "releasing"
    /\ IF claim[e].owner = s /\ run[r].owner = s
       THEN run' = [run EXCEPT ![r].owner = None, ![r].fresh = FALSE]
       ELSE UNCHANGED run
    /\ Goto(s, "idle")
    /\ UNCHANGED <<effect, claim, target, flight, receipt, applied, alive>>

\* The exception path: release_recovery_claim gives the claim up but keeps both
\* leases until the retry time, if s still has them.
Defer(s) ==
    LET e == target[s]
        r == effect[e].run IN
    /\ \/ Raises(s)
       \/ pc[s] = "claimed" /\ PolicyOf[e] = "never_replay" /\ ~MayMark(s)
    /\ IF claim[e].owner = s /\ claim[e].by = s /\ run[r].owner = s
       THEN /\ claim' = [claim EXCEPT ![e].by = None, ![e].fresh = TRUE]
            /\ run' = [run EXCEPT ![r].fresh = TRUE]
       ELSE UNCHANGED <<run, claim>>
    /\ Goto(s, "idle")
    /\ Landed(s)
    /\ UNCHANGED <<effect, target, receipt, applied, alive>>

-----------------------------------------------------------------------------
(* The environment.                                                        *)

\* The holder of a lease stalled or is gone; a deferred claim reached its retry
\* time.
RunUnattended(r) ==
    \/ run[r].owner \in Runs \ alive
    \/ run[r].owner \in Sweepers /\ pc[run[r].owner] = "idle"

RunLeaseExpires(r) ==
    /\ run[r].fresh
    /\ "stall" \in Disturbances \/ RunUnattended(r)
    /\ run' = [run EXCEPT ![r].fresh = FALSE]
    /\ UNCHANGED <<effect, claim, pc, target, flight, receipt, applied, alive>>

ClaimUnattended(e) ==
    \/ claim[e].by = None
    \/ claim[e].by \in Actors /\ pc[claim[e].by] \in {"idle"} \cup Over

ClaimExpires(e) ==
    /\ claim[e].fresh
    /\ "stall" \in Disturbances \/ ClaimUnattended(e)
    /\ claim' = [claim EXCEPT ![e].fresh = FALSE]
    /\ UNCHANGED <<run, effect, pc, target, flight, receipt, applied, alive>>

\* The process of a worker, or of a sweep, dies; what was sent stays sent.
CrashWorker(r) ==
    /\ "crash" \in Disturbances
    /\ r \in alive
    /\ alive' = alive \ {r}
    /\ pc' = [a \in Actors |-> IF a \in CallsOf(r) /\ pc[a] \notin Over
                               THEN "gone" ELSE pc[a]]
    /\ flight' = [a \in Actors |-> IF a \in CallsOf(r) /\ flight[a] # "sent"
                                   THEN "none" ELSE flight[a]]
    /\ UNCHANGED <<run, effect, claim, target, receipt, applied>>

CrashSweep(s) ==
    /\ "crash" \in Disturbances
    /\ pc[s] # "idle"
    /\ Goto(s, "idle")
    /\ flight' = [flight EXCEPT ![s] = IF @ = "sent" THEN @ ELSE "none"]
    /\ UNCHANGED <<run, effect, claim, target, receipt, applied, alive>>

-----------------------------------------------------------------------------
CallStep(c) ==
    \/ Intend(c) \/ Learn(c) \/ Refuse(c) \/ Wait(c) \/ Retake(c)
    \/ Acquire(c) \/ Commit(c) \/ Abandon(c) \/ CancelCall(c)

SweepStep(s) ==
    \/ GiveUp(s) \/ CommitRecovered(s) \/ ReleaseRun(s) \/ Defer(s)

ActorStep(a) == Judge(a) \/ JudgeUnknown(a) \/ Invoke(a)

RunStep(r) ==
    \/ WorkerEnds(r) \/ WorkerFenced(r) \/ CancelRun(r) \/ RecoverPause(r)
    \/ RunLeaseExpires(r) \/ CrashWorker(r)

Next ==
    \/ \E c \in Calls : CallStep(c)
    \/ \E a \in Actors : ActorStep(a) \/ Apply(a) \/ AdapterFails(a)
    \/ \E s \in Sweepers : SweepStep(s) \/ CrashSweep(s)
    \/ \E s \in Sweepers, e \in Effects : ClaimRecovery(s, e)
    \/ \E e \in Effects : SettleStopped(e) \/ ClaimExpires(e)
    \/ \E r \in Runs : RunStep(r)

Spec == Init /\ [][Next]_vars

(* Live tasks run on, sweeps are periodic, leases nobody renews run out, a *)
(* worker ends.  Strong fairness is about the outside world: a sweep that   *)
(* is retried without limit is not killed, and its adapter does not raise,  *)
(* every single time.                                                       *)
Fairness ==
    /\ \A c \in Calls : WF_vars(CallStep(c))
    /\ \A c \in Calls : WF_vars(ActorStep(c))
    /\ \A a \in Actors : WF_vars(Apply(a))
    /\ \A s \in Sweepers :
          /\ WF_vars(SweepStep(s))
          /\ SF_vars(Judge(s)) /\ SF_vars(Invoke(s))
          /\ SF_vars(pc[s] = "invoking" /\ Apply(s))
          /\ SF_vars(CommitRecovered(s)) /\ SF_vars(GiveUp(s))
    /\ \A e \in Effects :
          /\ WF_vars(SettleStopped(e)) /\ WF_vars(ClaimUnattended(e) /\ ClaimExpires(e))
          /\ WF_vars(\E s \in Sweepers : ClaimRecovery(s, e))
    /\ \A r \in Runs :
          /\ WF_vars(WorkerEnds(r)) /\ WF_vars(WorkerFenced(r))
          /\ WF_vars(RecoverPause(r))
          /\ WF_vars(RunUnattended(r) /\ RunLeaseExpires(r))

FairSpec == Spec /\ Fairness

-----------------------------------------------------------------------------
(* Properties.                                                             *)

\* The tools that are not replay-safe change the world at most once per
\* idempotency key, whatever retries, take-overs and sweeps do: never_replay
\* effects are given up instead, reconciled ones look for their receipt.
AppliedOnce ==
    \A e \in Effects : PolicyOf[e] # "replay_safe" => applied[e] <= 1

\* An intent does not stay pending for ever: with adapters that answer in the
\* end every intent gets its one outcome.
IntentSettles == \A e \in Effects : effect[e].st = "open" ~> Terminal(e)

\* A call that waits for somebody else's effect is not left waiting, whichever
\* run or sweep owned that effect (the polling loop of execute_outcome).
WaiterReturns == \A c \in Calls : pc[c] = "waiting" ~> pc[c] # "waiting"

\* tool_effect_ledger.py:1119-1120, settle_terminal_run_intent: "Cancellation/
\* failure is a hard replay boundary: the user's stopped run must never perform
\* a delayed external action."
StoppedRunIsQuiet ==
    [][\A s \in Sweepers :
          (flight[s] # "sent" /\ flight'[s] = "sent")
             => run[effect[target[s]].run].status # "stopped"]_vars

-----------------------------------------------------------------------------
(* What callers and sweeps see of it: ToolPromise. *)

Outcome == [e \in Effects |-> IF effect[e].st = "open" THEN "pending" ELSE effect[e].st]

Informed == {c \in Calls : pc[c] = "returned"}

P == INSTANCE ToolPromise WITH
        Repeatable <- {e \in Effects : PolicyOf[e] = "replay_safe"},
        outcome  <- Outcome,
        happened <- applied,
        told     <- Informed

\* Callers and sweeps see one outcome per idempotency key, and a result only of
\* an invocation that took place.
ImplementsPromise == P!PromiseSpec
=============================================================================
