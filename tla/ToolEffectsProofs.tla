------------------------- MODULE ToolEffectsProofs --------------------------
(***************************************************************************)
(* Proofs about ToolEffects, for any runs, effects, calls, sweeps, policies *)
(* and disturbances: the types, that an effect which must not repeat takes  *)
(* place at most once, and that the ledger implements ToolPromise.          *)
(***************************************************************************)
EXTENDS ToolEffects, TLAPS

-----------------------------------------------------------------------------
(* Types: the parts of EffectTypeOK, and what an actor knows of its effect. *)

Run    == [status: {"running", "needs_attention", "stopped"}, owner: Owners, fresh: BOOLEAN]
Intent == [st: {"none", "open", "result", "unknown"}, run: Runs \cup {None}]
Holder == Actors \cup {None}
Claim  == [owner: Owners, by: Holder, fresh: BOOLEAN]

RunsTyped    == run \in [Runs -> Run]
IntentsTyped ==
    /\ effect \in [Effects -> Intent]
    /\ \A e \in Effects : effect[e].st = "none" <=> effect[e].run = None
ClaimsTyped  == claim \in [Effects -> Claim]

\* Only an open intent is claimed.
ClaimsOpen == \A e \in Effects : effect[e].st # "open" => claim[e].by = None

ActorsTyped ==
    /\ pc \in [Actors -> {"idle", "claimed", "releasing"} \cup Busy \cup Over]
    /\ target \in [Actors -> Effects \cup {None}]
    /\ flight \in [Actors -> {"none", "sent", "applied", "failed"}]
    /\ alive \in SUBSET Runs

WorldTyped ==
    /\ receipt \in [Effects -> BOOLEAN]
    /\ applied \in [Effects -> 0 .. 2]

\* Past the intent of its effect.
Engaged == {"claimed", "releasing", "granted", "retaken"} \cup Guarded

\* A call works on its key, a sweep on an effect it has claimed; neither is past
\* the intent of an effect that was not intended.
Targets ==
    /\ \A c \in Calls : target[c] = KeyOf[c]
    /\ \A a \in Actors : pc[a] \in Engaged \/ flight[a] # "none"
                            => target[a] \in Effects /\ effect[target[a]].st # "none"

\* What a sweep does, no call does, and the other way round.
Roles ==
    /\ \A c \in Calls : pc[c] \notin {"claimed", "releasing"}
    /\ \A s \in Sweepers : pc[s] \in {"idle", "claimed", "yes", "no", "invoking", "releasing"}

Typed == /\ RunsTyped /\ IntentsTyped /\ ClaimsTyped /\ ClaimsOpen
         /\ ActorsTyped /\ WorldTyped /\ Targets /\ Roles

\* Who may own a run or hold an intent, and who acts.
LEMMA Members ==
    /\ None \in Owners /\ None \in Holder
    /\ \A r \in Runs : r \in Owners
    /\ \A s \in Sweepers : s \in Owners /\ s \in Holder /\ s \in Actors
    /\ \A c \in Calls : c \in Holder /\ c \in Actors
    /\ \A a \in Actors : a \in Calls \/ a \in Sweepers
  BY DEF Owners, Holder, Actors

\* The named types are those of the type invariant.
LEMMA TypedIsTypeOK == Typed => EffectTypeOK
  BY DEF Typed, EffectTypeOK, RunsTyped, IntentsTyped, ClaimsTyped, ClaimsOpen, ActorsTyped,
         WorldTyped, Run, Intent, Claim, Holder

\* Nothing is in flight yet.
LEMMA TypedInit == EffectAssumption /\ Init => Typed
  BY DEF EffectAssumption, Init, Typed, RunsTyped, IntentsTyped, ClaimsTyped, ClaimsOpen,
         ActorsTyped, WorldTyped, Run, Intent, Claim, Holder, Targets, Roles, Engaged,
         Unclaimed, Owners, Actors, Guarded, Busy, Over

-----------------------------------------------------------------------------
(* What the operations the handlers share do to the rows. *)

\* needs_attention
LEMMA SetAsideOK ==
    ASSUME RunsTyped, NEW r, SetAside(r)
    PROVE  RunsTyped'
  BY Members DEF RunsTyped, Run, SetAside

\* The terminal ledger event.
LEMMA RecordedOK ==
    ASSUME Typed, NEW e \in Effects, NEW st \in {"result", "unknown"}, Recorded(e, st),
           effect[e].st # "none"
    PROVE  IntentsTyped' /\ ClaimsTyped' /\ ClaimsOpen'
  <1>1. IntentsTyped'
    BY DEF Typed, IntentsTyped, Intent, Recorded
  <1>2. ClaimsTyped'
    BY Members DEF Typed, ClaimsTyped, Claim, Recorded
  <1>3. ClaimsOpen'
    BY DEF Typed, IntentsTyped, ClaimsTyped, ClaimsOpen, Recorded, Intent, Claim
  <1> QED BY <1>1, <1>2, <1>3

\* abandon_invocation_claim
LEMMA ExpiredOK ==
    ASSUME EffectAssumption, Typed, NEW c \in Calls, Expired(c)
    PROVE  ClaimsTyped' /\ \A e \in Effects : claim'[e].by = claim[e].by
  <1>1. PICK b \in BOOLEAN : claim' = [claim EXCEPT ![KeyOf[c]].fresh = b]
    <2>1. KeyOf[c] \in Effects /\ claim[KeyOf[c]].fresh \in BOOLEAN
      BY DEF EffectAssumption, Typed, ClaimsTyped, Claim
    <2> QED BY <2>1 DEF Expired
  <1> QED BY <1>1 DEF Typed, ClaimsTyped, Claim

\* Whoever marks an outcome unknown knows its effect.
LEMMA MarkUnknownOK ==
    ASSUME Typed, NEW a \in Actors, MarkUnknown(a), pc[a] \in Engaged
    PROVE  RunsTyped' /\ IntentsTyped' /\ ClaimsTyped' /\ ClaimsOpen'
  <1>1. target[a] \in Effects /\ effect[target[a]].st # "none"
    BY DEF Typed, Targets
  <1>2. Recorded(target[a], "unknown") /\ SetAside(effect[target[a]].run)
    BY DEF MarkUnknown
  <1> QED BY <1>1, <1>2, RecordedOK, SetAsideOK DEF Typed

\* A result is committed by whoever has an answer, or is there already.
LEMMA CommittedOK ==
    ASSUME Typed, NEW a \in Actors, Answered(a),
           \/ HoldsClaim(a) /\ Recorded(target[a], "result")
           \/ effect[target[a]].st = "result" /\ UNCHANGED <<effect, claim>>
    PROVE  IntentsTyped' /\ ClaimsTyped' /\ ClaimsOpen'
  <1>1. target[a] \in Effects /\ effect[target[a]].st # "none"
    BY DEF Typed, Targets, Answered, Engaged, Guarded
  <1>2. CASE Recorded(target[a], "result")
    BY <1>1, <1>2, RecordedOK
  <1>3. CASE UNCHANGED <<effect, claim>>
    BY <1>3 DEF Typed, IntentsTyped, ClaimsTyped, ClaimsOpen
  <1> QED BY <1>2, <1>3

-----------------------------------------------------------------------------
(* The types are kept. *)

\* Leases and verdicts of runs: claim_recovery_intent, needs_attention(), cancel_run.
LEMMA RunsStep ==
    ASSUME EffectAssumption, Typed, Next
    PROVE  RunsTyped'
  <1>1. ASSUME NEW c \in Calls, Retake(c) PROVE RunsTyped'
    <2>1. KeyOf[c] \in Effects /\ effect[KeyOf[c]].st = "open"
      BY <1>1 DEF EffectAssumption, Retake
    <2>2. CASE PolicyOf[KeyOf[c]] = "never_replay"
      BY <2>1, <2>2, <1>1, SetAsideOK DEF Retake, Typed
    <2>3. CASE PolicyOf[KeyOf[c]] # "never_replay"
      BY <2>1, <2>3, <1>1 DEF Retake, Typed, RunsTyped
    <2> QED BY <2>2, <2>3
  <1>2. ASSUME NEW a \in Actors, JudgeUnknown(a) PROVE RunsTyped'
    <2>1. MarkUnknown(a) /\ pc[a] \in Engaged
      BY <1>2 DEF JudgeUnknown, Judging, Engaged, Guarded
    <2> QED BY <2>1, MarkUnknownOK
  <1>3. ASSUME NEW s \in Sweepers, GiveUp(s) PROVE RunsTyped'
    <2>1. MarkUnknown(s) /\ pc[s] \in Engaged /\ s \in Actors
      BY <1>3, Members DEF GiveUp, Engaged
    <2> QED BY <2>1, MarkUnknownOK
  <1>4. ASSUME NEW s \in Sweepers, ReleaseRun(s) PROVE RunsTyped'
    BY <1>4, Members DEF ReleaseRun, Typed, RunsTyped, Run
  <1>5. ASSUME NEW s \in Sweepers, Defer(s) PROVE RunsTyped'
    <2>1. CASE run' = run
      BY <2>1 DEF Typed, RunsTyped
    <2>2. ASSUME NEW r \in Runs, run' = [run EXCEPT ![r].fresh = TRUE] PROVE RunsTyped'
      BY <2>2 DEF Typed, RunsTyped, Run
    <2>3. target[s] \in Effects /\ effect[target[s]].run \in Runs
      BY <1>5, Members DEF Defer, Raises, Judging, Typed, Targets, IntentsTyped, Intent, Engaged, Guarded
    <2> QED BY <2>1, <2>2, <2>3, <1>5 DEF Defer
  <1>6. ASSUME NEW s \in Sweepers, NEW e \in Effects, ClaimRecovery(s, e) PROVE
    RunsTyped'
    BY <1>6, Members DEF ClaimRecovery, Typed, RunsTyped, Run
  <1>7. ASSUME NEW r \in Runs, WorkerEnds(r) PROVE RunsTyped'
    <2>1. \/ run' = run
          \/ SetAside(r)
          \/ run' = [run EXCEPT ![r] = [status |-> "stopped", owner |-> None, fresh |-> FALSE]]
      BY <1>7 DEF WorkerEnds
    <2>2. ASSUME run' = [run EXCEPT ![r] = [status |-> "stopped", owner |-> None,
                                            fresh |-> FALSE]]
          PROVE  RunsTyped'
      BY <2>2, Members DEF Typed, RunsTyped, Run
    <2> QED BY <2>1, <2>2, SetAsideOK DEF Typed, RunsTyped
  <1>8. ASSUME NEW r \in Runs, CancelRun(r) PROVE RunsTyped'
    BY <1>8, Members DEF CancelRun, Typed, RunsTyped, Run
  <1>9. ASSUME NEW r \in Runs, RecoverPause(r) PROVE RunsTyped'
    BY <1>9, Members DEF RecoverPause, SetAside, Typed, RunsTyped, Run
  <1>10. ASSUME NEW r \in Runs, RunLeaseExpires(r) PROVE RunsTyped'
    <2> DEFINE x == [run[r] EXCEPT !.fresh = FALSE]
    <2>1. run[r] \in Run /\ run' = [run EXCEPT ![r] = x]
      BY <1>10 DEF RunLeaseExpires, Typed, RunsTyped
    <2>2. x \in Run
      BY <2>1 DEF Run
    <2> HIDE DEF x
    <2> QED BY <2>1, <2>2 DEF Typed, RunsTyped
  <1>11. ASSUME NEW c \in Calls, Intend(c) \/ Learn(c) \/ Refuse(c) \/ Wait(c) \/
    Acquire(c) \/ Commit(c) \/ Abandon(c) \/ CancelCall(c)
       PROVE  UNCHANGED <<run>>
    BY <1>11 DEF Intend, Goto, Learn, Refuse, Wait, Acquire, Send, Commit, Recorded,
      Landed, Abandon, Expired, CancelCall
  <1>12. ASSUME NEW a \in Actors, Judge(a) \/ Invoke(a) \/ Apply(a) \/ AdapterFails(a)
       PROVE  UNCHANGED <<run>>
    BY <1>12 DEF Judge, Goto, Invoke, Send, Apply, AdapterFails
  <1>13. ASSUME NEW s \in Sweepers, CommitRecovered(s) \/ CrashSweep(s)
       PROVE  UNCHANGED <<run>>
    BY <1>13 DEF CommitRecovered, Recorded, Landed, Goto, CrashSweep
  <1>14. ASSUME NEW e \in Effects, SettleStopped(e) \/ ClaimExpires(e)
       PROVE  UNCHANGED <<run>>
    BY <1>14 DEF SettleStopped, Recorded, ClaimExpires
  <1>15. ASSUME NEW r \in Runs, WorkerFenced(r) \/ CrashWorker(r)
       PROVE  UNCHANGED <<run>>
    BY <1>15 DEF WorkerFenced, CrashWorker
  <1>16. ASSUME UNCHANGED <<run>> PROVE RunsTyped'
    BY <1>16 DEF RunsTyped, Typed
  <1>17. QED
    BY <1>1, <1>2, <1>3, <1>4, <1>5, <1>6, <1>7, <1>8, <1>9, <1>10, <1>11, <1>12,
      <1>13, <1>14, <1>15, <1>16 DEF Next, CallStep, ActorStep, SweepStep, RunStep

\* Intents and their outcomes: begin_intent, commit_result, mark_unknown.
LEMMA IntentsStep ==
    ASSUME EffectAssumption, Typed, Next
    PROVE  IntentsTyped'
  <1>1. ASSUME NEW c \in Calls, Intend(c) PROVE IntentsTyped'
    BY <1>1, Members DEF Intend, Asking, EffectAssumption, Typed, IntentsTyped, Intent
  <1>2. ASSUME NEW c \in Calls, Retake(c) PROVE IntentsTyped'
    <2>1. KeyOf[c] \in Effects /\ effect[KeyOf[c]].st = "open"
      BY <1>2 DEF EffectAssumption, Retake
    <2>2. CASE PolicyOf[KeyOf[c]] = "never_replay"
      BY <2>1, <2>2, <1>2, RecordedOK DEF Retake
    <2>3. CASE PolicyOf[KeyOf[c]] # "never_replay"
      BY <2>1, <2>3, <1>2 DEF Retake, Typed, IntentsTyped
    <2> QED BY <2>2, <2>3
  <1>3. ASSUME NEW c \in Calls, Commit(c) PROVE IntentsTyped'
    <2>1. target[c] = KeyOf[c] /\ c \in Actors
      BY Members DEF Typed, Targets
    <2> QED BY <2>1, <1>3, CommittedOK DEF Commit
  <1>4. ASSUME NEW a \in Actors, JudgeUnknown(a) PROVE IntentsTyped'
    <2>1. MarkUnknown(a) /\ pc[a] \in Engaged
      BY <1>4 DEF JudgeUnknown, Judging, Engaged, Guarded
    <2> QED BY <2>1, MarkUnknownOK
  <1>5. ASSUME NEW s \in Sweepers, GiveUp(s) PROVE IntentsTyped'
    <2>1. MarkUnknown(s) /\ pc[s] \in Engaged /\ s \in Actors
      BY <1>5, Members DEF GiveUp, Engaged
    <2> QED BY <2>1, MarkUnknownOK
  <1>6. ASSUME NEW s \in Sweepers, CommitRecovered(s) PROVE IntentsTyped'
    BY <1>6, CommittedOK, Members DEF CommitRecovered
  <1>7. ASSUME NEW e \in Effects, SettleStopped(e) PROVE IntentsTyped'
    BY <1>7, RecordedOK DEF SettleStopped
  <1>8. ASSUME NEW c \in Calls, Learn(c) \/ Refuse(c) \/ Wait(c) \/ Acquire(c) \/
    Abandon(c) \/ CancelCall(c)
       PROVE  UNCHANGED <<effect>>
    BY <1>8 DEF Learn, Goto, Refuse, Wait, Acquire, Send, Abandon, Expired, Landed,
      CancelCall
  <1>9. ASSUME NEW a \in Actors, Judge(a) \/ Invoke(a) \/ Apply(a) \/ AdapterFails(a)
       PROVE  UNCHANGED <<effect>>
    BY <1>9 DEF Judge, Goto, Invoke, Send, Apply, AdapterFails
  <1>10. ASSUME NEW s \in Sweepers, ReleaseRun(s) \/ Defer(s) \/ CrashSweep(s)
       PROVE  UNCHANGED <<effect>>
    BY <1>10 DEF ReleaseRun, Goto, Defer, Landed, CrashSweep
  <1>11. ASSUME NEW s \in Sweepers, NEW e \in Effects, ClaimRecovery(s, e)
       PROVE  UNCHANGED <<effect>>
    BY <1>11 DEF ClaimRecovery, Goto
  <1>12. ASSUME NEW e \in Effects, ClaimExpires(e)
       PROVE  UNCHANGED <<effect>>
    BY <1>12 DEF ClaimExpires
  <1>13. ASSUME NEW r \in Runs, WorkerEnds(r) \/ WorkerFenced(r) \/ CancelRun(r) \/
    RecoverPause(r) \/ RunLeaseExpires(r) \/ CrashWorker(r)
       PROVE  UNCHANGED <<effect>>
    BY <1>13 DEF WorkerEnds, WorkerFenced, CancelRun, RecoverPause, RunLeaseExpires,
      CrashWorker
  <1>14. ASSUME UNCHANGED <<effect>> PROVE IntentsTyped'
    BY <1>14 DEF IntentsTyped, Typed
  <1>15. QED
    BY <1>1, <1>2, <1>3, <1>4, <1>5, <1>6, <1>7, <1>8, <1>9, <1>10, <1>11, <1>12,
      <1>13, <1>14 DEF Next, CallStep, ActorStep, SweepStep, RunStep

\* Claims: acquire_invocation_claim, abandon_invocation_claim, release_recovery_claim.
LEMMA ClaimsStep ==
    ASSUME EffectAssumption, Typed, Next
    PROVE  ClaimsTyped'
  <1>1. ASSUME NEW c \in Calls, Intend(c) PROVE ClaimsTyped'
    BY <1>1, Members DEF Intend, Asking, EffectAssumption, Typed, ClaimsTyped, Claim
  <1>2. ASSUME NEW c \in Calls, Retake(c) PROVE ClaimsTyped'
    <2>1. KeyOf[c] \in Effects /\ effect[KeyOf[c]].st = "open"
      BY <1>2 DEF EffectAssumption, Retake
    <2>2. CASE PolicyOf[KeyOf[c]] = "never_replay"
      BY <2>1, <2>2, <1>2, RecordedOK DEF Retake
    <2>3. [owner |-> RunOf[c], by |-> c, fresh |-> TRUE] \in Claim
      BY Members DEF EffectAssumption, Claim
    <2>4. CASE PolicyOf[KeyOf[c]] # "never_replay"
      BY <2>1, <2>4, <1>2, <2>3 DEF Retake, Typed, ClaimsTyped
    <2> QED BY <2>2, <2>4
  <1>3. ASSUME NEW c \in Calls, Commit(c) PROVE ClaimsTyped'
    <2>1. target[c] = KeyOf[c] /\ c \in Actors
      BY Members DEF Typed, Targets
    <2> QED BY <2>1, <1>3, CommittedOK DEF Commit
  <1>4. ASSUME NEW c \in Calls, Abandon(c) PROVE ClaimsTyped'
    BY <1>4, ExpiredOK DEF Abandon
  <1>5. ASSUME NEW c \in Calls, CancelCall(c) PROVE ClaimsTyped'
    <2>1. Expired(c) \/ claim' = claim
      BY <1>5 DEF CancelCall
    <2> QED BY <2>1, ExpiredOK DEF Typed, ClaimsTyped
  <1>6. ASSUME NEW a \in Actors, JudgeUnknown(a) PROVE ClaimsTyped'
    <2>1. MarkUnknown(a) /\ pc[a] \in Engaged
      BY <1>6 DEF JudgeUnknown, Judging, Engaged, Guarded
    <2> QED BY <2>1, MarkUnknownOK
  <1>7. ASSUME NEW s \in Sweepers, GiveUp(s) PROVE ClaimsTyped'
    <2>1. MarkUnknown(s) /\ pc[s] \in Engaged /\ s \in Actors
      BY <1>7, Members DEF GiveUp, Engaged
    <2> QED BY <2>1, MarkUnknownOK
  <1>8. ASSUME NEW s \in Sweepers, CommitRecovered(s) PROVE ClaimsTyped'
    BY <1>8, CommittedOK, Members DEF CommitRecovered
  <1>9. ASSUME NEW s \in Sweepers, Defer(s) PROVE ClaimsTyped'
    BY <1>9, Members DEF Defer, Typed, ClaimsTyped, Claim
  <1>10. ASSUME NEW s \in Sweepers, NEW e \in Effects, ClaimRecovery(s, e) PROVE
    ClaimsTyped'
    BY <1>10, Members DEF ClaimRecovery, Typed, ClaimsTyped, Claim
  <1>11. ASSUME NEW e \in Effects, SettleStopped(e) PROVE ClaimsTyped'
    BY <1>11, RecordedOK DEF SettleStopped
  <1>12. ASSUME NEW e \in Effects, ClaimExpires(e) PROVE ClaimsTyped'
    <2> DEFINE x == [claim[e] EXCEPT !.fresh = FALSE]
    <2>1. claim[e] \in Claim /\ claim' = [claim EXCEPT ![e] = x]
      BY <1>12 DEF ClaimExpires, Typed, ClaimsTyped
    <2>2. x \in Claim
      BY <2>1 DEF Claim
    <2> HIDE DEF x
    <2> QED BY <2>1, <2>2 DEF Typed, ClaimsTyped
  <1>13. ASSUME NEW c \in Calls, Learn(c) \/ Refuse(c) \/ Wait(c) \/ Acquire(c)
       PROVE  UNCHANGED <<claim>>
    BY <1>13 DEF Learn, Goto, Refuse, Wait, Acquire, Send
  <1>14. ASSUME NEW a \in Actors, Judge(a) \/ Invoke(a) \/ Apply(a) \/ AdapterFails(a)
       PROVE  UNCHANGED <<claim>>
    BY <1>14 DEF Judge, Goto, Invoke, Send, Apply, AdapterFails
  <1>15. ASSUME NEW s \in Sweepers, ReleaseRun(s) \/ CrashSweep(s)
       PROVE  UNCHANGED <<claim>>
    BY <1>15 DEF ReleaseRun, Goto, CrashSweep
  <1>16. ASSUME NEW r \in Runs, WorkerEnds(r) \/ WorkerFenced(r) \/ CancelRun(r) \/
    RecoverPause(r) \/ RunLeaseExpires(r) \/ CrashWorker(r)
       PROVE  UNCHANGED <<claim>>
    BY <1>16 DEF WorkerEnds, WorkerFenced, CancelRun, RecoverPause, RunLeaseExpires,
      CrashWorker
  <1>17. ASSUME UNCHANGED <<claim>> PROVE ClaimsTyped'
    BY <1>17 DEF ClaimsTyped, Typed
  <1>18. QED
    BY <1>1, <1>2, <1>3, <1>4, <1>5, <1>6, <1>7, <1>8, <1>9, <1>10, <1>11, <1>12,
      <1>13, <1>14, <1>15, <1>16, <1>17 DEF Next, CallStep, ActorStep, SweepStep,
      RunStep

\* An outcome ends the claim in the same transaction.
LEMMA OpenStep ==
    ASSUME EffectAssumption, Typed, Next
    PROVE  ClaimsOpen'
  <1>1. ASSUME NEW c \in Calls, Intend(c) PROVE ClaimsOpen'
    BY <1>1 DEF Intend, Asking, Typed, ClaimsOpen, ClaimsTyped, IntentsTyped, Claim,
      Intent
  <1>2. ASSUME NEW c \in Calls, Retake(c) PROVE ClaimsOpen'
    <2>1. KeyOf[c] \in Effects /\ effect[KeyOf[c]].st = "open"
      BY <1>2 DEF EffectAssumption, Retake
    <2>2. CASE PolicyOf[KeyOf[c]] = "never_replay"
      BY <2>1, <2>2, <1>2, RecordedOK DEF Retake
    <2>3. CASE PolicyOf[KeyOf[c]] # "never_replay"
      BY <2>1, <2>3, <1>2 DEF Retake, Typed, ClaimsOpen, ClaimsTyped
    <2> QED BY <2>2, <2>3
  <1>3. ASSUME NEW c \in Calls, Commit(c) PROVE ClaimsOpen'
    <2>1. target[c] = KeyOf[c] /\ c \in Actors
      BY Members DEF Typed, Targets
    <2> QED BY <2>1, <1>3, CommittedOK DEF Commit
  <1>4. ASSUME NEW c \in Calls, Abandon(c) PROVE ClaimsOpen'
    BY <1>4, ExpiredOK DEF Abandon, Typed, ClaimsOpen
  <1>5. ASSUME NEW c \in Calls, CancelCall(c) PROVE ClaimsOpen'
    <2>1. /\ Expired(c) \/ claim' = claim
          /\ effect' = effect
      BY <1>5 DEF CancelCall
    <2> QED BY <2>1, ExpiredOK DEF Typed, ClaimsOpen
  <1>6. ASSUME NEW a \in Actors, JudgeUnknown(a) PROVE ClaimsOpen'
    <2>1. MarkUnknown(a) /\ pc[a] \in Engaged
      BY <1>6 DEF JudgeUnknown, Judging, Engaged, Guarded
    <2> QED BY <2>1, MarkUnknownOK
  <1>7. ASSUME NEW s \in Sweepers, GiveUp(s) PROVE ClaimsOpen'
    <2>1. MarkUnknown(s) /\ pc[s] \in Engaged /\ s \in Actors
      BY <1>7, Members DEF GiveUp, Engaged
    <2> QED BY <2>1, MarkUnknownOK
  <1>8. ASSUME NEW s \in Sweepers, CommitRecovered(s) PROVE ClaimsOpen'
    BY <1>8, CommittedOK, Members DEF CommitRecovered
  <1>9. ASSUME NEW s \in Sweepers, Defer(s) PROVE ClaimsOpen'
    <2>1. effect' = effect /\ claim \in [Effects -> Claim] /\ ClaimsOpen
      BY <1>9 DEF Defer, Goto, Typed, ClaimsTyped
    <2>2. claim' = claim \/ claim' = [claim EXCEPT ![target[s]].by = None, ![target[s]].fresh = TRUE]
      BY <1>9 DEF Defer
    <2>3. \A e \in Effects : claim'[e].by \in {None, claim[e].by}
      BY <2>1, <2>2 DEF Claim
    <2> QED BY <2>1, <2>3 DEF ClaimsOpen
  <1>10. ASSUME NEW s \in Sweepers, NEW e \in Effects, ClaimRecovery(s, e) PROVE
    ClaimsOpen'
    BY <1>10 DEF ClaimRecovery, Typed, ClaimsOpen, ClaimsTyped, IntentsTyped, Claim,
      Intent
  <1>11. ASSUME NEW e \in Effects, SettleStopped(e) PROVE ClaimsOpen'
    BY <1>11, RecordedOK DEF SettleStopped
  <1>12. ASSUME NEW e \in Effects, ClaimExpires(e) PROVE ClaimsOpen'
    BY <1>12 DEF ClaimExpires, Typed, ClaimsOpen, ClaimsTyped, IntentsTyped, Claim,
      Intent
  <1>13. ASSUME NEW c \in Calls, Learn(c) \/ Refuse(c) \/ Wait(c) \/ Acquire(c)
       PROVE  UNCHANGED <<effect, claim>>
    BY <1>13 DEF Learn, Goto, Refuse, Wait, Acquire, Send
  <1>14. ASSUME NEW a \in Actors, Judge(a) \/ Invoke(a) \/ Apply(a) \/ AdapterFails(a)
       PROVE  UNCHANGED <<effect, claim>>
    BY <1>14 DEF Judge, Goto, Invoke, Send, Apply, AdapterFails
  <1>15. ASSUME NEW s \in Sweepers, ReleaseRun(s) \/ CrashSweep(s)
       PROVE  UNCHANGED <<effect, claim>>
    BY <1>15 DEF ReleaseRun, Goto, CrashSweep
  <1>16. ASSUME NEW r \in Runs, WorkerEnds(r) \/ WorkerFenced(r) \/ CancelRun(r) \/
    RecoverPause(r) \/ RunLeaseExpires(r) \/ CrashWorker(r)
       PROVE  UNCHANGED <<effect, claim>>
    BY <1>16 DEF WorkerEnds, WorkerFenced, CancelRun, RecoverPause, RunLeaseExpires,
      CrashWorker
  <1>17. ASSUME UNCHANGED <<effect, claim>> PROVE ClaimsOpen'
    BY <1>17 DEF ClaimsOpen, Typed
  <1>18. QED
    BY <1>1, <1>2, <1>3, <1>4, <1>5, <1>6, <1>7, <1>8, <1>9, <1>10, <1>11, <1>12,
      <1>13, <1>14, <1>15, <1>16, <1>17 DEF Next, CallStep, ActorStep, SweepStep,
      RunStep

\* What the adapters did.
LEMMA WorldStep ==
    ASSUME EffectAssumption, Typed, Next
    PROVE  WorldTyped'
  <1>1. ASSUME NEW a \in Actors, Apply(a) PROVE WorldTyped'
    <2>1. receipt' \in [Effects -> BOOLEAN]
      BY <1>1 DEF Apply, Typed, WorldTyped
    <2>2. applied' \in [Effects -> 0 .. 2]
      <3> DEFINE e == target[a]
                 n == IF First(e) /\ applied[e] < 2 THEN applied[e] + 1 ELSE applied[e]
      <3>1. n \in 0 .. 2
        <4>1. applied[e] \in 0 .. 2
          BY <1>1 DEF Apply, Typed, Targets, WorldTyped
        <4> QED BY <4>1
      <3>2. applied' = [applied EXCEPT ![e] = n]
        BY <1>1 DEF Apply
      <3> QED BY <3>1, <3>2 DEF Typed, WorldTyped
    <2> QED BY <2>1, <2>2 DEF WorldTyped
  <1>2. ASSUME NEW c \in Calls, Intend(c) \/ Learn(c) \/ Refuse(c) \/ Wait(c) \/
    Retake(c) \/ Acquire(c) \/ Commit(c) \/ Abandon(c) \/ CancelCall(c)
       PROVE  UNCHANGED <<receipt, applied>>
    BY <1>2 DEF Intend, Goto, Learn, Refuse, Wait, Retake, Recorded, Acquire, Send,
      Commit, Landed, Abandon, Expired, CancelCall
  <1>3. ASSUME NEW a \in Actors, Judge(a) \/ JudgeUnknown(a) \/ Invoke(a) \/
    AdapterFails(a)
       PROVE  UNCHANGED <<receipt, applied>>
    BY <1>3 DEF Judge, Goto, JudgeUnknown, MarkUnknown, Recorded, Invoke, Send,
      AdapterFails
  <1>4. ASSUME NEW s \in Sweepers, GiveUp(s) \/ CommitRecovered(s) \/ ReleaseRun(s) \/
    Defer(s) \/ CrashSweep(s)
       PROVE  UNCHANGED <<receipt, applied>>
    BY <1>4 DEF GiveUp, MarkUnknown, Recorded, Goto, CommitRecovered, Landed,
      ReleaseRun, Defer, CrashSweep
  <1>5. ASSUME NEW s \in Sweepers, NEW e \in Effects, ClaimRecovery(s, e)
       PROVE  UNCHANGED <<receipt, applied>>
    BY <1>5 DEF ClaimRecovery, Goto
  <1>6. ASSUME NEW e \in Effects, SettleStopped(e) \/ ClaimExpires(e)
       PROVE  UNCHANGED <<receipt, applied>>
    BY <1>6 DEF SettleStopped, Recorded, ClaimExpires
  <1>7. ASSUME NEW r \in Runs, WorkerEnds(r) \/ WorkerFenced(r) \/ CancelRun(r) \/
    RecoverPause(r) \/ RunLeaseExpires(r) \/ CrashWorker(r)
       PROVE  UNCHANGED <<receipt, applied>>
    BY <1>7 DEF WorkerEnds, WorkerFenced, CancelRun, RecoverPause, RunLeaseExpires,
      CrashWorker
  <1>8. ASSUME UNCHANGED <<receipt, applied>> PROVE WorldTyped'
    BY <1>8 DEF WorldTyped, Typed
  <1>9. QED
    BY <1>1, <1>2, <1>3, <1>4, <1>5, <1>6, <1>7, <1>8 DEF Next, CallStep, ActorStep,
      SweepStep, RunStep

\* Where calls and sweeps are: the handlers' program counters and invocations.
LEMMA ActorsStep ==
    ASSUME EffectAssumption, Typed, Next
    PROVE  ActorsTyped'
  <1>1. ASSUME NEW c \in Calls, Intend(c) PROVE ActorsTyped'
    BY <1>1 DEF Intend, Goto, Typed, ActorsTyped, Actors, Busy, Over, Guarded
  <1>2. ASSUME NEW c \in Calls, Learn(c) PROVE ActorsTyped'
    BY <1>2 DEF Learn, Goto, Typed, ActorsTyped, Actors, Busy, Over, Guarded
  <1>3. ASSUME NEW c \in Calls, Refuse(c) PROVE ActorsTyped'
    BY <1>3 DEF Refuse, Goto, Typed, ActorsTyped, Actors, Busy, Over, Guarded
  <1>4. ASSUME NEW c \in Calls, Wait(c) PROVE ActorsTyped'
    BY <1>4 DEF Wait, Goto, Typed, ActorsTyped, Actors, Busy, Over, Guarded
  <1>5. ASSUME NEW c \in Calls, Retake(c) PROVE ActorsTyped'
    BY <1>5 DEF Retake, Retaken, Goto, Typed, ActorsTyped, Actors, Busy, Over, Guarded
  <1>6. ASSUME NEW c \in Calls, Acquire(c) PROVE ActorsTyped'
    BY <1>6 DEF Acquire, Send, Goto, Typed, ActorsTyped, Actors, Busy, Over, Guarded
  <1>7. ASSUME NEW c \in Calls, Commit(c) PROVE ActorsTyped'
    BY <1>7 DEF Commit, Landed, Goto, Typed, ActorsTyped, Actors, Busy, Over, Guarded
  <1>8. ASSUME NEW c \in Calls, Abandon(c) PROVE ActorsTyped'
    BY <1>8 DEF Abandon, Landed, Goto, Typed, ActorsTyped, Actors, Busy, Over, Guarded
  <1>9. ASSUME NEW c \in Calls, CancelCall(c) PROVE ActorsTyped'
    BY <1>9 DEF CancelCall, Goto, Typed, ActorsTyped, Actors, Busy, Over, Guarded
  <1>10. ASSUME NEW a \in Actors, Judge(a) PROVE ActorsTyped'
    BY <1>10 DEF Judge, Goto, Typed, ActorsTyped, Actors, Busy, Over, Guarded
  <1>11. ASSUME NEW a \in Actors, JudgeUnknown(a) PROVE ActorsTyped'
    BY <1>11 DEF JudgeUnknown, Goto, Typed, ActorsTyped, Actors, Busy, Over, Guarded
  <1>12. ASSUME NEW a \in Actors, Invoke(a) PROVE ActorsTyped'
    BY <1>12 DEF Invoke, Send, Goto, Typed, ActorsTyped, Actors, Busy, Over, Guarded
  <1>13. ASSUME NEW a \in Actors, Apply(a) PROVE ActorsTyped'
    BY <1>13 DEF Apply, Typed, ActorsTyped, Actors, Busy, Over, Guarded
  <1>14. ASSUME NEW a \in Actors, AdapterFails(a) PROVE ActorsTyped'
    BY <1>14 DEF AdapterFails, Typed, ActorsTyped, Actors, Busy, Over, Guarded
  <1>15. ASSUME NEW s \in Sweepers, GiveUp(s) PROVE ActorsTyped'
    BY <1>15 DEF GiveUp, Goto, Typed, ActorsTyped, Actors, Busy, Over, Guarded
  <1>16. ASSUME NEW s \in Sweepers, CommitRecovered(s) PROVE ActorsTyped'
    BY <1>16 DEF CommitRecovered, Landed, Goto, Typed, ActorsTyped, Actors, Busy,
      Over, Guarded
  <1>17. ASSUME NEW s \in Sweepers, ReleaseRun(s) PROVE ActorsTyped'
    BY <1>17 DEF ReleaseRun, Goto, Typed, ActorsTyped, Actors, Busy, Over, Guarded
  <1>18. ASSUME NEW s \in Sweepers, Defer(s) PROVE ActorsTyped'
    BY <1>18 DEF Defer, Landed, Goto, Typed, ActorsTyped, Actors, Busy, Over, Guarded
  <1>19. ASSUME NEW s \in Sweepers, CrashSweep(s) PROVE ActorsTyped'
    BY <1>19 DEF CrashSweep, Goto, Typed, ActorsTyped, Actors, Busy, Over, Guarded
  <1>20. ASSUME NEW s \in Sweepers, NEW e \in Effects, ClaimRecovery(s, e) PROVE
    ActorsTyped'
    BY <1>20 DEF ClaimRecovery, Goto, Typed, ActorsTyped, Actors, Busy, Over, Guarded
  <1>21. ASSUME NEW r \in Runs, WorkerEnds(r) PROVE ActorsTyped'
    BY <1>21 DEF WorkerEnds, Typed, ActorsTyped, Actors, Busy, Over, Guarded
  <1>22. ASSUME NEW r \in Runs, WorkerFenced(r) PROVE ActorsTyped'
    BY <1>22 DEF WorkerFenced, Typed, ActorsTyped, Actors, Busy, Over, Guarded
  <1>23. ASSUME NEW r \in Runs, CrashWorker(r) PROVE ActorsTyped'
    BY <1>23 DEF CrashWorker, Typed, ActorsTyped, Actors, Busy, Over, Guarded
  <1>24. ASSUME NEW e \in Effects, SettleStopped(e) \/ ClaimExpires(e)
       PROVE  UNCHANGED <<pc, target, flight, alive>>
    BY <1>24 DEF SettleStopped, Recorded, ClaimExpires
  <1>25. ASSUME NEW r \in Runs, CancelRun(r) \/ RecoverPause(r) \/ RunLeaseExpires(r)
       PROVE  UNCHANGED <<pc, target, flight, alive>>
    BY <1>25 DEF CancelRun, RecoverPause, RunLeaseExpires
  <1>26. ASSUME UNCHANGED <<pc, target, flight, alive>> PROVE ActorsTyped'
    BY <1>26 DEF ActorsTyped, Typed
  <1>27. QED
    BY <1>1, <1>2, <1>3, <1>4, <1>5, <1>6, <1>7, <1>8, <1>9, <1>10, <1>11, <1>12,
      <1>13, <1>14, <1>15, <1>16, <1>17, <1>18, <1>19, <1>20, <1>21, <1>22, <1>23,
      <1>24, <1>25, <1>26 DEF Next, CallStep, ActorStep, SweepStep, RunStep

\* An intent is for ever; only its outcome is added.
LEMMA IntentStays ==
    ASSUME EffectAssumption, Typed, Next
    PROVE  \A e \in Effects : effect[e].st # "none" => effect'[e].st # "none"
  <1>1. ASSUME NEW c \in Calls, Intend(c) PROVE \A e \in Effects : effect[e].st #
    "none" => effect'[e].st # "none"
    BY <1>1 DEF Intend, Asking, Typed, IntentsTyped, Intent
  <1>2. ASSUME NEW c \in Calls, Retake(c) PROVE \A e \in Effects : effect[e].st #
    "none" => effect'[e].st # "none"
    BY <1>2 DEF Retake, Asking, Recorded, Typed, IntentsTyped, Intent
  <1>3. ASSUME NEW c \in Calls, Commit(c) PROVE \A e \in Effects : effect[e].st #
    "none" => effect'[e].st # "none"
    BY <1>3 DEF Commit, Recorded, Typed, IntentsTyped, Intent
  <1>4. ASSUME NEW a \in Actors, JudgeUnknown(a) PROVE \A e \in Effects : effect[e].st
    # "none" => effect'[e].st # "none"
    BY <1>4 DEF JudgeUnknown, MarkUnknown, Recorded, Typed, IntentsTyped, Intent
  <1>5. ASSUME NEW s \in Sweepers, GiveUp(s) PROVE \A e \in Effects : effect[e].st #
    "none" => effect'[e].st # "none"
    BY <1>5 DEF GiveUp, MarkUnknown, Recorded, Typed, IntentsTyped, Intent
  <1>6. ASSUME NEW s \in Sweepers, CommitRecovered(s) PROVE \A e \in Effects :
    effect[e].st # "none" => effect'[e].st # "none"
    BY <1>6 DEF CommitRecovered, Recorded, Typed, IntentsTyped, Intent
  <1>7. ASSUME NEW e \in Effects, SettleStopped(e) PROVE \A x \in Effects :
    effect[x].st # "none" => effect'[x].st # "none"
    BY <1>7 DEF SettleStopped, Recorded, Typed, IntentsTyped, Intent
  <1>8. ASSUME NEW c \in Calls, Learn(c) \/ Refuse(c) \/ Wait(c) \/ Acquire(c) \/
    Abandon(c) \/ CancelCall(c)
       PROVE  UNCHANGED <<effect>>
    BY <1>8 DEF Learn, Goto, Refuse, Wait, Acquire, Send, Abandon, Expired, Landed,
      CancelCall
  <1>9. ASSUME NEW a \in Actors, Judge(a) \/ Invoke(a) \/ Apply(a) \/ AdapterFails(a)
       PROVE  UNCHANGED <<effect>>
    BY <1>9 DEF Judge, Goto, Invoke, Send, Apply, AdapterFails
  <1>10. ASSUME NEW s \in Sweepers, ReleaseRun(s) \/ Defer(s) \/ CrashSweep(s)
       PROVE  UNCHANGED <<effect>>
    BY <1>10 DEF ReleaseRun, Goto, Defer, Landed, CrashSweep
  <1>11. ASSUME NEW s \in Sweepers, NEW e \in Effects, ClaimRecovery(s, e)
       PROVE  UNCHANGED <<effect>>
    BY <1>11 DEF ClaimRecovery, Goto
  <1>12. ASSUME NEW e \in Effects, ClaimExpires(e)
       PROVE  UNCHANGED <<effect>>
    BY <1>12 DEF ClaimExpires
  <1>13. ASSUME NEW r \in Runs, WorkerEnds(r) \/ WorkerFenced(r) \/ CancelRun(r) \/
    RecoverPause(r) \/ RunLeaseExpires(r) \/ CrashWorker(r)
       PROVE  UNCHANGED <<effect>>
    BY <1>13 DEF WorkerEnds, WorkerFenced, CancelRun, RecoverPause, RunLeaseExpires,
      CrashWorker
  <1>14. ASSUME UNCHANGED <<effect>> PROVE \A e \in Effects : effect[e].st # "none" => effect'[e].st # "none"
    BY <1>14 DEF Typed
  <1>15. QED
    BY <1>1, <1>2, <1>3, <1>4, <1>5, <1>6, <1>7, <1>8, <1>9, <1>10, <1>11, <1>12,
      <1>13, <1>14 DEF Next, CallStep, ActorStep, SweepStep, RunStep

\* Nobody gets past an intent that was not committed: begin_intent comes first.
LEMMA TargetsStep ==
    ASSUME EffectAssumption, Typed, Next
    PROVE  Targets'
  <1>0. \A e \in Effects : effect[e].st # "none" => effect'[e].st # "none"
    BY IntentStays
  <1>1. ASSUME NEW c \in Calls, Intend(c) PROVE Targets'
    BY <1>1, <1>0, Members DEF Intend, Asking, Goto, IntentsTyped, Intent,
      EffectAssumption, Typed, ActorsTyped, Targets, Engaged, Guarded
  <1>2. ASSUME NEW c \in Calls, Learn(c) PROVE Targets'
    BY <1>2, <1>0, Members DEF Learn, Asking, Goto, Typed, ActorsTyped, Targets,
      Engaged, Guarded
  <1>3. ASSUME NEW c \in Calls, Refuse(c) PROVE Targets'
    BY <1>3, <1>0, Members DEF Refuse, Asking, Goto, Typed, ActorsTyped, Targets,
      Engaged, Guarded
  <1>4. ASSUME NEW c \in Calls, Wait(c) PROVE Targets'
    BY <1>4, <1>0, Members DEF Wait, Asking, Goto, Typed, ActorsTyped, Targets,
      Engaged, Guarded
  <1>5. ASSUME NEW c \in Calls, Retake(c) PROVE Targets'
    BY <1>5, <1>0, Members DEF Retake, Asking, Retaken, Goto, Typed, ActorsTyped,
      Targets, Engaged, Guarded
  <1>6. ASSUME NEW c \in Calls, Acquire(c) PROVE Targets'
    BY <1>6, <1>0, Members DEF Acquire, Send, Goto, Typed, ActorsTyped, Targets,
      Engaged, Guarded
  <1>7. ASSUME NEW c \in Calls, Commit(c) PROVE Targets'
    BY <1>7, <1>0, Members DEF Commit, Landed, Goto, Typed, ActorsTyped, Targets,
      Engaged, Guarded
  <1>8. ASSUME NEW c \in Calls, Abandon(c) PROVE Targets'
    BY <1>8, <1>0, Members DEF Abandon, Landed, Goto, Typed, ActorsTyped, Targets,
      Engaged, Guarded
  <1>9. ASSUME NEW c \in Calls, CancelCall(c) PROVE Targets'
    BY <1>9, <1>0, Members DEF CancelCall, Goto, Typed, ActorsTyped, Targets, Engaged,
      Guarded
  <1>10. ASSUME NEW a \in Actors, Judge(a) PROVE Targets'
    BY <1>10, <1>0, Members DEF Judge, Judging, Goto, Typed, ActorsTyped, Targets,
      Engaged, Guarded
  <1>11. ASSUME NEW a \in Actors, JudgeUnknown(a) PROVE Targets'
    BY <1>11, <1>0, Members DEF JudgeUnknown, Judging, Goto, Typed, ActorsTyped,
      Targets, Engaged, Guarded
  <1>12. ASSUME NEW a \in Actors, Invoke(a) PROVE Targets'
    BY <1>12, <1>0, Members DEF Invoke, Send, Goto, Typed, ActorsTyped, Targets,
      Engaged, Guarded
  <1>13. ASSUME NEW a \in Actors, Apply(a) PROVE Targets'
    BY <1>13, <1>0, Members DEF Apply, Typed, ActorsTyped, Targets, Engaged, Guarded
  <1>14. ASSUME NEW a \in Actors, AdapterFails(a) PROVE Targets'
    BY <1>14, <1>0, Members DEF AdapterFails, Typed, ActorsTyped, Targets, Engaged,
      Guarded
  <1>15. ASSUME NEW s \in Sweepers, GiveUp(s) PROVE Targets'
    BY <1>15, <1>0, Members DEF GiveUp, Goto, Typed, ActorsTyped, Targets, Engaged,
      Guarded
  <1>16. ASSUME NEW s \in Sweepers, CommitRecovered(s) PROVE Targets'
    BY <1>16, <1>0, Members DEF CommitRecovered, Landed, Goto, Answered, Typed,
      ActorsTyped, Targets, Engaged, Guarded
  <1>17. ASSUME NEW s \in Sweepers, ReleaseRun(s) PROVE Targets'
    BY <1>17, <1>0, Members DEF ReleaseRun, Goto, Typed, ActorsTyped, Targets,
      Engaged, Guarded
  <1>18. ASSUME NEW s \in Sweepers, Defer(s) PROVE Targets'
    BY <1>18, <1>0, Members DEF Defer, Landed, Goto, Typed, ActorsTyped, Targets,
      Engaged, Guarded
  <1>19. ASSUME NEW s \in Sweepers, CrashSweep(s) PROVE Targets'
    BY <1>19, <1>0, Members DEF CrashSweep, Goto, Typed, ActorsTyped, Targets,
      Engaged, Guarded
  <1>20. ASSUME NEW s \in Sweepers, NEW e \in Effects, ClaimRecovery(s, e) PROVE
    Targets'
    BY <1>20, <1>0, Members DEF ClaimRecovery, Goto, Typed, ActorsTyped, Targets,
      Engaged, Guarded
  <1>21. ASSUME NEW r \in Runs, WorkerEnds(r) PROVE Targets'
    BY <1>21, <1>0, Members DEF WorkerEnds, Typed, ActorsTyped, Targets, Engaged,
      Guarded
  <1>22. ASSUME NEW r \in Runs, WorkerFenced(r) PROVE Targets'
    BY <1>22, <1>0, Members DEF WorkerFenced, Typed, ActorsTyped, Targets, Engaged,
      Guarded
  <1>23. ASSUME NEW r \in Runs, CrashWorker(r) PROVE Targets'
    BY <1>23, <1>0, Members DEF CrashWorker, Typed, ActorsTyped, Targets, Engaged,
      Guarded
  <1>24. ASSUME NEW e \in Effects, SettleStopped(e) \/ ClaimExpires(e)
       PROVE  UNCHANGED <<pc, target, flight>>
    BY <1>24 DEF SettleStopped, Recorded, ClaimExpires
  <1>25. ASSUME NEW r \in Runs, CancelRun(r) \/ RecoverPause(r) \/ RunLeaseExpires(r)
       PROVE  UNCHANGED <<pc, target, flight>>
    BY <1>25 DEF CancelRun, RecoverPause, RunLeaseExpires
  <1>26. ASSUME UNCHANGED <<pc, target, flight>> PROVE Targets'
    BY <1>26, <1>0 DEF Targets, Typed
  <1>27. QED
    BY <1>1, <1>2, <1>3, <1>4, <1>5, <1>6, <1>7, <1>8, <1>9, <1>10, <1>11, <1>12,
      <1>13, <1>14, <1>15, <1>16, <1>17, <1>18, <1>19, <1>20, <1>21, <1>22, <1>23,
      <1>24, <1>25, <1>26 DEF Next, CallStep, ActorStep, SweepStep, RunStep

\* Calls do not release runs, sweeps do not wait.
LEMMA RolesStep ==
    ASSUME EffectAssumption, Typed, Next
    PROVE  Roles'
  <1>1. ASSUME NEW c \in Calls, Intend(c) PROVE Roles'
    BY <1>1, Members DEF Intend, Asking, Goto, Typed, ActorsTyped, Roles
  <1>2. ASSUME NEW c \in Calls, Learn(c) PROVE Roles'
    BY <1>2, Members DEF Learn, Asking, Goto, Typed, ActorsTyped, Roles
  <1>3. ASSUME NEW c \in Calls, Refuse(c) PROVE Roles'
    BY <1>3, Members DEF Refuse, Asking, Goto, Typed, ActorsTyped, Roles
  <1>4. ASSUME NEW c \in Calls, Wait(c) PROVE Roles'
    BY <1>4, Members DEF Wait, Asking, Goto, Typed, ActorsTyped, Roles
  <1>5. ASSUME NEW c \in Calls, Retake(c) PROVE Roles'
    BY <1>5, Members DEF Retake, Asking, Retaken, Goto, Typed, ActorsTyped, Roles
  <1>6. ASSUME NEW c \in Calls, Acquire(c) PROVE Roles'
    BY <1>6, Members DEF Acquire, Send, Goto, Typed, ActorsTyped, Roles
  <1>7. ASSUME NEW c \in Calls, Commit(c) PROVE Roles'
    BY <1>7, Members DEF Commit, Landed, Goto, Typed, ActorsTyped, Roles
  <1>8. ASSUME NEW c \in Calls, Abandon(c) PROVE Roles'
    BY <1>8, Members DEF Abandon, Landed, Goto, Typed, ActorsTyped, Roles
  <1>9. ASSUME NEW c \in Calls, CancelCall(c) PROVE Roles'
    BY <1>9, Members DEF CancelCall, Goto, Typed, ActorsTyped, Roles
  <1>10. ASSUME NEW a \in Actors, Judge(a) PROVE Roles'
    BY <1>10, Members DEF Judge, Judging, Goto, Typed, ActorsTyped, Roles
  <1>11. ASSUME NEW a \in Actors, JudgeUnknown(a) PROVE Roles'
    BY <1>11, Members DEF JudgeUnknown, Judging, Goto, Typed, ActorsTyped, Roles
  <1>12. ASSUME NEW a \in Actors, Invoke(a) PROVE Roles'
    BY <1>12, Members DEF Invoke, Send, Goto, Typed, ActorsTyped, Roles
  <1>13. ASSUME NEW a \in Actors, Apply(a) PROVE Roles'
    BY <1>13, Members DEF Apply, Typed, ActorsTyped, Roles
  <1>14. ASSUME NEW a \in Actors, AdapterFails(a) PROVE Roles'
    BY <1>14, Members DEF AdapterFails, Typed, ActorsTyped, Roles
  <1>15. ASSUME NEW s \in Sweepers, GiveUp(s) PROVE Roles'
    BY <1>15, Members DEF GiveUp, Goto, Typed, ActorsTyped, Roles
  <1>16. ASSUME NEW s \in Sweepers, CommitRecovered(s) PROVE Roles'
    BY <1>16, Members DEF CommitRecovered, Landed, Goto, Typed, ActorsTyped, Roles
  <1>17. ASSUME NEW s \in Sweepers, ReleaseRun(s) PROVE Roles'
    BY <1>17, Members DEF ReleaseRun, Goto, Typed, ActorsTyped, Roles
  <1>18. ASSUME NEW s \in Sweepers, Defer(s) PROVE Roles'
    BY <1>18, Members DEF Defer, Landed, Goto, Typed, ActorsTyped, Roles
  <1>19. ASSUME NEW s \in Sweepers, CrashSweep(s) PROVE Roles'
    BY <1>19, Members DEF CrashSweep, Goto, Typed, ActorsTyped, Roles
  <1>20. ASSUME NEW s \in Sweepers, NEW e \in Effects, ClaimRecovery(s, e) PROVE
    Roles'
    BY <1>20, Members DEF ClaimRecovery, Goto, Typed, ActorsTyped, Roles
  <1>21. ASSUME NEW r \in Runs, WorkerEnds(r) PROVE Roles'
    BY <1>21, Members DEF WorkerEnds, Typed, ActorsTyped, Roles
  <1>22. ASSUME NEW r \in Runs, WorkerFenced(r) PROVE Roles'
    BY <1>22, Members DEF WorkerFenced, Typed, ActorsTyped, Roles
  <1>23. ASSUME NEW r \in Runs, CrashWorker(r) PROVE Roles'
    BY <1>23, Members DEF CrashWorker, CallsOf, EffectAssumption, Typed, ActorsTyped,
      Roles
  <1>24. ASSUME NEW e \in Effects, SettleStopped(e) \/ ClaimExpires(e)
       PROVE  UNCHANGED <<pc>>
    BY <1>24 DEF SettleStopped, Recorded, ClaimExpires
  <1>25. ASSUME NEW r \in Runs, CancelRun(r) \/ RecoverPause(r) \/ RunLeaseExpires(r)
       PROVE  UNCHANGED <<pc>>
    BY <1>25 DEF CancelRun, RecoverPause, RunLeaseExpires
  <1>26. ASSUME UNCHANGED <<pc>> PROVE Roles'
    BY <1>26 DEF Roles, Typed
  <1>27. QED
    BY <1>1, <1>2, <1>3, <1>4, <1>5, <1>6, <1>7, <1>8, <1>9, <1>10, <1>11, <1>12,
      <1>13, <1>14, <1>15, <1>16, <1>17, <1>18, <1>19, <1>20, <1>21, <1>22, <1>23,
      <1>24, <1>25, <1>26 DEF Next, CallStep, ActorStep, SweepStep, RunStep


\* One step of the ledger, of an agent or of the world keeps the types.
LEMMA TypedStep == EffectAssumption /\ Typed /\ [Next]_vars => Typed'
  <1> SUFFICES ASSUME EffectAssumption, Typed, [Next]_vars PROVE Typed'
    OBVIOUS
  <1>1. CASE Next
    BY <1>1, RunsStep, IntentsStep, ClaimsStep, OpenStep, ActorsStep, WorldStep,
       TargetsStep, RolesStep DEF Typed
  <1>2. CASE UNCHANGED vars
    BY <1>2 DEF vars, Typed, RunsTyped, IntentsTyped, ClaimsTyped, ClaimsOpen, ActorsTyped,
                WorldTyped, Targets, Roles
  <1> QED BY <1>1, <1>2

\* The types hold along every behaviour.
LEMMA TypedAlways == Spec => []Typed
  <1>1. Init => Typed
    BY EffectAssumption, TypedInit
  <1>2. Typed /\ [Next]_vars => Typed'
    BY EffectAssumption, TypedStep
  <1> QED BY <1>1, <1>2, PTL DEF Spec

\* EffectTypeOK holds in every state of tool_effect_ledger.py: an outcome ends the claim
\* of its intent, and an intent belongs to one run.
THEOREM EffectTypeCorrect == Spec => []EffectTypeOK
  BY TypedAlways, TypedIsTypeOK, PTL

-----------------------------------------------------------------------------
(* An effect that must not repeat takes place at most once.  AppliedOnce says *)
(* nothing of who may still invoke an adapter, so it is not inductive.        *)

\* Nothing takes place before its intent.
NothingBefore == \A e \in Effects : effect[e].st = "none" => applied[e] = 0

\* A receipt is evidence, and the adapters that keep receipts keep all of them.
ReceiptsTrue ==
    \A e \in Effects :
        /\ receipt[e] => applied[e] > 0
        /\ PolicyOf[e] = "reconcile" => applied[e] <= 1 /\ (applied[e] > 0 => receipt[e])

\* An outcome that is about to be committed as a result took place.
AnswersTrue ==
    \A a \in Actors : pc[a] = "yes" \/ flight[a] = "applied" => applied[target[a]] > 0

\* Has invoked an adapter or will do so.
Sending(a) == pc[a] = "granted" \/ flight[a] = "sent"

OnNeverReplay(a) == target[a] \in Effects /\ PolicyOf[target[a]] = "never_replay"

\* Effects that are never replayed are neither judged nor invoked by a sweep.
NeverJudged ==
    \A a \in Actors : OnNeverReplay(a) =>
        /\ pc[a] \notin {"retaken", "judging", "yes", "no"}
        /\ a \in Sweepers => pc[a] \in {"idle", "claimed"} /\ flight[a] = "none"

\* One call invokes their adapter, and only while nothing has taken place.
OneInvocation ==
    \A a \in Actors : OnNeverReplay(a) /\ Sending(a) =>
        /\ applied[target[a]] = 0
        /\ \A b \in Actors : Sending(b) /\ target[b] = target[a] => b = a

\* A call that has not sent its invocation yet has none in flight.
NotYetSent ==
    \A c \in Calls : pc[c] \in {"idle", "waiting", "granted"} => flight[c] = "none"

OnceInv == /\ Typed /\ NothingBefore /\ ReceiptsTrue /\ AnswersTrue /\ NotYetSent
           /\ NeverJudged /\ OneInvocation /\ AppliedOnce

\* With no call begun nothing is applied.
LEMMA OnceInit == EffectAssumption /\ Init => OnceInv
  <1> SUFFICES ASSUME EffectAssumption, Init PROVE OnceInv
    OBVIOUS
  <1>1. Typed
    BY TypedInit
  <1>2. /\ \A a \in Actors : pc[a] = "idle" /\ flight[a] = "none"
        /\ \A e \in Effects : applied[e] = 0 /\ ~receipt[e]
    BY DEF Init
  <1> QED BY <1>1, <1>2, Members DEF OnceInv, NothingBefore, ReceiptsTrue, AnswersTrue, NotYetSent,
           NeverJudged, OneInvocation, Sending, AppliedOnce

\* The adapter does its work for an intended effect; a receipt that is there, or that nothing
\* has taken place before, makes it once.
LEMMA AppliedOK ==
    ASSUME EffectAssumption, OnceInv, NEW a \in Actors, Apply(a)
    PROVE  /\ target[a] \in Effects /\ effect[target[a]].st # "none"
           /\ applied'[target[a]] > 0
           /\ PolicyOf[target[a]] # "replay_safe" => applied'[target[a]] = 1
           /\ receipt'[target[a]] = (receipt[target[a]] \/ PolicyOf[target[a]] = "reconcile")
           /\ \A e \in Effects : e # target[a] => applied'[e] = applied[e] /\ receipt'[e] = receipt[e]
  <1> DEFINE e == target[a]
             n == IF First(e) /\ applied[e] < 2 THEN applied[e] + 1 ELSE applied[e]
  <1>1. e \in Effects /\ effect[e].st # "none" /\ flight[a] = "sent"
    BY DEF Apply, OnceInv, Typed, Targets
  <1>2. applied \in [Effects -> 0 .. 2] /\ receipt \in [Effects -> BOOLEAN]
    BY DEF OnceInv, Typed, WorldTyped
  <1>3. applied' = [applied EXCEPT ![e] = n]
        /\ receipt' = [receipt EXCEPT ![e] = receipt[e] \/ PolicyOf[e] = "reconcile"]
    BY DEF Apply
  <1>4. n > 0
    <2>1. CASE First(e)
      BY <1>1, <1>2, <2>1
    <2>2. CASE ~First(e)
      BY <1>1, <1>2, <2>2 DEF First, OnceInv, ReceiptsTrue
    <2> QED BY <2>1, <2>2
  <1>5. ASSUME PolicyOf[e] # "replay_safe" PROVE n = 1
    <2>1. CASE PolicyOf[e] = "reconcile"
      BY <1>1, <1>2, <2>1 DEF First, OnceInv, ReceiptsTrue
    <2>2. CASE PolicyOf[e] = "never_replay"
      <3>1. applied[e] = 0
        BY <1>1, <2>2 DEF OnceInv, OneInvocation, OnNeverReplay, Sending
      <3> QED BY <3>1, <2>2 DEF First
    <2> QED BY <1>1, <1>5, <2>1, <2>2 DEF EffectAssumption, Policies
  <1>6. applied'[e] = n /\ \A f \in Effects : f # e => applied'[f] = applied[f]
    BY <1>1, <1>2, <1>3
  <1>7. receipt'[e] = (receipt[e] \/ PolicyOf[e] = "reconcile")
        /\ \A f \in Effects : f # e => receipt'[f] = receipt[f]
    BY <1>1, <1>2, <1>3
  <1> QED BY <1>1, <1>4, <1>5, <1>6, <1>7


\* Evidence and counts stay true: an adapter commits its mutation with its receipt.
LEMMA WorldOnceStep ==
    ASSUME EffectAssumption, OnceInv, Next
    PROVE  (NothingBefore /\ ReceiptsTrue /\ AppliedOnce)'
  <1>0. \A e \in Effects : effect[e].st # "none" => effect'[e].st # "none"
    BY IntentStays DEF OnceInv
  <1>1. ASSUME NEW c \in Calls, Intend(c) PROVE (NothingBefore /\ ReceiptsTrue /\
    AppliedOnce)'
    <2>1. applied' = applied /\ receipt' = receipt
      BY <1>1 DEF Intend
    <2>2. \A e \in Effects : effect'[e].st = "none" => effect[e].st = "none"
      BY <1>0
    <2> QED BY <2>1, <2>2 DEF OnceInv, NothingBefore, ReceiptsTrue, AppliedOnce
  <1>2. ASSUME NEW c \in Calls, Retake(c) PROVE (NothingBefore /\ ReceiptsTrue /\
    AppliedOnce)'
    <2>1. applied' = applied /\ receipt' = receipt
      BY <1>2 DEF Retake
    <2>2. \A e \in Effects : effect'[e].st = "none" => effect[e].st = "none"
      BY <1>0
    <2> QED BY <2>1, <2>2 DEF OnceInv, NothingBefore, ReceiptsTrue, AppliedOnce
  <1>3. ASSUME NEW c \in Calls, Commit(c) PROVE (NothingBefore /\ ReceiptsTrue /\
    AppliedOnce)'
    <2>1. applied' = applied /\ receipt' = receipt
      BY <1>3 DEF Commit
    <2>2. \A e \in Effects : effect'[e].st = "none" => effect[e].st = "none"
      BY <1>0
    <2> QED BY <2>1, <2>2 DEF OnceInv, NothingBefore, ReceiptsTrue, AppliedOnce
  <1>4. ASSUME NEW a \in Actors, JudgeUnknown(a) PROVE (NothingBefore /\ ReceiptsTrue
    /\ AppliedOnce)'
    <2>1. applied' = applied /\ receipt' = receipt
      BY <1>4 DEF JudgeUnknown
    <2>2. \A e \in Effects : effect'[e].st = "none" => effect[e].st = "none"
      BY <1>0
    <2> QED BY <2>1, <2>2 DEF OnceInv, NothingBefore, ReceiptsTrue, AppliedOnce
  <1>5. ASSUME NEW a \in Actors, Apply(a) PROVE (NothingBefore /\ ReceiptsTrue /\
    AppliedOnce)'
    <2>1. effect' = effect
      BY <1>5 DEF Apply
    <2>2. applied' \in [Effects -> 0 .. 2] /\ receipt' \in [Effects -> BOOLEAN]
      BY WorldStep, <1>5 DEF OnceInv, WorldTyped, Next
    <2> QED BY <2>1, <2>2, <1>5, AppliedOK DEF OnceInv, NothingBefore, ReceiptsTrue, AppliedOnce
  <1>6. ASSUME NEW s \in Sweepers, GiveUp(s) PROVE (NothingBefore /\ ReceiptsTrue /\
    AppliedOnce)'
    <2>1. applied' = applied /\ receipt' = receipt
      BY <1>6 DEF GiveUp
    <2>2. \A e \in Effects : effect'[e].st = "none" => effect[e].st = "none"
      BY <1>0
    <2> QED BY <2>1, <2>2 DEF OnceInv, NothingBefore, ReceiptsTrue, AppliedOnce
  <1>7. ASSUME NEW s \in Sweepers, CommitRecovered(s) PROVE (NothingBefore /\
    ReceiptsTrue /\ AppliedOnce)'
    <2>1. applied' = applied /\ receipt' = receipt
      BY <1>7 DEF CommitRecovered
    <2>2. \A e \in Effects : effect'[e].st = "none" => effect[e].st = "none"
      BY <1>0
    <2> QED BY <2>1, <2>2 DEF OnceInv, NothingBefore, ReceiptsTrue, AppliedOnce
  <1>8. ASSUME NEW e \in Effects, SettleStopped(e) PROVE (NothingBefore /\
    ReceiptsTrue /\ AppliedOnce)'
    <2>1. applied' = applied /\ receipt' = receipt
      BY <1>8 DEF SettleStopped
    <2>2. \A x \in Effects : effect'[x].st = "none" => effect[x].st = "none"
      BY <1>0
    <2> QED BY <2>1, <2>2 DEF OnceInv, NothingBefore, ReceiptsTrue, AppliedOnce
  <1>9. ASSUME NEW c \in Calls, Learn(c) \/ Refuse(c) \/ Wait(c) \/ Acquire(c) \/
    Abandon(c) \/ CancelCall(c)
       PROVE  UNCHANGED <<effect, applied, receipt>>
    BY <1>9 DEF Learn, Goto, Refuse, Wait, Acquire, Send, Abandon, Expired, Landed,
      CancelCall
  <1>10. ASSUME NEW a \in Actors, Judge(a) \/ Invoke(a) \/ AdapterFails(a)
       PROVE  UNCHANGED <<effect, applied, receipt>>
    BY <1>10 DEF Judge, Goto, Invoke, Send, AdapterFails
  <1>11. ASSUME NEW s \in Sweepers, ReleaseRun(s) \/ Defer(s) \/ CrashSweep(s)
       PROVE  UNCHANGED <<effect, applied, receipt>>
    BY <1>11 DEF ReleaseRun, Goto, Defer, Landed, CrashSweep
  <1>12. ASSUME NEW s \in Sweepers, NEW e \in Effects, ClaimRecovery(s, e)
       PROVE  UNCHANGED <<effect, applied, receipt>>
    BY <1>12 DEF ClaimRecovery, Goto
  <1>13. ASSUME NEW e \in Effects, ClaimExpires(e)
       PROVE  UNCHANGED <<effect, applied, receipt>>
    BY <1>13 DEF ClaimExpires
  <1>14. ASSUME NEW r \in Runs, WorkerEnds(r) \/ WorkerFenced(r) \/ CancelRun(r) \/
    RecoverPause(r) \/ RunLeaseExpires(r) \/ CrashWorker(r)
       PROVE  UNCHANGED <<effect, applied, receipt>>
    BY <1>14 DEF WorkerEnds, WorkerFenced, CancelRun, RecoverPause, RunLeaseExpires,
      CrashWorker
  <1>15. ASSUME UNCHANGED <<effect, applied, receipt>> PROVE (NothingBefore /\ ReceiptsTrue /\ AppliedOnce)'
    BY <1>15, <1>0 DEF OnceInv, NothingBefore, ReceiptsTrue, AppliedOnce
  <1>16. QED
    BY <1>1, <1>2, <1>3, <1>4, <1>5, <1>6, <1>7, <1>8, <1>9, <1>10, <1>11, <1>12,
      <1>13, <1>14, <1>15 DEF Next, CallStep, ActorStep, SweepStep, RunStep

\* Reconcilers answer from receipts, adapters after their work.
LEMMA AnswersStep ==
    ASSUME EffectAssumption, OnceInv, Next
    PROVE  AnswersTrue'
  <1>1. ASSUME NEW c \in Calls, Intend(c) PROVE AnswersTrue'
    BY <1>1, Members DEF Intend, Goto, OnceInv, Typed, ActorsTyped, AnswersTrue
  <1>2. ASSUME NEW c \in Calls, Learn(c) PROVE AnswersTrue'
    BY <1>2, Members DEF Learn, Goto, OnceInv, Typed, ActorsTyped, AnswersTrue
  <1>3. ASSUME NEW c \in Calls, Refuse(c) PROVE AnswersTrue'
    BY <1>3, Members DEF Refuse, Goto, OnceInv, Typed, ActorsTyped, AnswersTrue
  <1>4. ASSUME NEW c \in Calls, Wait(c) PROVE AnswersTrue'
    BY <1>4, Members DEF Wait, Goto, OnceInv, Typed, ActorsTyped, AnswersTrue
  <1>5. ASSUME NEW c \in Calls, Retake(c) PROVE AnswersTrue'
    BY <1>5, Members DEF Retake, Retaken, Goto, OnceInv, Typed, ActorsTyped,
      AnswersTrue
  <1>6. ASSUME NEW c \in Calls, Acquire(c) PROVE AnswersTrue'
    BY <1>6, Members DEF Acquire, Send, Goto, OnceInv, Typed, ActorsTyped, AnswersTrue
  <1>7. ASSUME NEW c \in Calls, Commit(c) PROVE AnswersTrue'
    BY <1>7, Members DEF Commit, Landed, Goto, OnceInv, Typed, ActorsTyped,
      AnswersTrue
  <1>8. ASSUME NEW c \in Calls, Abandon(c) PROVE AnswersTrue'
    BY <1>8, Members DEF Abandon, Landed, Goto, OnceInv, Typed, ActorsTyped,
      AnswersTrue
  <1>9. ASSUME NEW c \in Calls, CancelCall(c) PROVE AnswersTrue'
    BY <1>9, Members DEF CancelCall, Goto, OnceInv, Typed, ActorsTyped, AnswersTrue
  <1>10. ASSUME NEW a \in Actors, Judge(a) PROVE AnswersTrue'
    BY <1>10, Members DEF Judge, Judging, Goto, ReceiptsTrue, Targets, Engaged,
      Guarded, OnceInv, Typed, ActorsTyped, AnswersTrue
  <1>11. ASSUME NEW a \in Actors, JudgeUnknown(a) PROVE AnswersTrue'
    BY <1>11, Members DEF JudgeUnknown, Judging, Goto, OnceInv, Typed, ActorsTyped,
      AnswersTrue
  <1>12. ASSUME NEW a \in Actors, Invoke(a) PROVE AnswersTrue'
    BY <1>12, Members DEF Invoke, Send, Goto, OnceInv, Typed, ActorsTyped, AnswersTrue
  <1>13. ASSUME NEW a \in Actors, Apply(a) PROVE AnswersTrue'
    <2>1. pc' = pc /\ target' = target /\ \A b \in Actors : b # a => flight'[b] = flight[b]
      BY <1>13 DEF Apply, OnceInv, Typed, ActorsTyped
    <2>2. \A e \in Effects : applied[e] > 0 => applied'[e] > 0
      BY <1>13, AppliedOK
    <2>3. \A b \in Actors : pc[b] = "yes" \/ flight[b] = "applied" => target[b] \in Effects
      BY DEF OnceInv, Typed, Targets, Engaged, Guarded
    <2> QED BY <2>1, <2>2, <2>3, <1>13, AppliedOK DEF OnceInv, AnswersTrue
  <1>14. ASSUME NEW a \in Actors, AdapterFails(a) PROVE AnswersTrue'
    BY <1>14, Members DEF AdapterFails, OnceInv, Typed, ActorsTyped, AnswersTrue
  <1>15. ASSUME NEW s \in Sweepers, GiveUp(s) PROVE AnswersTrue'
    BY <1>15, Members DEF GiveUp, Goto, OnceInv, Typed, ActorsTyped, AnswersTrue
  <1>16. ASSUME NEW s \in Sweepers, CommitRecovered(s) PROVE AnswersTrue'
    BY <1>16, Members DEF CommitRecovered, Landed, Goto, OnceInv, Typed, ActorsTyped,
      AnswersTrue
  <1>17. ASSUME NEW s \in Sweepers, ReleaseRun(s) PROVE AnswersTrue'
    BY <1>17, Members DEF ReleaseRun, Goto, OnceInv, Typed, ActorsTyped, AnswersTrue
  <1>18. ASSUME NEW s \in Sweepers, Defer(s) PROVE AnswersTrue'
    BY <1>18, Members DEF Defer, Landed, Goto, OnceInv, Typed, ActorsTyped,
      AnswersTrue
  <1>19. ASSUME NEW s \in Sweepers, CrashSweep(s) PROVE AnswersTrue'
    BY <1>19, Members DEF CrashSweep, Goto, OnceInv, Typed, ActorsTyped, AnswersTrue
  <1>20. ASSUME NEW s \in Sweepers, NEW e \in Effects, ClaimRecovery(s, e) PROVE
    AnswersTrue'
    BY <1>20, Members DEF ClaimRecovery, Goto, OnceInv, Typed, ActorsTyped,
      AnswersTrue
  <1>21. ASSUME NEW r \in Runs, WorkerEnds(r) PROVE AnswersTrue'
    BY <1>21, Members DEF WorkerEnds, OnceInv, Typed, ActorsTyped, AnswersTrue
  <1>22. ASSUME NEW r \in Runs, WorkerFenced(r) PROVE AnswersTrue'
    BY <1>22, Members DEF WorkerFenced, OnceInv, Typed, ActorsTyped, AnswersTrue
  <1>23. ASSUME NEW r \in Runs, CrashWorker(r) PROVE AnswersTrue'
    BY <1>23, Members DEF CrashWorker, OnceInv, Typed, ActorsTyped, AnswersTrue
  <1>24. ASSUME NEW e \in Effects, SettleStopped(e) \/ ClaimExpires(e)
       PROVE  UNCHANGED <<pc, target, flight, applied>>
    BY <1>24 DEF SettleStopped, Recorded, ClaimExpires
  <1>25. ASSUME NEW r \in Runs, CancelRun(r) \/ RecoverPause(r) \/ RunLeaseExpires(r)
       PROVE  UNCHANGED <<pc, target, flight, applied>>
    BY <1>25 DEF CancelRun, RecoverPause, RunLeaseExpires
  <1>26. ASSUME UNCHANGED <<pc, target, flight, applied>> PROVE AnswersTrue'
    BY <1>26 DEF OnceInv, Typed, ActorsTyped, AnswersTrue
  <1>27. QED
    BY <1>1, <1>2, <1>3, <1>4, <1>5, <1>6, <1>7, <1>8, <1>9, <1>10, <1>11, <1>12,
      <1>13, <1>14, <1>15, <1>16, <1>17, <1>18, <1>19, <1>20, <1>21, <1>22, <1>23,
      <1>24, <1>25, <1>26 DEF Next, CallStep, ActorStep, SweepStep, RunStep

\* A call invokes its adapter only after it acquired its claim.
LEMMA NotYetSentStep ==
    ASSUME EffectAssumption, OnceInv, Next
    PROVE  NotYetSent'
  <1>1. ASSUME NEW c \in Calls, Intend(c) PROVE NotYetSent'
    BY <1>1, Members DEF Intend, Asking, Goto, OnceInv, Typed, ActorsTyped,
      NotYetSent, Roles
  <1>2. ASSUME NEW c \in Calls, Learn(c) PROVE NotYetSent'
    BY <1>2, Members DEF Learn, Asking, Goto, OnceInv, Typed, ActorsTyped, NotYetSent,
      Roles
  <1>3. ASSUME NEW c \in Calls, Refuse(c) PROVE NotYetSent'
    BY <1>3, Members DEF Refuse, Asking, Goto, OnceInv, Typed, ActorsTyped,
      NotYetSent, Roles
  <1>4. ASSUME NEW c \in Calls, Wait(c) PROVE NotYetSent'
    BY <1>4, Members DEF Wait, Asking, Goto, OnceInv, Typed, ActorsTyped, NotYetSent,
      Roles
  <1>5. ASSUME NEW c \in Calls, Retake(c) PROVE NotYetSent'
    BY <1>5, Members DEF Retake, Asking, Retaken, Goto, OnceInv, Typed, ActorsTyped,
      NotYetSent, Roles
  <1>6. ASSUME NEW c \in Calls, Acquire(c) PROVE NotYetSent'
    BY <1>6, Members DEF Acquire, Send, Goto, OnceInv, Typed, ActorsTyped, NotYetSent,
      Roles
  <1>7. ASSUME NEW c \in Calls, Commit(c) PROVE NotYetSent'
    BY <1>7, Members DEF Commit, Landed, Goto, OnceInv, Typed, ActorsTyped,
      NotYetSent, Roles
  <1>8. ASSUME NEW c \in Calls, Abandon(c) PROVE NotYetSent'
    BY <1>8, Members DEF Abandon, Landed, Goto, OnceInv, Typed, ActorsTyped,
      NotYetSent, Roles
  <1>9. ASSUME NEW c \in Calls, CancelCall(c) PROVE NotYetSent'
    BY <1>9, Members DEF CancelCall, Goto, OnceInv, Typed, ActorsTyped, NotYetSent,
      Roles
  <1>10. ASSUME NEW a \in Actors, Judge(a) PROVE NotYetSent'
    BY <1>10, Members DEF Judge, Judging, Goto, OnceInv, Typed, ActorsTyped,
      NotYetSent, Roles
  <1>11. ASSUME NEW a \in Actors, JudgeUnknown(a) PROVE NotYetSent'
    BY <1>11, Members DEF JudgeUnknown, Judging, Goto, OnceInv, Typed, ActorsTyped,
      NotYetSent, Roles
  <1>12. ASSUME NEW a \in Actors, Invoke(a) PROVE NotYetSent'
    BY <1>12, Members DEF Invoke, Send, Goto, OnceInv, Typed, ActorsTyped, NotYetSent,
      Roles
  <1>13. ASSUME NEW a \in Actors, Apply(a) PROVE NotYetSent'
    BY <1>13, Members DEF Apply, OnceInv, Typed, ActorsTyped, NotYetSent, Roles
  <1>14. ASSUME NEW a \in Actors, AdapterFails(a) PROVE NotYetSent'
    BY <1>14, Members DEF AdapterFails, OnceInv, Typed, ActorsTyped, NotYetSent, Roles
  <1>15. ASSUME NEW s \in Sweepers, GiveUp(s) PROVE NotYetSent'
    BY <1>15, Members DEF GiveUp, Goto, OnceInv, Typed, ActorsTyped, NotYetSent, Roles
  <1>16. ASSUME NEW s \in Sweepers, CommitRecovered(s) PROVE NotYetSent'
    BY <1>16, Members DEF CommitRecovered, Landed, Goto, OnceInv, Typed, ActorsTyped,
      NotYetSent, Roles
  <1>17. ASSUME NEW s \in Sweepers, ReleaseRun(s) PROVE NotYetSent'
    BY <1>17, Members DEF ReleaseRun, Goto, OnceInv, Typed, ActorsTyped, NotYetSent,
      Roles
  <1>18. ASSUME NEW s \in Sweepers, Defer(s) PROVE NotYetSent'
    BY <1>18, Members DEF Defer, Landed, Goto, OnceInv, Typed, ActorsTyped,
      NotYetSent, Roles
  <1>19. ASSUME NEW s \in Sweepers, CrashSweep(s) PROVE NotYetSent'
    BY <1>19, Members DEF CrashSweep, Goto, OnceInv, Typed, ActorsTyped, NotYetSent,
      Roles
  <1>20. ASSUME NEW s \in Sweepers, NEW e \in Effects, ClaimRecovery(s, e) PROVE
    NotYetSent'
    BY <1>20, Members DEF ClaimRecovery, Goto, OnceInv, Typed, ActorsTyped,
      NotYetSent, Roles
  <1>21. ASSUME NEW r \in Runs, WorkerEnds(r) PROVE NotYetSent'
    BY <1>21, Members DEF WorkerEnds, OnceInv, Typed, ActorsTyped, NotYetSent, Roles
  <1>22. ASSUME NEW r \in Runs, WorkerFenced(r) PROVE NotYetSent'
    BY <1>22, Members DEF WorkerFenced, OnceInv, Typed, ActorsTyped, NotYetSent, Roles
  <1>23. ASSUME NEW r \in Runs, CrashWorker(r) PROVE NotYetSent'
    BY <1>23, Members DEF CrashWorker, Over, CallsOf, OnceInv, Typed, ActorsTyped,
      NotYetSent, Roles
  <1>24. ASSUME NEW e \in Effects, SettleStopped(e) \/ ClaimExpires(e)
       PROVE  UNCHANGED <<pc, flight>>
    BY <1>24 DEF SettleStopped, Recorded, ClaimExpires
  <1>25. ASSUME NEW r \in Runs, CancelRun(r) \/ RecoverPause(r) \/ RunLeaseExpires(r)
       PROVE  UNCHANGED <<pc, flight>>
    BY <1>25 DEF CancelRun, RecoverPause, RunLeaseExpires
  <1>26. ASSUME UNCHANGED <<pc, flight>> PROVE NotYetSent'
    BY <1>26 DEF OnceInv, Typed, ActorsTyped, NotYetSent, Roles
  <1>27. QED
    BY <1>1, <1>2, <1>3, <1>4, <1>5, <1>6, <1>7, <1>8, <1>9, <1>10, <1>11, <1>12,
      <1>13, <1>14, <1>15, <1>16, <1>17, <1>18, <1>19, <1>20, <1>21, <1>22, <1>23,
      <1>24, <1>25, <1>26 DEF Next, CallStep, ActorStep, SweepStep, RunStep

\* A tool that is never replayed is given up by its next holder.
LEMMA NeverJudgedStep ==
    ASSUME EffectAssumption, OnceInv, Next
    PROVE  NeverJudged'
  <1>1. ASSUME NEW c \in Calls, Intend(c) PROVE NeverJudged'
    BY <1>1, Members DEF Intend, Goto, OnceInv, Typed, ActorsTyped, NeverJudged,
      OnNeverReplay, Targets
  <1>2. ASSUME NEW c \in Calls, Learn(c) PROVE NeverJudged'
    BY <1>2, Members DEF Learn, Goto, OnceInv, Typed, ActorsTyped, NeverJudged,
      OnNeverReplay, Targets
  <1>3. ASSUME NEW c \in Calls, Refuse(c) PROVE NeverJudged'
    BY <1>3, Members DEF Refuse, Goto, OnceInv, Typed, ActorsTyped, NeverJudged,
      OnNeverReplay, Targets
  <1>4. ASSUME NEW c \in Calls, Wait(c) PROVE NeverJudged'
    BY <1>4, Members DEF Wait, Goto, OnceInv, Typed, ActorsTyped, NeverJudged,
      OnNeverReplay, Targets
  <1>5. ASSUME NEW c \in Calls, Retake(c) PROVE NeverJudged'
    BY <1>5, Members DEF Retake, Retaken, Goto, Targets, OnceInv, Typed, ActorsTyped,
      NeverJudged, OnNeverReplay
  <1>6. ASSUME NEW c \in Calls, Acquire(c) PROVE NeverJudged'
    BY <1>6, Members DEF Acquire, Send, Goto, OnceInv, Typed, ActorsTyped,
      NeverJudged, OnNeverReplay, Targets
  <1>7. ASSUME NEW c \in Calls, Commit(c) PROVE NeverJudged'
    BY <1>7, Members DEF Commit, Landed, Goto, OnceInv, Typed, ActorsTyped,
      NeverJudged, OnNeverReplay, Targets
  <1>8. ASSUME NEW c \in Calls, Abandon(c) PROVE NeverJudged'
    BY <1>8, Members DEF Abandon, Landed, Goto, OnceInv, Typed, ActorsTyped,
      NeverJudged, OnNeverReplay, Targets
  <1>9. ASSUME NEW c \in Calls, CancelCall(c) PROVE NeverJudged'
    BY <1>9, Members DEF CancelCall, Goto, OnceInv, Typed, ActorsTyped, NeverJudged,
      OnNeverReplay, Targets
  <1>10. ASSUME NEW a \in Actors, Judge(a) PROVE NeverJudged'
    BY <1>10, Members DEF Judge, Judging, Goto, OnceInv, Typed, ActorsTyped,
      NeverJudged, OnNeverReplay, Targets
  <1>11. ASSUME NEW a \in Actors, JudgeUnknown(a) PROVE NeverJudged'
    BY <1>11, Members DEF JudgeUnknown, Judging, Goto, OnceInv, Typed, ActorsTyped,
      NeverJudged, OnNeverReplay, Targets
  <1>12. ASSUME NEW a \in Actors, Invoke(a) PROVE NeverJudged'
    BY <1>12, Members DEF Invoke, Send, Goto, OnceInv, Typed, ActorsTyped,
      NeverJudged, OnNeverReplay, Targets
  <1>13. ASSUME NEW a \in Actors, Apply(a) PROVE NeverJudged'
    BY <1>13, Members DEF Apply, OnceInv, Typed, ActorsTyped, NeverJudged,
      OnNeverReplay, Targets
  <1>14. ASSUME NEW a \in Actors, AdapterFails(a) PROVE NeverJudged'
    BY <1>14, Members DEF AdapterFails, OnceInv, Typed, ActorsTyped, NeverJudged,
      OnNeverReplay, Targets
  <1>15. ASSUME NEW s \in Sweepers, GiveUp(s) PROVE NeverJudged'
    BY <1>15, Members DEF GiveUp, Goto, OnceInv, Typed, ActorsTyped, NeverJudged,
      OnNeverReplay, Targets
  <1>16. ASSUME NEW s \in Sweepers, CommitRecovered(s) PROVE NeverJudged'
    BY <1>16, Members DEF CommitRecovered, Landed, Goto, Answered, OnceInv, Typed,
      ActorsTyped, NeverJudged, OnNeverReplay, Targets
  <1>17. ASSUME NEW s \in Sweepers, ReleaseRun(s) PROVE NeverJudged'
    BY <1>17, Members DEF ReleaseRun, Goto, OnceInv, Typed, ActorsTyped, NeverJudged,
      OnNeverReplay, Targets
  <1>18. ASSUME NEW s \in Sweepers, Defer(s) PROVE NeverJudged'
    BY <1>18, Members DEF Defer, Landed, Goto, Raises, OnceInv, Typed, ActorsTyped,
      NeverJudged, OnNeverReplay, Targets
  <1>19. ASSUME NEW s \in Sweepers, CrashSweep(s) PROVE NeverJudged'
    BY <1>19, Members DEF CrashSweep, Goto, OnceInv, Typed, ActorsTyped, NeverJudged,
      OnNeverReplay, Targets
  <1>20. ASSUME NEW s \in Sweepers, NEW e \in Effects, ClaimRecovery(s, e) PROVE
    NeverJudged'
    BY <1>20, Members DEF ClaimRecovery, Goto, OnceInv, Typed, ActorsTyped,
      NeverJudged, OnNeverReplay, Targets
  <1>21. ASSUME NEW r \in Runs, WorkerEnds(r) PROVE NeverJudged'
    BY <1>21, Members DEF WorkerEnds, OnceInv, Typed, ActorsTyped, NeverJudged,
      OnNeverReplay, Targets
  <1>22. ASSUME NEW r \in Runs, WorkerFenced(r) PROVE NeverJudged'
    BY <1>22, Members DEF WorkerFenced, OnceInv, Typed, ActorsTyped, NeverJudged,
      OnNeverReplay, Targets
  <1>23. ASSUME NEW r \in Runs, CrashWorker(r) PROVE NeverJudged'
    BY <1>23, Members DEF CrashWorker, Over, CallsOf, OnceInv, Typed, ActorsTyped,
      NeverJudged, OnNeverReplay, Targets
  <1>24. ASSUME NEW e \in Effects, SettleStopped(e) \/ ClaimExpires(e)
       PROVE  UNCHANGED <<pc, target, flight>>
    BY <1>24 DEF SettleStopped, Recorded, ClaimExpires
  <1>25. ASSUME NEW r \in Runs, CancelRun(r) \/ RecoverPause(r) \/ RunLeaseExpires(r)
       PROVE  UNCHANGED <<pc, target, flight>>
    BY <1>25 DEF CancelRun, RecoverPause, RunLeaseExpires
  <1>26. ASSUME UNCHANGED <<pc, target, flight>> PROVE NeverJudged'
    BY <1>26 DEF OnceInv, Typed, ActorsTyped, NeverJudged, OnNeverReplay, Targets
  <1>27. QED
    BY <1>1, <1>2, <1>3, <1>4, <1>5, <1>6, <1>7, <1>8, <1>9, <1>10, <1>11, <1>12,
      <1>13, <1>14, <1>15, <1>16, <1>17, <1>18, <1>19, <1>20, <1>21, <1>22, <1>23,
      <1>24, <1>25, <1>26 DEF Next, CallStep, ActorStep, SweepStep, RunStep

\* Only the call that made the intent invokes such a tool.
LEMMA OneInvocationStep ==
    ASSUME EffectAssumption, OnceInv, Next
    PROVE  OneInvocation'
  <1>1. ASSUME NEW c \in Calls, Intend(c) PROVE OneInvocation'
    <2>1. target[c] = KeyOf[c] /\ KeyOf[c] \in Effects /\ effect[KeyOf[c]].st = "none"
      BY <1>1 DEF Intend, EffectAssumption, OnceInv, Typed, Targets
    <2>2. \A b \in Actors : Sending(b) => target[b] # KeyOf[c]
      BY <2>1 DEF OnceInv, Typed, Targets, Sending, Engaged
    <2>3. applied[KeyOf[c]] = 0
      BY <2>1 DEF OnceInv, NothingBefore
    <2>4. pc' = [pc EXCEPT ![c] = "granted"] /\ UNCHANGED <<target, flight, applied>>
      BY <1>1 DEF Intend, Goto
    <2>5. ASSUME NEW b \in Actors, b # c PROVE Sending(b)' <=> Sending(b)
      BY <2>4, <2>5 DEF OnceInv, Typed, ActorsTyped, Sending
    <2> QED BY <2>1, <2>2, <2>3, <2>4, <2>5 DEF OnceInv, OneInvocation, OnNeverReplay
  <1>2. ASSUME NEW c \in Calls, Learn(c) PROVE OneInvocation'
    BY <1>2, Members DEF Learn, Goto, OnceInv, Typed, ActorsTyped, OneInvocation,
      Sending, OnNeverReplay
  <1>3. ASSUME NEW c \in Calls, Refuse(c) PROVE OneInvocation'
    BY <1>3, Members DEF Refuse, Goto, OnceInv, Typed, ActorsTyped, OneInvocation,
      Sending, OnNeverReplay
  <1>4. ASSUME NEW c \in Calls, Wait(c) PROVE OneInvocation'
    BY <1>4, Members DEF Wait, Goto, OnceInv, Typed, ActorsTyped, OneInvocation,
      Sending, OnNeverReplay
  <1>5. ASSUME NEW c \in Calls, Retake(c) PROVE OneInvocation'
    <2>1. target[c] = KeyOf[c] /\ UNCHANGED <<target, flight, applied>>
      BY <1>5 DEF Retake, OnceInv, Typed, Targets
    <2>2. \A b \in Actors \ {c} : pc'[b] = pc[b]
      BY <1>5 DEF Retake, Goto, OnceInv, Typed, ActorsTyped
    <2>3. pc'[c] = "granted" => PolicyOf[KeyOf[c]] = "replay_safe"
      BY <1>5, Members DEF Retake, Goto, Retaken, OnceInv, Typed, ActorsTyped
    <2>4. ASSUME NEW b \in Actors, OnNeverReplay(b), Sending(b)' PROVE Sending(b)
      BY <2>1, <2>2, <2>3, <2>4 DEF Sending, OnNeverReplay
    <2> QED BY <2>1, <2>4 DEF OnceInv, OneInvocation, OnNeverReplay
  <1>6. ASSUME NEW c \in Calls, Acquire(c) PROVE OneInvocation'
    BY <1>6, Members DEF Acquire, Send, Goto, OnceInv, Typed, ActorsTyped,
      OneInvocation, Sending, OnNeverReplay
  <1>7. ASSUME NEW c \in Calls, Commit(c) PROVE OneInvocation'
    BY <1>7, Members DEF Commit, Landed, Goto, OnceInv, Typed, ActorsTyped,
      OneInvocation, Sending, OnNeverReplay
  <1>8. ASSUME NEW c \in Calls, Abandon(c) PROVE OneInvocation'
    BY <1>8, Members DEF Abandon, Landed, Goto, OnceInv, Typed, ActorsTyped,
      OneInvocation, Sending, OnNeverReplay
  <1>9. ASSUME NEW c \in Calls, CancelCall(c) PROVE OneInvocation'
    BY <1>9, Members DEF CancelCall, Goto, OnceInv, Typed, ActorsTyped, OneInvocation,
      Sending, OnNeverReplay
  <1>10. ASSUME NEW a \in Actors, Judge(a) PROVE OneInvocation'
    BY <1>10, Members DEF Judge, Judging, Goto, OnceInv, Typed, ActorsTyped,
      OneInvocation, Sending, OnNeverReplay
  <1>11. ASSUME NEW a \in Actors, JudgeUnknown(a) PROVE OneInvocation'
    BY <1>11, Members DEF JudgeUnknown, Judging, Goto, OnceInv, Typed, ActorsTyped,
      OneInvocation, Sending, OnNeverReplay
  <1>12. ASSUME NEW a \in Actors, Invoke(a) PROVE OneInvocation'
    <2>1. ~OnNeverReplay(a)
      BY <1>12, Members DEF Invoke, OnceInv, NeverJudged, OnNeverReplay
    <2>2. UNCHANGED <<target, applied>>
      BY <1>12 DEF Invoke
    <2>3. ASSUME NEW b \in Actors, b # a PROVE Sending(b)' <=> Sending(b)
      BY <1>12, <2>3 DEF Invoke, Send, Goto, OnceInv, Typed, ActorsTyped, Sending
    <2> QED BY <2>1, <2>2, <2>3 DEF OnceInv, OneInvocation, OnNeverReplay
  <1>13. ASSUME NEW a \in Actors, Apply(a) PROVE OneInvocation'
    <2>1. Sending(a) /\ pc' = pc /\ target' = target
      BY <1>13 DEF Apply, Sending
    <2>2. ASSUME NEW b \in Actors, b # a PROVE Sending(b)' <=> Sending(b)
      BY <1>13, <2>2 DEF Apply, OnceInv, Typed, ActorsTyped, Sending
    <2>3. ASSUME OnNeverReplay(a) PROVE ~Sending(a)'
      <3>1. pc[a] # "granted"
        BY <2>3, <1>13, Members DEF Apply, OnceInv, NotYetSent, Typed, Roles
      <3> QED BY <3>1, <1>13 DEF Apply, Sending, OnceInv, Typed, ActorsTyped
    <2>4. \A e \in Effects : e # target[a] => applied'[e] = applied[e]
      BY <1>13, AppliedOK
    <2> QED BY <2>1, <2>2, <2>3, <2>4 DEF OnceInv, OneInvocation, OnNeverReplay
  <1>14. ASSUME NEW a \in Actors, AdapterFails(a) PROVE OneInvocation'
    BY <1>14, Members DEF AdapterFails, OnceInv, Typed, ActorsTyped, OneInvocation,
      Sending, OnNeverReplay
  <1>15. ASSUME NEW s \in Sweepers, GiveUp(s) PROVE OneInvocation'
    BY <1>15, Members DEF GiveUp, Goto, OnceInv, Typed, ActorsTyped, OneInvocation,
      Sending, OnNeverReplay
  <1>16. ASSUME NEW s \in Sweepers, CommitRecovered(s) PROVE OneInvocation'
    BY <1>16, Members DEF CommitRecovered, Landed, Goto, OnceInv, Typed, ActorsTyped,
      OneInvocation, Sending, OnNeverReplay
  <1>17. ASSUME NEW s \in Sweepers, ReleaseRun(s) PROVE OneInvocation'
    BY <1>17, Members DEF ReleaseRun, Goto, OnceInv, Typed, ActorsTyped,
      OneInvocation, Sending, OnNeverReplay
  <1>18. ASSUME NEW s \in Sweepers, Defer(s) PROVE OneInvocation'
    BY <1>18, Members DEF Defer, Landed, Goto, OnceInv, Typed, ActorsTyped,
      OneInvocation, Sending, OnNeverReplay
  <1>19. ASSUME NEW s \in Sweepers, CrashSweep(s) PROVE OneInvocation'
    BY <1>19, Members DEF CrashSweep, Goto, OnceInv, Typed, ActorsTyped,
      OneInvocation, Sending, OnNeverReplay
  <1>20. ASSUME NEW s \in Sweepers, NEW e \in Effects, ClaimRecovery(s, e) PROVE
    OneInvocation'
    BY <1>20, Members DEF ClaimRecovery, Goto, OnceInv, Typed, ActorsTyped,
      OneInvocation, Sending, OnNeverReplay
  <1>21. ASSUME NEW r \in Runs, WorkerEnds(r) PROVE OneInvocation'
    BY <1>21, Members DEF WorkerEnds, OnceInv, Typed, ActorsTyped, OneInvocation,
      Sending, OnNeverReplay
  <1>22. ASSUME NEW r \in Runs, WorkerFenced(r) PROVE OneInvocation'
    BY <1>22, Members DEF WorkerFenced, OnceInv, Typed, ActorsTyped, OneInvocation,
      Sending, OnNeverReplay
  <1>23. ASSUME NEW r \in Runs, CrashWorker(r) PROVE OneInvocation'
    BY <1>23, Members DEF CrashWorker, OnceInv, Typed, ActorsTyped, OneInvocation,
      Sending, OnNeverReplay
  <1>24. ASSUME NEW e \in Effects, SettleStopped(e) \/ ClaimExpires(e)
       PROVE  UNCHANGED <<pc, target, flight, applied>>
    BY <1>24 DEF SettleStopped, Recorded, ClaimExpires
  <1>25. ASSUME NEW r \in Runs, CancelRun(r) \/ RecoverPause(r) \/ RunLeaseExpires(r)
       PROVE  UNCHANGED <<pc, target, flight, applied>>
    BY <1>25 DEF CancelRun, RecoverPause, RunLeaseExpires
  <1>26. ASSUME UNCHANGED <<pc, target, flight, applied>> PROVE OneInvocation'
    BY <1>26 DEF OnceInv, Typed, ActorsTyped, OneInvocation, Sending, OnNeverReplay
  <1>27. QED
    BY <1>1, <1>2, <1>3, <1>4, <1>5, <1>6, <1>7, <1>8, <1>9, <1>10, <1>11, <1>12,
      <1>13, <1>14, <1>15, <1>16, <1>17, <1>18, <1>19, <1>20, <1>21, <1>22, <1>23,
      <1>24, <1>25, <1>26 DEF Next, CallStep, ActorStep, SweepStep, RunStep


\* No step applies an effect again.
LEMMA OnceStep == EffectAssumption /\ OnceInv /\ [Next]_vars => OnceInv'
  <1> SUFFICES ASSUME EffectAssumption, OnceInv, [Next]_vars PROVE OnceInv'
    OBVIOUS
  <1>1. Typed'
    BY TypedStep DEF OnceInv
  <1>2. CASE Next
    BY <1>1, <1>2, WorldOnceStep, AnswersStep, NotYetSentStep, NeverJudgedStep, OneInvocationStep
       DEF OnceInv
  <1>3. CASE UNCHANGED vars
    BY <1>1, <1>3 DEF vars, OnceInv, NothingBefore, ReceiptsTrue, AnswersTrue, NotYetSent,
                      NeverJudged, OneInvocation, OnNeverReplay, Sending, AppliedOnce
  <1> QED BY <1>2, <1>3

\* The invariant of single effects holds along every behaviour.
LEMMA OnceAlways == Spec => []OnceInv
  <1>1. Init => OnceInv
    BY EffectAssumption, OnceInit
  <1>2. OnceInv /\ [Next]_vars => OnceInv'
    BY EffectAssumption, OnceStep
  <1> QED BY <1>1, <1>2, PTL DEF Spec

\* A tool that is not replay-safe changes the world at most once per idempotency key, however
\* many calls, runs and sweeps take its effect over (begin_intent, claim_recovery_intent).
THEOREM AppliedOnceAlways == Spec => []AppliedOnce
  <1>1. OnceInv => AppliedOnce
    BY DEF OnceInv
  <1> QED BY OnceAlways, <1>1, PTL

-----------------------------------------------------------------------------
(* Refinement: what callers see of the ledger is ToolPromise. *)

\* A step that neither applies, settles nor answers a call is a stutter of the promise.
LEMMA QuietOK ==
    ASSUME UNCHANGED <<effect, applied>>,
           \A c \in Calls : pc'[c] = "returned" <=> pc[c] = "returned"
    PROVE  UNCHANGED P!pvars
  BY DEF P!pvars, Outcome, Informed

\* The outcome of an intent is recorded, and nobody is told yet.
LEMMA DecidedOK ==
    ASSUME Typed, NEW e \in Effects, NEW st \in {"result", "unknown"}, Recorded(e, st),
           effect[e].st # "none", st = "result" => applied[e] > 0, applied' = applied,
           \A c \in Calls : pc'[c] = "returned" <=> pc[c] = "returned"
    PROVE  P!PromiseNext
  <1>1. Outcome[e] = "pending" /\ Outcome' = [Outcome EXCEPT ![e] = st]
    BY DEF Recorded, Terminal, Outcome, Typed, IntentsTyped, Intent
  <1>2. Informed' = Informed
    BY DEF Informed
  <1>3. P!Decided(e, st)
    BY <1>1, <1>2 DEF P!Decided
  <1> QED BY <1>3 DEF P!PromiseNext

\* ... or the caller that recorded it returns it at once.
LEMMA DecidedToldOK ==
    ASSUME Typed, NEW c \in Calls, KeyOf[c] \in Effects, Recorded(KeyOf[c], "result"),
           effect[KeyOf[c]].st # "none", applied[KeyOf[c]] > 0, applied' = applied,
           Goto(c, "returned")
    PROVE  P!PromiseNext
  <1> DEFINE e == KeyOf[c]
  <1>1. Outcome[e] = "pending" /\ Outcome' = [Outcome EXCEPT ![e] = "result"]
    BY DEF Recorded, Terminal, Outcome, Typed, IntentsTyped, Intent
  <1>2. Informed' = Informed \cup {c}
    BY Members DEF Informed, Goto, Typed, ActorsTyped
  <1>3. P!Decided(e, "result")
    BY <1>1, <1>2 DEF P!Decided
  <1> QED BY <1>3 DEF P!PromiseNext

\* A call is given the result that is there.
LEMMA ToldOK ==
    ASSUME Typed, NEW c \in Calls, KeyOf[c] \in Effects, effect[KeyOf[c]].st = "result",
           UNCHANGED <<effect, applied>>, Goto(c, "returned")
    PROVE  P!PromiseNext
  <1>1. Outcome[KeyOf[c]] = "result" /\ Outcome' = Outcome
    BY DEF Outcome
  <1>2. Informed' = Informed \cup {c}
    BY Members DEF Informed, Goto, Typed, ActorsTyped
  <1> QED BY <1>1, <1>2 DEF P!PromiseNext, P!Told


\* Every step of the ledger is a step that the promise allows, or none of its business.
LEMMA PromiseStep ==
    ASSUME EffectAssumption, OnceInv, Typed, Next
    PROVE  P!PromiseNext \/ UNCHANGED P!pvars
  <1>1. ASSUME NEW c \in Calls, Intend(c) PROVE P!PromiseNext \/ UNCHANGED P!pvars
    <2>1. KeyOf[c] \in Effects /\ Outcome[KeyOf[c]] = "none"
      BY <1>1 DEF Intend, EffectAssumption, Outcome
    <2>2. Outcome' = [Outcome EXCEPT ![KeyOf[c]] = "pending"]
      BY <2>1, <1>1 DEF Intend, Outcome, Typed, IntentsTyped, Intent
    <2>3. Informed' = Informed /\ applied' = applied
      BY <1>1, Members DEF Intend, Asking, Goto, Informed, Typed, ActorsTyped
    <2> QED BY <2>1, <2>2, <2>3 DEF P!PromiseNext, P!Intended
  <1>2. ASSUME NEW c \in Calls, Learn(c) PROVE P!PromiseNext \/ UNCHANGED P!pvars
    <2>1. UNCHANGED <<effect, applied>> /\ c \in Actors
      BY <1>2, Members DEF Learn
    <2>2. CASE effect[KeyOf[c]].st = "result"
      BY <1>2, <2>1, <2>2, ToldOK DEF Learn
    <2>3. CASE effect[KeyOf[c]].st # "result"
      <3>1. \A d \in Calls : pc'[d] = "returned" <=> pc[d] = "returned"
        BY <1>2, <2>3, Members DEF Learn, Asking, Goto, Typed, ActorsTyped
      <3> QED BY <2>1, <3>1, QuietOK
    <2> QED BY <2>2, <2>3
  <1>3. ASSUME NEW c \in Calls, Refuse(c) PROVE P!PromiseNext \/ UNCHANGED P!pvars
    <2>1. UNCHANGED <<effect, applied>>
      BY <1>3 DEF Refuse
    <2>2. \A d \in Calls : pc'[d] = "returned" <=> pc[d] = "returned"
      BY <1>3, Members DEF Refuse, Asking, Goto, Typed, ActorsTyped, Roles, Actors
    <2> QED BY <2>1, <2>2, QuietOK
  <1>4. ASSUME NEW c \in Calls, Wait(c) PROVE P!PromiseNext \/ UNCHANGED P!pvars
    <2>1. UNCHANGED <<effect, applied>>
      BY <1>4 DEF Wait
    <2>2. \A d \in Calls : pc'[d] = "returned" <=> pc[d] = "returned"
      BY <1>4, Members DEF Wait, Asking, Goto, Typed, ActorsTyped, Roles, Actors
    <2> QED BY <2>1, <2>2, QuietOK
  <1>5. ASSUME NEW c \in Calls, Retake(c) PROVE P!PromiseNext \/ UNCHANGED P!pvars
    <2>1. KeyOf[c] \in Effects /\ effect[KeyOf[c]].st = "open" /\ applied' = applied
      BY <1>5 DEF Retake, EffectAssumption
    <2>2. \A d \in Calls : pc'[d] = "returned" <=> pc[d] = "returned"
      BY <1>5, Members DEF Retake, Asking, Goto, Retaken, Typed, ActorsTyped
    <2>3. Recorded(KeyOf[c], "unknown") \/ effect' = effect
      BY <1>5 DEF Retake
    <2> QED BY <2>1, <2>2, <2>3, QuietOK, DecidedOK
  <1>6. ASSUME NEW c \in Calls, Acquire(c) PROVE P!PromiseNext \/ UNCHANGED P!pvars
    <2>1. UNCHANGED <<effect, applied>>
      BY <1>6 DEF Acquire
    <2>2. \A d \in Calls : pc'[d] = "returned" <=> pc[d] = "returned"
      BY <1>6, Members DEF Acquire, Send, Goto, Typed, ActorsTyped, Roles, Actors
    <2> QED BY <2>1, <2>2, QuietOK
  <1>7. ASSUME NEW c \in Calls, Commit(c) PROVE P!PromiseNext \/ UNCHANGED P!pvars
    <2>1. KeyOf[c] \in Effects /\ target[c] = KeyOf[c] /\ UNCHANGED applied /\ Goto(c, "returned")
      BY <1>7 DEF Commit, EffectAssumption, Typed, Targets
    <2>2. effect[KeyOf[c]].st # "none" /\ applied[KeyOf[c]] > 0
      BY <2>1, <1>7, Members DEF Commit, Answered, OnceInv, AnswersTrue, Typed, Targets, Engaged, Guarded
    <2>3. CASE Recorded(KeyOf[c], "result")
      BY <2>1, <2>2, <2>3, DecidedToldOK
    <2>4. CASE effect[KeyOf[c]].st = "result" /\ effect' = effect
      BY <2>1, <2>4, ToldOK
    <2> QED BY <2>3, <2>4, <1>7 DEF Commit
  <1>8. ASSUME NEW c \in Calls, Abandon(c) PROVE P!PromiseNext \/ UNCHANGED P!pvars
    <2>1. UNCHANGED <<effect, applied>>
      BY <1>8 DEF Abandon
    <2>2. \A d \in Calls : pc'[d] = "returned" <=> pc[d] = "returned"
      BY <1>8, Members DEF Abandon, Goto, Raises, Judging, Typed, ActorsTyped, Roles, Actors
    <2> QED BY <2>1, <2>2, QuietOK
  <1>9. ASSUME NEW c \in Calls, CancelCall(c) PROVE P!PromiseNext \/ UNCHANGED P!pvars
    <2>1. UNCHANGED <<effect, applied>>
      BY <1>9 DEF CancelCall
    <2>2. \A d \in Calls : pc'[d] = "returned" <=> pc[d] = "returned"
      BY <1>9, Members DEF CancelCall, Goto, Busy, Guarded, Typed, ActorsTyped, Roles, Actors
    <2> QED BY <2>1, <2>2, QuietOK
  <1>10. ASSUME NEW a \in Actors, Judge(a) PROVE P!PromiseNext \/ UNCHANGED P!pvars
    <2>1. UNCHANGED <<effect, applied>>
      BY <1>10 DEF Judge
    <2>2. \A d \in Calls : pc'[d] = "returned" <=> pc[d] = "returned"
      BY <1>10, Members DEF Judge, Judging, Goto, Typed, ActorsTyped, Roles, Actors
    <2> QED BY <2>1, <2>2, QuietOK
  <1>11. ASSUME NEW a \in Actors, JudgeUnknown(a) PROVE P!PromiseNext \/ UNCHANGED
    P!pvars
    <2>1. target[a] \in Effects /\ effect[target[a]].st # "none" /\ applied' = applied
      BY <1>11, Members DEF JudgeUnknown, Judging, Typed, Targets, Engaged, Guarded
    <2>2. \A d \in Calls : pc'[d] = "returned" <=> pc[d] = "returned"
      BY <1>11, Members DEF JudgeUnknown, Judging, Goto, Typed, ActorsTyped, EffectAssumption
    <2>3. Recorded(target[a], "unknown")
      BY <1>11 DEF JudgeUnknown, MarkUnknown
    <2> QED BY <2>1, <2>2, <2>3, DecidedOK
  <1>12. ASSUME NEW a \in Actors, Invoke(a) PROVE P!PromiseNext \/ UNCHANGED P!pvars
    <2>1. UNCHANGED <<effect, applied>>
      BY <1>12 DEF Invoke
    <2>2. \A d \in Calls : pc'[d] = "returned" <=> pc[d] = "returned"
      BY <1>12, Members DEF Invoke, Send, Goto, Typed, ActorsTyped, Roles, Actors
    <2> QED BY <2>1, <2>2, QuietOK
  <1>13. ASSUME NEW a \in Actors, Apply(a) PROVE P!PromiseNext \/ UNCHANGED P!pvars
    <2>1. target[a] \in Effects /\ effect[target[a]].st # "none" /\ UNCHANGED <<effect, pc>>
      BY <1>13, AppliedOK DEF Apply
    <2>2. Outcome' = Outcome /\ Informed' = Informed /\ Outcome[target[a]] # "none"
      BY <2>1 DEF Outcome, Informed, Typed, IntentsTyped, Intent
    <2>3. applied \in [Effects -> 0 .. 2]
      BY DEF Typed, WorldTyped
    <2>4. CASE First(target[a]) /\ applied[target[a]] < 2
      <3>1. applied' = [applied EXCEPT ![target[a]] = applied[target[a]] + 1]
        BY <2>4, <1>13 DEF Apply
      <3>2. ASSUME PolicyOf[target[a]] # "replay_safe" PROVE applied[target[a]] < 1
        BY <2>1, <2>3, <3>1, <3>2, <1>13, AppliedOK
      <3> QED BY <2>1, <2>2, <2>4, <3>1, <3>2 DEF P!PromiseNext, P!Happens
    <2>5. CASE ~(First(target[a]) /\ applied[target[a]] < 2)
      BY <2>1, <2>2, <2>3, <2>5, <1>13 DEF Apply, P!pvars
    <2> QED BY <2>4, <2>5
  <1>14. ASSUME NEW a \in Actors, AdapterFails(a) PROVE P!PromiseNext \/ UNCHANGED
    P!pvars
    <2>1. UNCHANGED <<effect, applied>>
      BY <1>14 DEF AdapterFails
    <2>2. \A d \in Calls : pc'[d] = "returned" <=> pc[d] = "returned"
      BY <1>14, Members DEF AdapterFails, Typed, ActorsTyped, Roles, Actors
    <2> QED BY <2>1, <2>2, QuietOK
  <1>15. ASSUME NEW s \in Sweepers, GiveUp(s) PROVE P!PromiseNext \/ UNCHANGED P!pvars
    <2>1. target[s] \in Effects /\ effect[target[s]].st # "none" /\ applied' = applied
      BY <1>15, Members DEF GiveUp, Judging, Typed, Targets, Engaged, Guarded
    <2>2. \A d \in Calls : pc'[d] = "returned" <=> pc[d] = "returned"
      BY <1>15, Members DEF GiveUp, Judging, Goto, Typed, ActorsTyped, EffectAssumption
    <2>3. Recorded(target[s], "unknown")
      BY <1>15 DEF GiveUp, MarkUnknown
    <2> QED BY <2>1, <2>2, <2>3, DecidedOK
  <1>16. ASSUME NEW s \in Sweepers, CommitRecovered(s) PROVE P!PromiseNext \/
    UNCHANGED P!pvars
    <2>1. UNCHANGED applied /\ s \in Actors
      BY <1>16, Members DEF CommitRecovered
    <2>2. target[s] \in Effects /\ effect[target[s]].st # "none" /\ applied[target[s]] > 0
      BY <1>16, Members DEF CommitRecovered, Answered, OnceInv, AnswersTrue, Typed, Targets, Engaged, Guarded
    <2>3. \A d \in Calls : pc'[d] = "returned" <=> pc[d] = "returned"
      BY <1>16, Members DEF CommitRecovered, Goto, Typed, ActorsTyped, EffectAssumption
    <2>4. Recorded(target[s], "result") \/ effect' = effect
      BY <1>16 DEF CommitRecovered
    <2> QED BY <2>1, <2>2, <2>3, <2>4, DecidedOK, QuietOK
  <1>17. ASSUME NEW s \in Sweepers, ReleaseRun(s) PROVE P!PromiseNext \/ UNCHANGED
    P!pvars
    <2>1. UNCHANGED <<effect, applied>>
      BY <1>17 DEF ReleaseRun
    <2>2. \A d \in Calls : pc'[d] = "returned" <=> pc[d] = "returned"
      BY <1>17, Members DEF ReleaseRun, Goto, Typed, ActorsTyped, Roles, Actors
    <2> QED BY <2>1, <2>2, QuietOK
  <1>18. ASSUME NEW s \in Sweepers, Defer(s) PROVE P!PromiseNext \/ UNCHANGED P!pvars
    <2>1. UNCHANGED <<effect, applied>>
      BY <1>18 DEF Defer
    <2>2. \A d \in Calls : pc'[d] = "returned" <=> pc[d] = "returned"
      BY <1>18, Members DEF Defer, Goto, Raises, EffectAssumption, Typed, ActorsTyped, Roles, Actors
    <2> QED BY <2>1, <2>2, QuietOK
  <1>19. ASSUME NEW s \in Sweepers, CrashSweep(s) PROVE P!PromiseNext \/ UNCHANGED
    P!pvars
    <2>1. UNCHANGED <<effect, applied>>
      BY <1>19 DEF CrashSweep
    <2>2. \A d \in Calls : pc'[d] = "returned" <=> pc[d] = "returned"
      BY <1>19, Members DEF CrashSweep, Goto, Typed, ActorsTyped, Roles, Actors
    <2> QED BY <2>1, <2>2, QuietOK
  <1>20. ASSUME NEW s \in Sweepers, NEW e \in Effects, ClaimRecovery(s, e) PROVE
    P!PromiseNext \/ UNCHANGED P!pvars
    <2>1. UNCHANGED <<effect, applied>>
      BY <1>20 DEF ClaimRecovery
    <2>2. \A d \in Calls : pc'[d] = "returned" <=> pc[d] = "returned"
      BY <1>20, Members DEF ClaimRecovery, Goto, Typed, ActorsTyped, Roles, Actors
    <2> QED BY <2>1, <2>2, QuietOK
  <1>21. ASSUME NEW e \in Effects, SettleStopped(e) PROVE P!PromiseNext \/ UNCHANGED
    P!pvars
    <2>1. effect[e].st # "none" /\ UNCHANGED <<pc, applied>> /\ Recorded(e, "unknown")
      BY <1>21 DEF SettleStopped
    <2> QED BY <2>1, DecidedOK
  <1>22. ASSUME NEW r \in Runs, WorkerEnds(r) PROVE P!PromiseNext \/ UNCHANGED P!pvars
    <2>1. UNCHANGED <<effect, applied>>
      BY <1>22 DEF WorkerEnds
    <2>2. \A d \in Calls : pc'[d] = "returned" <=> pc[d] = "returned"
      BY <1>22, Members DEF WorkerEnds, Typed, ActorsTyped, Roles, Actors
    <2> QED BY <2>1, <2>2, QuietOK
  <1>23. ASSUME NEW r \in Runs, WorkerFenced(r) PROVE P!PromiseNext \/ UNCHANGED
    P!pvars
    <2>1. UNCHANGED <<effect, applied>>
      BY <1>23 DEF WorkerFenced
    <2>2. \A d \in Calls : pc'[d] = "returned" <=> pc[d] = "returned"
      BY <1>23, Members DEF WorkerFenced, Typed, ActorsTyped, Roles, Actors
    <2> QED BY <2>1, <2>2, QuietOK
  <1>24. ASSUME NEW r \in Runs, CrashWorker(r) PROVE P!PromiseNext \/ UNCHANGED
    P!pvars
    <2>1. UNCHANGED <<effect, applied>>
      BY <1>24 DEF CrashWorker
    <2>2. \A d \in Calls : pc'[d] = "returned" <=> pc[d] = "returned"
      BY <1>24, Members DEF CrashWorker, Over, CallsOf, Typed, ActorsTyped, Roles, Actors
    <2> QED BY <2>1, <2>2, QuietOK
  <1>25. ASSUME NEW e \in Effects, ClaimExpires(e)
       PROVE  UNCHANGED <<effect, pc, applied>>
    BY <1>25 DEF ClaimExpires
  <1>26. ASSUME NEW r \in Runs, CancelRun(r) \/ RecoverPause(r) \/ RunLeaseExpires(r)
       PROVE  UNCHANGED <<effect, pc, applied>>
    BY <1>26 DEF CancelRun, RecoverPause, RunLeaseExpires
  <1>27. ASSUME UNCHANGED <<effect, pc, applied>> PROVE P!PromiseNext \/ UNCHANGED P!pvars
    BY <1>27 DEF Outcome, Informed, P!pvars
  <1>28. QED
    BY <1>1, <1>2, <1>3, <1>4, <1>5, <1>6, <1>7, <1>8, <1>9, <1>10, <1>11, <1>12,
      <1>13, <1>14, <1>15, <1>16, <1>17, <1>18, <1>19, <1>20, <1>21, <1>22, <1>23,
      <1>24, <1>25, <1>26, <1>27 DEF Next, CallStep, ActorStep, SweepStep, RunStep


\* No call begun is where the promise begins.
LEMMA PromiseInitOK == EffectAssumption /\ Init => P!PromiseInit
  BY Members DEF EffectAssumption, Init, P!PromiseInit, Outcome, Informed

\* ToolEffects implements ToolPromise: every call and sweep sees one outcome per idempotency key,
\* a result only of something that took place, and what must not repeat does not.
THEOREM LedgerImplementsPromise == Spec => ImplementsPromise
  <1>1. Init => P!PromiseInit
    BY EffectAssumption, PromiseInitOK
  <1>2. OnceInv /\ [Next]_vars => [P!PromiseNext]_P!pvars
    <2>1. OnceInv /\ Next => P!PromiseNext \/ UNCHANGED P!pvars
      BY EffectAssumption, PromiseStep DEF OnceInv
    <2>2. UNCHANGED vars => UNCHANGED P!pvars
      BY DEF vars, P!pvars, Outcome, Informed
    <2> QED BY <2>1, <2>2
  <1> QED BY <1>1, <1>2, OnceAlways, PTL DEF Spec, ImplementsPromise, P!PromiseSpec
=============================================================================
