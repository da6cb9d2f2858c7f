---------------------------- MODULE MemoryOutbox ----------------------------
(***************************************************************************)
(* What is remembered of a turn once it is answered: a pipeline job         *)
(* extracts candidates, one job per candidate writes a memory layer, and    *)
(* when all of them have ended a settlement job writes the turn's card.     *)
(*                                                                         *)
(*   core/memory/outbox.py               the jobs, their leases and workers *)
(*   core/memory/effect_lane.py          one L2 write at a time, in order   *)
(*   core/memory/extractors/writers.py,                                     *)
(*   core/memory/service.py              the L2 write and its receipts      *)
(*                                                                         *)
(* One user and workspace, so one lane.  A worker is a process with its     *)
(* MemoryOutboxWorker; it takes one job at a time.  The external store is   *)
(* a set of entries; each keeps the receipts of the rules that made it or   *)
(* reinforced it.                                                           *)
(***************************************************************************)
EXTENDS Naturals, FiniteSets, SequencesExt

CONSTANTS
    Messages,     \* the answered turns
    Layers,       \* the memory layers that extraction may find something for
    Rules,        \* an L2 candidate carries the rules 1 .. Rules
    Entries,      \* entries of the external store
    Workers,
    None,
    Disturbances, \* the kinds of fault that may happen
    MaxAttempts,  \* settings.memory.outbox_max_attempts
    MaxFaults     \* bound on crashes and stalls

Kinds == {"fail", "stall", "crash", "stop", "heartbeat", "late", "skew"}

Jobs  == ({"pipeline", "settlement"} \cup Layers) \X Messages

ASSUME OutboxAssumption ==
    /\ Layers \subseteq {"L1", "L2"}
    /\ Disturbances \subseteq Kinds
    /\ Rules \in Nat /\ MaxAttempts \in Nat \ {0} /\ MaxFaults \in Nat
    /\ None \notin Workers \cup Jobs /\ \A S \in SUBSET Layers : S # None
    /\ IsFiniteSet(Messages)

Kind(j)  == j[1]
Msg(j)   == j[2]
Done     == {"succeeded", "quarantined"}
Receipts == Messages \X (1 .. Rules)
Facts    == [failed: BOOLEAN, items: SUBSET Layers]

VARIABLES
    row,      \* memory_outbox
    line,     \* the rows in the order of created_at
    found,    \* result_json of a pipeline row: the candidates of the turn
    worker,
    lane,     \* who holds the advisory lock of the scope
    store,    \* receipts of each entry of the external store
    applied,  \* how often a rule changed the store, up to 2
    saved,    \* turns whose assistant message is in chat_messages
    card,     \* the settlement in the metadata of the message
    faults

world == <<store, applied>>
vars  == <<row, line, found, worker, lane, store, applied, saved, card, faults>>

OutboxTypeOK ==
    /\ row \in [Jobs -> [st: {"absent", "pending", "processing", "retry"} \cup Done,
                         attempts: 0 .. MaxAttempts + MaxFaults,
                         owner: Workers \cup {None}, fresh: BOOLEAN]]
    /\ line \in Seq(Jobs) /\ IsInjective(line)
    /\ \A j \in Jobs : row[j].st # "absent" <=> j \in Range(line)
    /\ \A m \in Messages, l \in Layers :
          row[<<l, m>>].st # "absent" <=> found[m] # None /\ l \in found[m]
    /\ found \in [Messages -> (SUBSET Layers) \cup {None}]
    /\ worker \in [Workers -> [pc: {"free", "claimed", "ready", "turn", "done",
                                    "failed", "failing", "down"},
                               job: Jobs \cup {None}, rule: 1 .. Rules + 1,
                               confirmed: SUBSET (Entries \X (1 .. Rules)),
                               tries: 0 .. MaxAttempts + MaxFaults,
                               facts: Facts \cup {None}]]
    /\ lane \in Workers \cup {None}
    /\ store \in [Entries -> SUBSET Receipts]
    /\ applied \in [Receipts -> 0 .. 2]
    /\ saved \subseteq Messages
    /\ card \in [Messages -> Facts \cup {None}]
    /\ faults \in 0 .. MaxFaults

FreeWorker == [pc |-> "free", job |-> None, rule |-> 1, confirmed |-> {},
               tries |-> 0, facts |-> None]

Init ==
    /\ row = [j \in Jobs |-> [st |-> "absent", attempts |-> 0, owner |-> None,
                              fresh |-> FALSE]]
    /\ line = <<>>
    /\ found = [m \in Messages |-> None]
    /\ worker = [w \in Workers |-> FreeWorker]
    /\ lane = None
    /\ store = [e \in Entries |-> {}]
    /\ applied = [r \in Receipts |-> 0]
    /\ saved = {}
    /\ card = [m \in Messages |-> None]
    /\ faults = 0

-----------------------------------------------------------------------------
Before(i, j) ==
    \E b \in DOMAIN line : line[b] = j /\ \E a \in DOMAIN line : a < b /\ line[a] = i

Freed(w)  == [worker EXCEPT ![w] = FreeWorker]
At(w, pc) == worker[w].pc = pc
Failing(w, j) == At(w, "failing") /\ worker[w].job = j
Goto(w, pc) == worker' = [worker EXCEPT ![w].pc = pc]
LeaveLane(w) == lane' = IF lane = w THEN None ELSE lane

\* Deviation: the row is known by its identity and status alone.
OwnsAny(w) == worker[w].job # None /\ row[worker[w].job].st = "processing"

\* id, status and lease_owner, in every update of a worker.
Owns(w) ==
    /\ worker[w].job # None
    /\ row[worker[w].job].st = "processing"
    /\ row[worker[w].job].owner = w

Released(r, st) == [r EXCEPT !.st = st, !.owner = None, !.fresh = FALSE]

Fault(kind) == kind \in Disturbances /\ faults < MaxFaults /\ faults' = faults + 1

\* created_at is a time of the host that inserts the rows.  Skew: it may lie
\* before that of rows already there, whether a clock is late or the inserting
\* transaction commits late.
Placed(new) ==
    {SubSeq(line, 1, k) \o n \o SubSeq(line, k + 1, Len(line)) :
        n \in SetToSeqs(new),
        k \in IF "skew" \in Disturbances THEN 0 .. Len(line) ELSE {Len(line)}}

\* rows with new ones, in one transaction.
Insert(rows, new) ==
    /\ row' = [j \in Jobs |-> IF j \in new THEN [rows[j] EXCEPT !.st = "pending"]
                              ELSE rows[j]]
    /\ line' \in Placed(new)

EffectsOf(m) == {j \in Jobs : Msg(j) = m /\ Kind(j) # "settlement"}

\* Deviation: a row that waits for a retry counts as ended.
SettledRetried(rows, m) ==
    /\ rows[<<"pipeline", m>>].st \in Done
    /\ \A j \in EffectsOf(m) : rows[j].st \in Done \cup {"absent", "retry"}

\* All the rows of the message that exist, but a settlement, have ended.
Settled(rows, m) ==
    /\ rows[<<"pipeline", m>>].st # "absent"
    /\ \A j \in EffectsOf(m) : rows[j].st \in Done \cup {"absent"}

\* _enqueue_settlement_if_ready, within the transaction that writes rows.
Unsettled(rows, M) ==
    {<<"settlement", m>> : m \in {n \in M : /\ Settled(rows, n)
                                             /\ rows[<<"settlement", n>>].st = "absent"}}

JoinSettlement(rows, m) == Insert(rows, Unsettled(rows, {m}))

-----------------------------------------------------------------------------
(* The turn.                                                               *)

\* enqueue_pipeline_job.
Enqueue(m) ==
    /\ row[<<"pipeline", m>>].st = "absent"
    /\ Insert(row, {<<"pipeline", m>>})
    /\ UNCHANGED <<found, worker, lane, world, saved, card, faults>>

\* The executor commits the assistant message.
SaveMessage(m) ==
    /\ m \notin saved
    /\ saved' = saved \cup {m}
    /\ UNCHANGED <<row, line, found, worker, lane, world, card, faults>>

-----------------------------------------------------------------------------
(* Claims.                                                                 *)

\* An assumption unless "late": nobody takes a row between the two statements of
\* the _finish_failure of its owner.
Takeable(j) == "late" \in Disturbances \/ \A w \in Workers : ~Failing(w, j)

Expired(rows) ==
    [j \in Jobs |-> IF rows[j].st = "processing" /\ ~rows[j].fresh /\ Takeable(j)
                    THEN Released(rows[j], "retry") ELSE rows[j]]

\* _claim_next: expired leases first, then the oldest row that is due; a pending
\* row always is, a retried one after its delay.
ClaimNext(w, j) ==
    /\ At(w, "free")
    /\ LET rows == Expired(row) IN
       /\ rows[j].st \in {"pending", "retry"}
       /\ \A i \in Jobs : rows[i].st = "pending" => ~Before(i, j)
       /\ row' = [rows EXCEPT ![j] = [st |-> "processing", owner |-> w, fresh |-> TRUE,
                                      attempts |-> rows[j].attempts + 1]]
    /\ worker' = [worker EXCEPT ![w] = [FreeWorker EXCEPT !.pc = "claimed", !.job = j]]
    /\ UNCHANGED <<line, found, lane, world, saved, card, faults>>

\* _process_claimed: the checks before the work begins.
Begin(w) ==
    /\ At(w, "claimed") /\ Owns(w)
    /\ Goto(w, "ready")
    /\ UNCHANGED <<row, line, found, lane, world, saved, card, faults>>

\* _renew_lease does not ask whether the lease has ended.
Renew(w) ==
    /\ ~At(w, "free") /\ Owns(w) /\ ~row[worker[w].job].fresh
    /\ row' = [row EXCEPT ![worker[w].job].fresh = TRUE]
    /\ UNCHANGED <<line, found, worker, lane, world, saved, card, faults>>

Interrupted(w) ==
    /\ worker[w].pc \in {"claimed", "ready", "turn"}
    /\ worker' = Freed(w)
    /\ LeaveLane(w)
    /\ UNCHANGED <<row, line, found, world, saved, card>>

\* _lease_heartbeat cancels a job whose row is no longer the worker's; run_effect
\* lets a write in progress end first.
LeaseLost(w) == ~Owns(w) /\ Interrupted(w) /\ UNCHANGED faults

\* The renewal raised: the same, of a row that is still the worker's.
HeartbeatFails(w) ==
    /\ Fault("heartbeat")
    /\ Owns(w)
    /\ Interrupted(w)

-----------------------------------------------------------------------------
(* The pipeline job.                                                       *)

\* Deviation: what this attempt extracted, whatever an earlier one recorded.
ExtractedAnew(m, extracted) == extracted

\* A recorded extraction is not made again.
Extracted(m, extracted) == IF found[m] = None THEN extracted ELSE found[m]

\* _checkpoint_pipeline_candidates: the extraction and a row per candidate.
Checkpoint(w, extracted) ==
    /\ At(w, "ready") /\ Owns(w)
    /\ Kind(worker[w].job) = "pipeline"
    /\ LET m   == Msg(worker[w].job)
           all == Extracted(m, extracted) IN
       /\ found' = [found EXCEPT ![m] = all]
       /\ Insert(row, {j \in all \X {m} : row[j].st = "absent"})
    /\ Goto(w, "done")
    /\ UNCHANGED <<lane, world, saved, card, faults>>

-----------------------------------------------------------------------------
(* Candidates.                                                             *)

\* A write to the profile (L1) outside the lane.
WriteProfile(w) ==
    /\ At(w, "ready") /\ Kind(worker[w].job) = "L1"
    /\ Goto(w, "done")
    /\ UNCHANGED <<row, line, found, lane, world, saved, card, faults>>

Waiting(j) == row[j].st \notin Done \cup {"absent"}

\* Deviation: whoever has the lock may write.
OldestAny(j) == TRUE

\* Deviation: a row that waits for a retry holds nobody up.
OldestRunning(j) ==
    /\ Waiting(j)
    /\ \A m \in Messages : row[<<"L2", m>>].st \in {"pending", "processing"}
                              => ~Before(<<"L2", m>>, j)

\* _oldest_nonterminal.
Oldest(j) ==
    /\ Waiting(j)
    /\ \A m \in Messages : Waiting(<<"L2", m>>) => ~Before(<<"L2", m>>, j)

\* ordered_l2_effect: with the lock, the job must be the oldest of the lane.
TakeTurn(w) ==
    /\ At(w, "ready") /\ Kind(worker[w].job) = "L2"
    /\ lane = None
    /\ Oldest(worker[w].job)
    /\ lane' = w
    /\ Goto(w, "turn")
    /\ UNCHANGED <<row, line, found, world, saved, card, faults>>

\* _defer_claim: the attempt is given back.
Defer(w) ==
    /\ At(w, "ready") /\ Kind(worker[w].job) = "L2"
    /\ lane = None
    /\ ~Oldest(worker[w].job)
    /\ LET j == worker[w].job IN
       row' = IF Owns(w)
              THEN [row EXCEPT ![j] = [Released(row[j], "retry")
                                         EXCEPT !.attempts = @ - 1]]
              ELSE row
    /\ worker' = Freed(w)
    /\ UNCHANGED <<line, found, lane, world, saved, card, faults>>

Writing(w) == At(w, "turn") /\ worker[w].rule <= Rules
Receipt(w) == <<Msg(worker[w].job), worker[w].rule>>

Confirm(w, e) ==
    worker' = [worker EXCEPT ![w].rule = @ + 1,
                             ![w].confirmed = @ \cup {<<e, worker[w].rule>>}]

\* find_procedure_by_effect_id: an earlier attempt has written the rule.
Replayed(w, e) ==
    /\ Writing(w)
    /\ Receipt(w) \in store[e]
    /\ Confirm(w, e)
    /\ UNCHANGED <<row, line, found, lane, world, saved, card, faults>>

\* Deviation: the receipts confirmed by this attempt are not handed on.
KeptStale(w, e, seen) == seen \cap {r \in store[e] : r[1] = Msg(worker[w].job)}

\* reinforce_procedure_entry keeps the receipts of the candidate at hand only:
\* those in the metadata, which a search may show as it was earlier, and those
\* confirmed by this attempt.
Kept(w, e, seen) ==
    (seen \cap {r \in store[e] : r[1] = Msg(worker[w].job)})
        \cup {<<Msg(worker[w].job), n>> : n \in {k \in 1 .. Rules :
                                              <<e, k>> \in worker[w].confirmed}}

\* _write_procedures_to_milvus: a new entry, or one that is similar is reinforced.
WriteRule(w, e, seen) ==
    /\ Writing(w)
    /\ \A x \in Entries : Receipt(w) \notin store[x]
    /\ store' = [store EXCEPT ![e] = Kept(w, e, seen) \cup {Receipt(w)}]
    /\ applied' = [applied EXCEPT ![Receipt(w)] = IF @ = 2 THEN 2 ELSE @ + 1]
    /\ Confirm(w, e)
    /\ UNCHANGED <<row, line, found, lane, saved, card, faults>>

\* The transaction that holds the lock ends before the row is acknowledged.
EndTurn(w) ==
    /\ At(w, "turn") /\ worker[w].rule > Rules
    /\ LeaveLane(w)
    /\ Goto(w, "done")
    /\ UNCHANGED <<row, line, found, world, saved, card, faults>>

-----------------------------------------------------------------------------
(* The settlement job.                                                     *)

\* _settlement_facts.
FactsOf(m) ==
    [failed |-> \E j \in EffectsOf(m) : row[j].st = "quarantined",
     items  |-> {l \in Layers : row[<<l, m>>].st = "succeeded"}]

ReadFacts(w) ==
    /\ At(w, "ready") /\ Kind(worker[w].job) = "settlement"
    /\ worker' = [worker EXCEPT ![w].pc = "done",
                                ![w].facts = FactsOf(Msg(worker[w].job))]
    /\ UNCHANGED <<row, line, found, lane, world, saved, card, faults>>

-----------------------------------------------------------------------------
(* Acknowledgement.                                                        *)

\* A settlement is acknowledged together with its card, in the message.
MayFinish(w) == Kind(worker[w].job) = "settlement" => Msg(worker[w].job) \in saved

\* _finish_success.
FinishSuccess(w) ==
    /\ At(w, "done") /\ Owns(w) /\ MayFinish(w)
    /\ LET j == worker[w].job IN
       /\ JoinSettlement([row EXCEPT ![j] = Released(row[j], "succeeded")], Msg(j))
       /\ card' = IF Kind(j) = "settlement" THEN [card EXCEPT ![Msg(j)] = worker[w].facts]
                  ELSE card
    /\ worker' = Freed(w)
    /\ UNCHANGED <<found, lane, world, saved, faults>>

\* The row is another worker's by now.
FinishLost(w) ==
    /\ worker[w].pc \in {"done", "failed"} /\ ~Owns(w)
    /\ worker' = Freed(w)
    /\ UNCHANGED <<row, line, found, lane, world, saved, card, faults>>

\* An exception of the work, or of its acknowledgement: the message is not there
\* yet, the database failed, or the row was lost before the checkpoint.
Raises(w) ==
    /\ \/ "fail" \in Disturbances /\ worker[w].pc \in {"ready", "turn", "done"}
       \/ At(w, "ready") /\ Kind(worker[w].job) = "pipeline" /\ ~Owns(w)
       \/ At(w, "done") /\ Owns(w) /\ ~MayFinish(w)
    /\ Goto(w, "failed")
    /\ LeaveLane(w)
    /\ UNCHANGED <<row, line, found, world, saved, card, faults>>

\* _finish_failure reads the row and checks its owner, then waits for the lock of
\* the pipeline row ...
FinishFailure(w) ==
    /\ At(w, "failed") /\ Owns(w)
    /\ worker' = [worker EXCEPT ![w].pc = "failing",
                                ![w].tries = row[worker[w].job].attempts]
    /\ UNCHANGED <<row, line, found, lane, world, saved, card, faults>>

\* Deviation: given up without a look at the settlement.
JoinNothing(rows, m) == Insert(rows, {})

JoinAfterFailure(rows, m) == JoinSettlement(rows, m)

\* ... and writes what it decided whatever the row has become.
RecordFailure(w) ==
    /\ At(w, "failing")
    /\ LET j == worker[w].job IN
       IF worker[w].tries >= MaxAttempts
       THEN JoinAfterFailure([row EXCEPT ![j] = Released(row[j], "quarantined")], Msg(j))
       ELSE row' = [row EXCEPT ![j] = Released(row[j], "retry")] /\ UNCHANGED line
    /\ worker' = Freed(w)
    /\ UNCHANGED <<found, lane, world, saved, card, faults>>

-----------------------------------------------------------------------------
(* Faults.                                                                 *)

\* A lease ends if nobody renews it: nobody works on the row any more, or its
\* worker stalls.
LeaseExpires(j) ==
    /\ row[j].st = "processing" /\ row[j].fresh
    /\ LET w == row[j].owner IN
       IF w = None \/ worker[w].job # j THEN UNCHANGED faults
       ELSE Fault("stall")
    /\ row' = [row EXCEPT ![j].fresh = FALSE]
    /\ UNCHANGED <<line, found, worker, lane, world, saved, card>>

Down(w) ==
    /\ worker' = [worker EXCEPT ![w] = [FreeWorker EXCEPT !.pc = "down"]]
    /\ LeaveLane(w)

\* The server releases the lock of a process that died.  No worker has the
\* identity of its leases again.
Crash(w) ==
    /\ ~At(w, "down") /\ Fault("crash")
    /\ Down(w)
    /\ row' = [j \in Jobs |-> IF row[j].owner = w THEN [row[j] EXCEPT !.owner = None]
                              ELSE row[j]]
    /\ UNCHANGED <<line, found, world, saved, card>>

\* MemoryOutboxWorker.stop cancels the loop at an await, then gives the leases up.
Stop(w) ==
    /\ worker[w].pc \in {"free", "claimed", "ready", "turn"} /\ Fault("stop")
    /\ Down(w)
    /\ row' = [j \in Jobs |-> IF row[j].owner = w THEN Released(row[j], "retry")
                              ELSE row[j]]
    /\ UNCHANGED <<line, found, world, saved, card>>

\* MemoryOutboxWorker.start, with reconcile_settlement_jobs.
Start(w) ==
    /\ At(w, "down")
    /\ worker' = Freed(w)
    /\ Insert(row, Unsettled(row, Messages))
    /\ UNCHANGED <<found, lane, world, saved, card, faults>>

-----------------------------------------------------------------------------
WorkerStep(w) ==
    \/ Begin(w) \/ LeaseLost(w)
    \/ \E extracted \in SUBSET Layers : Checkpoint(w, extracted)
    \/ WriteProfile(w) \/ TakeTurn(w) \/ Defer(w)
    \/ \E e \in Entries : Replayed(w, e)
    \/ \E e \in Entries, seen \in SUBSET Receipts : WriteRule(w, e, seen)
    \/ EndTurn(w) \/ ReadFacts(w)
    \/ FinishSuccess(w) \/ FinishLost(w) \/ FinishFailure(w) \/ RecordFailure(w)
    \/ Start(w)

Next ==
    \/ \E m \in Messages : Enqueue(m) \/ SaveMessage(m)
    \/ \E w \in Workers, j \in Jobs : ClaimNext(w, j)
    \/ \E w \in Workers :
          \/ WorkerStep(w) \/ Raises(w) \/ Renew(w)
          \/ HeartbeatFails(w) \/ Crash(w) \/ Stop(w)
    \/ \E j \in Jobs : LeaseExpires(j)

Spec == Init /\ [][Next]_vars

(* Tasks run on, a worker that went down is started again, the oldest row   *)
(* that is due is claimed next, and a lease that is not renewed ends.       *)
Fairness ==
    /\ \A w \in Workers : WF_vars(WorkerStep(w) \/ (Raises(w) /\ ~MayFinish(w)))
    /\ \A j \in Jobs : /\ SF_vars(\E w \in Workers : ClaimNext(w, j))
                        /\ WF_vars(LeaseExpires(j))

FairSpec == Spec /\ Fairness

-----------------------------------------------------------------------------
(* Properties.                                                             *)

\* db/models/memory.py:56-58: "a crash after the remote effect but before
\* acknowledgement does not apply it twice."
EffectOnce == \A r \in Receipts : applied[r] <= 1

\* service.py:943-946, reinforce_procedure_entry: "The ordered per-scope effect
\* lane guarantees that an older row has already been acknowledged before a newer
\* row may replace this small receipt set": what a row that may run again has
\* written can be recognised.
ReceiptsKept ==
    \A r \in Receipts :
        (applied[r] > 0 /\ Waiting(<<"L2", r[1]>>)) => \E e \in Entries : r \in store[e]

\* A job that succeeded or was given up does not come back, whatever a worker that
\* has lost it still does (_finish_success, _finish_failure, _defer_claim), the
\* assumption of Takeable given.
EndedIsFinal ==
    [][\A j \in Jobs : row[j].st \in Done => row'[j].st = row[j].st]_vars

\* The card tells all that was remembered of the turn and whether something was
\* given up; it is written once nothing of that can change any more, though it is
\* computed before the transaction that writes it (_process_settlement).
CardComplete == \A m \in Messages : card[m] # None => card[m] = FactsOf(m)

L2Row(m) == <<"L2", m>>
InLane   == {m \in Messages : L2Row(m) \in Jobs}

L == INSTANCE LanePromise WITH
        Candidates <- InLane,
        admitted <- {m \in InLane : row[L2Row(m)].st # "absent"},
        waiting  <- {m \in InLane : Waiting(L2Row(m))},
        ahead    <- [m \in InLane |-> {i \in InLane : Before(L2Row(i), L2Row(m))}],
        written  <- [m \in InLane |-> [n \in 1 .. Rules |-> applied[<<m, n>>]]],
        lost     <- {m \in InLane : row[L2Row(m)].st = "quarantined"}

\* effect_lane.py, ordered_l2_effect: candidates write in turn, each rule once, and
\* a later worker never overtakes a job that crashed.
ImplementsLane == L!LaneSpec

\* Every turn is settled or its settlement given up; nobody waits for a job that
\* nobody will end.
TurnSettles ==
    \A m \in Messages :
        row[<<"pipeline", m>>].st # "absent" ~> row[<<"settlement", m>>].st \in Done
=============================================================================
