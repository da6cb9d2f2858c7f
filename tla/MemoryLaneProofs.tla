-------------------------- MODULE MemoryLaneProofs --------------------------
(***************************************************************************)
(* Proof that the lane of MemoryOutbox implements LanePromise, for any      *)
(* turns, rules, entries, workers, attempts and faults, if no clock is off, *)
(* nobody takes a row within _finish_failure, and a worker whose lease ends *)
(* in its turn does not meet another one that fails on its job.             *)
(***************************************************************************)
EXTENDS MemoryOutboxProofs

-----------------------------------------------------------------------------
(* What a step does to the worker and to the rows of the lane.              *)

\* How a worker comes to have done a candidate of the lane, or to have failed on it.
Arrives(w) ==
    Kind(worker'[w].job) = "L2" =>
        /\ worker'[w].pc = "done" =>
              /\ worker'[w].job = worker[w].job
              /\ worker[w].pc = "done" \/ (worker[w].pc = "turn" /\ worker[w].rule > Rules)
        /\ worker'[w].pc \in {"failed", "failing"} =>
              /\ worker'[w].job = worker[w].job
              /\ worker[w].pc \in {"failed", "failing"} \/ "fail" \in Disturbances

\* Only from its turn, all its rules written; and only if something fails.
LEMMA Arrivals ==
    ASSUME OutboxAssumption, NoLate, Typed, Next
    PROVE  \A v \in Workers : Arrives(v)
  <1>1. ASSUME NEW w \in Workers, NEW j \in Jobs, ClaimNext(w, j) PROVE \A v \in
    Workers : Arrives(v)
    BY <1>1 DEF ClaimNext, FreeWorker, Arrives, Typed, WorkersTyped
  <1>2. ASSUME NEW w \in Workers, Begin(w) PROVE \A v \in Workers : Arrives(v)
    BY <1>2 DEF Begin, At, Goto, Arrives, Typed, WorkersTyped, Hand
  <1>3. ASSUME NEW w \in Workers, LeaseLost(w) PROVE \A v \in Workers : Arrives(v)
    BY <1>3 DEF LeaseLost, Interrupted, Freed, FreeWorker, Arrives, Typed, WorkersTyped
  <1>4. ASSUME NEW w \in Workers, WriteProfile(w) PROVE \A v \in Workers : Arrives(v)
    BY <1>4 DEF WriteProfile, At, Goto, Arrives, Typed, WorkersTyped, Hand
  <1>5. ASSUME NEW w \in Workers, TakeTurn(w) PROVE \A v \in Workers : Arrives(v)
    BY <1>5 DEF TakeTurn, At, Goto, Arrives, Typed, WorkersTyped, Hand
  <1>6. ASSUME NEW w \in Workers, Defer(w) PROVE \A v \in Workers : Arrives(v)
    BY <1>6 DEF Defer, Interrupted, Freed, FreeWorker, Arrives, Typed, WorkersTyped
  <1>7. ASSUME NEW w \in Workers, EndTurn(w) PROVE \A v \in Workers : Arrives(v)
    <2>1. worker[w].pc = "turn" /\ worker[w].rule > Rules /\ worker' = [worker EXCEPT ![w].pc = "done"]
      BY <1>7 DEF EndTurn, At, Goto
    <2> QED BY <2>1 DEF Arrives, Typed, WorkersTyped, Hand
  <1>8. ASSUME NEW w \in Workers, ReadFacts(w) PROVE \A v \in Workers : Arrives(v)
    <2> DEFINE f == FactsOf(Msg(worker[w].job))
    <2>1. worker' = [worker EXCEPT ![w].pc = "done", ![w].facts = f] /\ Kind(worker[w].job) = "settlement"
      BY <1>8 DEF ReadFacts
    <2> HIDE DEF f
    <2> QED BY <2>1 DEF Arrives, Typed, WorkersTyped, Hand
  <1>9. ASSUME NEW w \in Workers, FinishSuccess(w) PROVE \A v \in Workers : Arrives(v)
    BY <1>9 DEF FinishSuccess, Interrupted, Freed, FreeWorker, Arrives, Typed, WorkersTyped
  <1>10. ASSUME NEW w \in Workers, FinishLost(w) PROVE \A v \in Workers : Arrives(v)
    BY <1>10 DEF FinishLost, Interrupted, Freed, FreeWorker, Arrives, Typed, WorkersTyped
  <1>11. ASSUME NEW w \in Workers, FinishFailure(w) PROVE \A v \in Workers :
    Arrives(v)
    <2> DEFINE n == row[worker[w].job].attempts
    <2>1. worker' = [worker EXCEPT ![w].pc = "failing", ![w].tries = n] /\ worker[w].pc = "failed"
      BY <1>11 DEF FinishFailure, At
    <2> HIDE DEF n
    <2> QED BY <2>1 DEF Arrives, Typed, WorkersTyped, Hand
  <1>12. ASSUME NEW w \in Workers, RecordFailure(w) PROVE \A v \in Workers :
    Arrives(v)
    BY <1>12 DEF RecordFailure, Interrupted, Freed, FreeWorker, Arrives, Typed, WorkersTyped
  <1>13. ASSUME NEW w \in Workers, Start(w) PROVE \A v \in Workers : Arrives(v)
    BY <1>13 DEF Start, Interrupted, Freed, FreeWorker, Arrives, Typed, WorkersTyped
  <1>14. ASSUME NEW w \in Workers, Raises(w) PROVE \A v \in Workers : Arrives(v)
    <2>1. worker' = [worker EXCEPT ![w].pc = "failed"]
      BY <1>14 DEF Raises, Goto
    <2>2. Kind(worker[w].job) = "L2" => "fail" \in Disturbances
      BY <1>14 DEF Raises, MayFinish
    <2> QED BY <2>1, <2>2 DEF Arrives, Typed, WorkersTyped, Hand
  <1>15. ASSUME NEW w \in Workers, HeartbeatFails(w) PROVE \A v \in Workers :
    Arrives(v)
    BY <1>15 DEF HeartbeatFails, Interrupted, Freed, FreeWorker, Arrives, Typed, WorkersTyped
  <1>16. ASSUME NEW w \in Workers, Crash(w) PROVE \A v \in Workers : Arrives(v)
    BY <1>16 DEF Crash, Down, FreeWorker, Arrives, Typed, WorkersTyped
  <1>17. ASSUME NEW w \in Workers, Stop(w) PROVE \A v \in Workers : Arrives(v)
    BY <1>17 DEF Stop, Down, FreeWorker, Arrives, Typed, WorkersTyped
  <1>18. ASSUME NEW w \in Workers, NEW x \in SUBSET Layers, Checkpoint(w, x) PROVE \A
    v \in Workers : Arrives(v)
    BY <1>18 DEF Checkpoint, At, Goto, Arrives, Typed, WorkersTyped, Hand
  <1>19. ASSUME NEW w \in Workers, NEW e \in Entries, Replayed(w, e) PROVE \A v \in
    Workers : Arrives(v)
    BY <1>19 DEF Replayed, Writing, At, Confirm, Arrives, Typed, WorkersTyped, Hand
  <1>20. ASSUME NEW w \in Workers, NEW e \in Entries, NEW s \in SUBSET Receipts,
    WriteRule(w, e, s) PROVE \A v \in Workers : Arrives(v)
    BY <1>20 DEF WriteRule, Writing, At, Confirm, Arrives, Typed, WorkersTyped, Hand
  <1>21. ASSUME NEW m \in Messages, Enqueue(m) \/ SaveMessage(m)
       PROVE  UNCHANGED <<worker>>
    BY <1>21 DEF Enqueue, world, SaveMessage
  <1>22. ASSUME NEW w \in Workers, Renew(w)
       PROVE  UNCHANGED <<worker>>
    BY <1>22 DEF Renew, world
  <1>23. ASSUME NEW j \in Jobs, LeaseExpires(j)
       PROVE  UNCHANGED <<worker>>
    BY <1>23 DEF LeaseExpires, Fault, world
  <1>24. ASSUME UNCHANGED <<worker>> PROVE \A v \in Workers : Arrives(v)
    BY <1>24 DEF Arrives, Typed, WorkersTyped
  <1>25. QED
    BY <1>1, <1>2, <1>3, <1>4, <1>5, <1>6, <1>7, <1>8, <1>9, <1>10, <1>11, <1>12,
      <1>13, <1>14, <1>15, <1>16, <1>17, <1>18, <1>19, <1>20, <1>21, <1>22, <1>23,
      <1>24 DEF Next, WorkerStep

\* No row ends; new candidates are of one message.
NoEnd    == \A j \in Jobs : row'[j].st \in Done <=> row[j].st \in Done
FoundOne == found' = found \/ \E c \in Messages : \A m \in Messages : m # c => found'[m] = found[m]

\* One row ends, and nothing else happens to the lane.
EndsOne(j) ==
    /\ row[j].st = "processing" /\ row'[j].st \in Done
    /\ \A i \in Jobs : i # j /\ row[i].st # "absent" => row'[i] = row[i]
    /\ row'[j].st = "succeeded" => \E w \in Workers : worker[w].pc = "done" /\ worker[w].job = j
    /\ found' = found /\ applied' = applied

RowMoves == (NoEnd /\ FoundOne) \/ \E j \in Jobs : EndsOne(j)

\* Rows that join do not end.
LEMMA JoinsQuietly ==
    ASSUME RowsTyped, NEW S \in SUBSET Jobs, \A j \in S : row[j].st = "absent", Insert(row, S)
    PROVE  NoEnd
  <1>1. ASSUME NEW j \in Jobs PROVE row'[j].st \in Done <=> row[j].st \in Done
    <2>1. CASE j \in S
      <3>1. row[j] \in RawRow /\ row'[j] = [row[j] EXCEPT !.st = "pending"]
        BY <2>1 DEF Insert, RowsTyped, Row
      <3> QED BY <2>1, <3>1 DEF RawRow, Done
    <2>2. CASE j \notin S
      BY <2>2, InsertOld
    <2> QED BY <2>1, <2>2
  <1> QED BY <1>1 DEF NoEnd

\* A row ends and the settlement of its message joins.
LEMMA EndsAndJoins ==
    ASSUME OutboxAssumption, RowsTyped, LineTyped, NEW i \in Jobs, row[i].st = "processing", NEW st \in Done,
           Insert([row EXCEPT ![i] = Released(row[i], st)],
                  Unsettled([row EXCEPT ![i] = Released(row[i], st)], {Msg(i)}))
    PROVE  /\ row'[i].st = st
           /\ \A j \in Jobs : j # i /\ row[j].st # "absent" => row'[j] = row[j]
  <1> DEFINE rows == [row EXCEPT ![i] = Released(row[i], st)]
             S == Unsettled(rows, {Msg(i)})
  <1>1. rows[i].st = st /\ \A j \in Jobs : j # i => rows[j] = row[j]
    BY ReleaseOK DEF States, Done
  <1>2. \A j \in S : rows[j].st = "absent"
    <2>1. {Msg(i)} \in SUBSET Messages
      BY JobOK
    <2> HIDE DEF rows
    <2> QED BY <2>1, UnsettledOK
  <1>3. \A j \in Jobs : j \notin S => row'[j] = rows[j]
    BY InsertOld
  <1>4. i \notin S
    BY <1>1, <1>2 DEF Done
  <1> HIDE DEF rows, S
  <1> QED BY <1>1, <1>2, <1>3, <1>4


\* The rows of the lane come one by one and end one by one.
LEMMA RowsMove ==
    ASSUME OutboxAssumption, NoLate, Typed, FailingOwns, Next
    PROVE  RowMoves
  <1>1. ASSUME NEW m \in Messages, Enqueue(m) PROVE RowMoves
    <2> DEFINE i == <<"pipeline", m>>
    <2>1. i \in Jobs
      BY JobsOK
    <2>2. Insert(row, {i}) /\ row[i].st = "absent" /\ found' = found
      BY <1>1 DEF Enqueue
    <2> HIDE DEF i
    <2>3. NoEnd
      BY <2>1, <2>2, JoinsQuietly DEF Typed
    <2> QED BY <2>2, <2>3 DEF RowMoves, FoundOne
  <1>2. ASSUME NEW w \in Workers, NEW j \in Jobs, ClaimNext(w, j) PROVE RowMoves
    <2> DEFINE rows == Expired(row)
               x == [st |-> "processing", owner |-> w, fresh |-> TRUE, attempts |-> rows[j].attempts + 1]
    <2>1. /\ rows \in [Jobs -> Row]
          /\ \A i \in Jobs : rows[i] = row[i] \/ (row[i].st = "processing" /\ rows[i].st = "retry")
      BY ExpiredOK DEF Typed
    <2>2. rows[j].st \in {"pending", "retry"} /\ row' = [rows EXCEPT ![j] = x] /\ found' = found
      BY <1>2 DEF ClaimNext
    <2> HIDE DEF rows
    <2>3. x.st = "processing"
      OBVIOUS
    <2> HIDE DEF x
    <2>4. row'[j].st = "processing" /\ \A i \in Jobs : i # j => row'[i] = rows[i]
      BY <2>1, <2>2, <2>3
    <2>5. NoEnd
      BY <2>1, <2>2, <2>4 DEF NoEnd, Done
    <2> QED BY <2>2, <2>5 DEF RowMoves, FoundOne
  <1>3. ASSUME NEW w \in Workers, Defer(w) PROVE RowMoves
    <2> DEFINE j == worker[w].job
    <2>1. j \in Jobs /\ row[j] \in RawRow /\ found' = found
      BY <1>3 DEF Defer, At, Typed, RowsTyped, Row, WorkersTyped, Hand
    <2>2. CASE Owns(w)
      <3> DEFINE x == [Released(row[j], "retry") EXCEPT !.attempts = row[j].attempts - 1]
      <3>1. Released(row[j], "retry") \in RawRow /\ Released(row[j], "retry").st = "retry"
            /\ Released(row[j], "retry").attempts = row[j].attempts
        BY <2>1, ReleasedOK DEF States, Row
      <3>2. x.st = "retry" /\ row' = [row EXCEPT ![j] = x]
        BY <1>3, <2>2, <3>1 DEF Defer, RawRow
      <3> HIDE DEF x
      <3>3. row'[j].st = "retry" /\ row[j].st = "processing" /\ \A i \in Jobs : i # j => row'[i] = row[i]
        BY <2>1, <2>2, <3>2 DEF Typed, RowsTyped, Owns
      <3>4. NoEnd
        BY <3>3 DEF NoEnd, Done
      <3> QED BY <2>1, <3>4 DEF RowMoves, FoundOne
    <2>3. CASE ~Owns(w)
      BY <1>3, <2>1, <2>3 DEF Defer, RowMoves, NoEnd, FoundOne
    <2> QED BY <2>2, <2>3
  <1>4. ASSUME NEW w \in Workers, FinishSuccess(w) PROVE RowMoves
    <2>1. PICK j \in Jobs : j = worker[w].job
      BY <1>4 DEF FinishSuccess, At, Typed, WorkersTyped
    <2>2. /\ row[j].st = "processing" /\ worker[w].pc = "done" /\ found' = found /\ applied' = applied
          /\ Insert([row EXCEPT ![j] = Released(row[j], "succeeded")],
                    Unsettled([row EXCEPT ![j] = Released(row[j], "succeeded")], {Msg(j)}))
      BY <1>4, <2>1 DEF FinishSuccess, At, Owns, JoinSettlement, world
    <2>3. "succeeded" \in Done
      BY DEF Done
    <2>4. row'[j].st = "succeeded" /\ \A i \in Jobs : i # j /\ row[i].st # "absent" => row'[i] = row[i]
      BY <2>2, <2>3, EndsAndJoins DEF Typed
    <2>5. EndsOne(j)
      BY <2>1, <2>2, <2>3, <2>4 DEF EndsOne
    <2> QED BY <2>5 DEF RowMoves
  <1>5. ASSUME NEW w \in Workers, RecordFailure(w) PROVE RowMoves
    <2>1. PICK j \in Jobs : j = worker[w].job
      BY <1>5 DEF RecordFailure, At, Typed, WorkersTyped
    <2>2. row[j].st = "processing" /\ found' = found /\ applied' = applied
      BY <1>5, <2>1 DEF RecordFailure, At, FailingOwns, world
    <2>3. CASE worker[w].tries >= MaxAttempts
      <3>1. Insert([row EXCEPT ![j] = Released(row[j], "quarantined")],
                   Unsettled([row EXCEPT ![j] = Released(row[j], "quarantined")], {Msg(j)}))
        BY <1>5, <2>1, <2>3 DEF RecordFailure, JoinAfterFailure, JoinSettlement
      <3>2. "quarantined" \in Done
        BY DEF Done
      <3>3. row'[j].st = "quarantined" /\ \A i \in Jobs : i # j /\ row[i].st # "absent" => row'[i] = row[i]
        BY <2>2, <3>1, <3>2, EndsAndJoins DEF Typed
      <3>4. EndsOne(j)
        BY <2>2, <3>2, <3>3 DEF EndsOne
      <3> QED BY <3>4 DEF RowMoves
    <2>4. CASE ~(worker[w].tries >= MaxAttempts)
      <3>1. row' = [row EXCEPT ![j] = Released(row[j], "retry")]
        BY <1>5, <2>1, <2>4 DEF RecordFailure
      <3>2. row'[j].st = "retry" /\ \A i \in Jobs : i # j => row'[i] = row[i]
        BY <3>1, ReleaseOK DEF States, Typed
      <3>3. NoEnd
        BY <2>2, <3>2 DEF NoEnd, Done
      <3> QED BY <2>2, <3>3 DEF RowMoves, FoundOne
    <2> QED BY <2>3, <2>4
  <1>6. ASSUME NEW w \in Workers, Start(w) PROVE RowMoves
    <2>1. Insert(row, Unsettled(row, Messages)) /\ found' = found
      BY <1>6 DEF Start
    <2>2. NoEnd
      BY <2>1, UnsettledOK, JoinsQuietly DEF Typed
    <2> QED BY <2>1, <2>2 DEF RowMoves, FoundOne
  <1>7. ASSUME NEW w \in Workers, Renew(w) PROVE RowMoves
    <2>1. worker[w].job \in Jobs /\ row' = [row EXCEPT ![worker[w].job].fresh = TRUE] /\ found' = found
      BY <1>7 DEF Renew, At, Typed, WorkersTyped, Owns, Hand
    <2>2. NoEnd
      BY <2>1 DEF NoEnd, Typed, RowsTyped, Row, RawRow
    <2> QED BY <2>1, <2>2 DEF RowMoves, FoundOne
  <1>8. ASSUME NEW w \in Workers, Crash(w) PROVE RowMoves
    <2>1. row' = [j \in Jobs |-> IF row[j].owner = w THEN [row[j] EXCEPT !.owner = None] ELSE row[j]]
          /\ found' = found
      BY <1>8 DEF Crash
    <2>2. NoEnd
      BY <2>1 DEF NoEnd, Typed, RowsTyped, Row, RawRow
    <2> QED BY <2>1, <2>2 DEF RowMoves, FoundOne
  <1>9. ASSUME NEW w \in Workers, Stop(w) PROVE RowMoves
    <2>1. row' = [j \in Jobs |-> IF row[j].owner = w THEN Released(row[j], "retry") ELSE row[j]]
          /\ found' = found
      BY <1>9 DEF Stop
    <2>2. ASSUME NEW j \in Jobs PROVE row'[j].st \in Done <=> row[j].st \in Done
      <3>1. row[j] \in RawRow /\ (row[j].owner = w => row[j].st = "processing")
        BY Bounds DEF Typed, RowsTyped, Row
      <3>2. Released(row[j], "retry").st = "retry"
        BY <3>1, ReleasedOK DEF States
      <3> QED BY <2>1, <3>1, <3>2 DEF Done
    <2> QED BY <2>1, <2>2 DEF RowMoves, NoEnd, FoundOne
  <1>10. ASSUME NEW w \in Workers, NEW x \in SUBSET Layers, Checkpoint(w, x) PROVE
    RowMoves
    <2> DEFINE c == worker[w].job
               m == Msg(c)
               all == Extracted(m, x)
               S == {j \in all \X {m} : row[j].st = "absent"}
    <2>1. c \in Jobs /\ m \in Messages /\ Insert(row, S) /\ found' = [found EXCEPT ![m] = all]
      BY <1>10, JobOK DEF Checkpoint, At, Owns, Typed, WorkersTyped, Hand
    <2>2. all \in SUBSET Layers
      <3>1. found[m] \in (SUBSET Layers) \cup {None} /\ x \in SUBSET Layers
        BY <1>10, <2>1 DEF Typed, FoundTyped
      <3> QED BY <3>1 DEF Extracted
    <2> HIDE DEF all, m
    <2>3. S \in SUBSET Jobs
      BY <2>1, <2>2 DEF Jobs
    <2>4. \A j \in S : row[j].st = "absent"
      OBVIOUS
    <2> HIDE DEF S
    <2>5. NoEnd
      BY <2>1, <2>3, <2>4, JoinsQuietly DEF Typed
    <2>6. FoundOne
      BY <2>1 DEF FoundOne, Typed, FoundTyped
    <2> QED BY <2>5, <2>6 DEF RowMoves
  <1>11. ASSUME NEW j \in Jobs, LeaseExpires(j) PROVE RowMoves
    <2>1. j \in Jobs /\ row' = [row EXCEPT ![j].fresh = FALSE] /\ found' = found
      BY <1>11 DEF LeaseExpires, At, Typed, WorkersTyped, Owns, Hand
    <2>2. NoEnd
      BY <2>1 DEF NoEnd, Typed, RowsTyped, Row, RawRow
    <2> QED BY <2>1, <2>2 DEF RowMoves, FoundOne
  <1>12. ASSUME NEW m \in Messages, SaveMessage(m)
       PROVE  UNCHANGED <<row, found>>
    BY <1>12 DEF SaveMessage, world
  <1>13. ASSUME NEW w \in Workers, Begin(w) \/ LeaseLost(w) \/ WriteProfile(w) \/
    TakeTurn(w) \/ EndTurn(w) \/ ReadFacts(w) \/ FinishLost(w) \/ FinishFailure(w) \/
    Raises(w) \/ HeartbeatFails(w)
       PROVE  UNCHANGED <<row, found>>
    BY <1>13 DEF Begin, Goto, world, LeaseLost, Interrupted, Freed, LeaveLane,
      WriteProfile, TakeTurn, EndTurn, ReadFacts, FinishLost, FinishFailure, Raises,
      HeartbeatFails, Fault
  <1>14. ASSUME NEW w \in Workers, NEW e \in Entries, Replayed(w, e)
       PROVE  UNCHANGED <<row, found>>
    BY <1>14 DEF Replayed, Confirm, world
  <1>15. ASSUME NEW w \in Workers, NEW e \in Entries, NEW s \in SUBSET Receipts,
    WriteRule(w, e, s)
       PROVE  UNCHANGED <<row, found>>
    BY <1>15 DEF WriteRule, Confirm, world
  <1>16. ASSUME UNCHANGED <<row, found>> PROVE RowMoves
    BY <1>16 DEF RowMoves, NoEnd, FoundOne
  <1>17. QED
    BY <1>1, <1>2, <1>3, <1>4, <1>5, <1>6, <1>7, <1>8, <1>9, <1>10, <1>11, <1>12,
      <1>13, <1>14, <1>15, <1>16 DEF Next, WorkerStep

-----------------------------------------------------------------------------
(* What is known of a candidate that is done, and of the one whose turn it  *)
(* is.                                                                      *)

AllWrote(m) == \A n \in 1 .. Rules : Wrote(m, n)
First(m)    == \A i \in InLane : Waiting(L2Row(i)) => ~Before(L2Row(i), L2Row(m))

\* Who is done with a candidate has written all its rules, and nothing before it waits.
DoneWrote == \A w \in Workers, m \in InLane :
                worker[w].pc = "done" /\ worker[w].job = L2Row(m) => AllWrote(m) /\ First(m)
EndWrote  == \A m \in InLane : row[L2Row(m)].st = "succeeded" => AllWrote(m)
WroteInv  == DoneWrote /\ EndWrote

\* Nobody has given up the candidate that is written.
GoesOn == \A w \in Workers, m \in InLane : Turn(w, m) => row[L2Row(m)].st # "quarantined"

NobodyFails ==
    /\ \A w \in Workers, m \in InLane :
          worker[w].pc \in {"failed", "failing"} => worker[w].job # L2Row(m)
    /\ \A m \in InLane : row[L2Row(m)].st # "quarantined"

LeasesHeld ==
    \A w \in Workers : worker[w].pc \notin {"free", "down"} =>
        /\ row[worker[w].job].st = "processing" /\ row[worker[w].job].owner = w
        /\ row[worker[w].job].fresh

\* What was written stays written.
LEMMA WroteStays ==
    ASSUME StoreTyped, LaneMoves, NEW m \in Messages, NEW n \in 1 .. Rules, Wrote(m, n)
    PROVE  Wrote(m, n)'
  <1>1. <<m, n>> \in Receipts
    BY DEF Receipts
  <1>2. CASE applied' = applied
    BY <1>2 DEF Wrote
  <1>3. ASSUME NEW w \in Workers, NEW e \in Entries, NEW s \in SUBSET Receipts, WriteRule(w, e, s)
        PROVE  Wrote(m, n)'
    <2>1. PICK q \in {Receipt(w)} :
             applied' = [applied EXCEPT ![q] = IF applied[q] = 2 THEN 2 ELSE applied[q] + 1]
      BY <1>3 DEF WriteRule
    <2> QED BY <1>1, <2>1 DEF Wrote, StoreTyped
  <1> QED BY <1>2, <1>3 DEF LaneMoves, Quiet, TakeTurn, Replayed, world

\* What is first of those that wait stays it.
LEMMA FirstStays ==
    ASSUME RowsTyped, RowsGo, OrderKept, NEW m \in InLane, row[L2Row(m)].st # "absent", First(m)
    PROVE  First(m)'
  <1> SUFFICES ASSUME NEW i \in InLane, Waiting(L2Row(i))', Before(L2Row(i), L2Row(m))'
               PROVE  FALSE
    BY DEF First
  <1>1. L2Row(i) \in Jobs /\ L2Row(m) \in Jobs
    BY DEF InLane
  <1>2. row[L2Row(i)].st # "absent" /\ Before(L2Row(i), L2Row(m))
    BY <1>1 DEF OrderKept
  <1>3. row[L2Row(i)].st \notin Done
    <2>1. Fate(L2Row(i))
      BY <1>1 DEF RowsGo
    <2> QED BY <1>1, <2>1, RowsStay DEF Waiting
  <1> QED BY <1>2, <1>3 DEF First, Waiting

\* A worker whose turn is over has written all rules of its candidate.
LEMMA TurnWrote ==
    ASSUME OutboxAssumption, LaneInv, NEW w \in Workers, NEW m \in InLane, Turn(w, m), worker[w].rule > Rules,
           worker[w].rule \in Nat
    PROVE  AllWrote(m) /\ First(m)
  <1>1. ASSUME NEW n \in 1 .. Rules PROVE Wrote(m, n)
    <2>1. n < worker[w].rule /\ m \in Messages
      BY Bounds DEF InLane
    <2>2. PICK e \in Entries : <<e, n>> \in worker[w].confirmed
      BY <2>1 DEF LaneInv, Confirmed
    <2>3. <<m, n>> \in store[e]
      BY <2>2 DEF LaneInv, Confirmed
    <2> QED BY <2>1, <2>3 DEF LaneInv, Stored, Shown
  <1>2. First(m)
    BY DEF First, LaneInv, Foremost
  <1> QED BY <1>1, <1>2 DEF AllWrote

\* Who is done.
LEMMA DoneWroteStep ==
    ASSUME OutboxAssumption, NoLate, NoSkew, TypedI, LaneInv, DoneWrote, Next
    PROVE  DoneWrote'
  <1>1. Typed /\ RowsTyped /\ WorkersTyped /\ StoreTyped
    BY DEF TypedI, Typed
  <1>2. RowsGo /\ OrderKept /\ LaneMoves /\ \A w \in Workers : Arrives(w)
    BY <1>1, TypedStep, OrderStep, LaneSteps, Arrivals
  <1> SUFFICES ASSUME NEW w \in Workers, NEW m \in InLane, worker'[w].pc = "done", worker'[w].job = L2Row(m)
               PROVE  AllWrote(m)' /\ First(m)'
    BY DEF DoneWrote
  <1>3. /\ worker[w].job = L2Row(m)
        /\ worker[w].pc = "done" \/ (worker[w].pc = "turn" /\ worker[w].rule > Rules)
    BY <1>2 DEF Arrives, L2Row, Kind
  <1>4. row[L2Row(m)].st # "absent" /\ worker[w].rule \in Nat
    BY <1>1, <1>3 DEF WorkersTyped, Hand
  <1>5. AllWrote(m) /\ First(m)
    <2>1. CASE worker[w].pc = "done"
      BY <1>3, <2>1 DEF DoneWrote
    <2>2. CASE worker[w].pc = "turn" /\ worker[w].rule > Rules
      BY <1>3, <1>4, <2>2, TurnWrote DEF Turn
    <2> QED BY <1>3, <2>1, <2>2
  <1>6. m \in Messages
    BY DEF InLane
  <1>7. AllWrote(m)'
    BY <1>1, <1>2, <1>5, <1>6, WroteStays DEF AllWrote
  <1> QED BY <1>1, <1>2, <1>4, <1>5, <1>7, FirstStays

\* What has succeeded.
LEMMA EndWroteStep ==
    ASSUME OutboxAssumption, NoLate, TypedI, LaneInv, WroteInv, Next
    PROVE  EndWrote'
  <1>1. Typed /\ RowsTyped /\ StoreTyped /\ FailingOwns
    BY DEF TypedI, Typed
  <1>2. LaneMoves /\ RowMoves
    BY <1>1, LaneSteps, RowsMove
  <1> SUFFICES ASSUME NEW m \in InLane, row'[L2Row(m)].st = "succeeded"
               PROVE  AllWrote(m)'
    BY DEF EndWrote
  <1>3. L2Row(m) \in Jobs /\ m \in Messages
    BY DEF InLane
  <1>4. AllWrote(m)
    <2>1. CASE row[L2Row(m)].st = "succeeded"
      BY <2>1 DEF WroteInv, EndWrote
    <2>2. CASE row[L2Row(m)].st # "succeeded"
      <3>1. Fate(L2Row(m)) /\ RowsTyped
        BY <1>1, <1>3, TypedStep DEF RowsGo
      <3>2. row[L2Row(m)].st \notin Done
        BY <1>3, <2>2, <3>1, RowsStay
      <3>3. row[L2Row(m)].st = "processing"
        BY <1>3, <3>1, <3>2, RowsStay DEF Done
      <3>4. PICK w \in Workers : worker[w].pc = "done" /\ worker[w].job = L2Row(m)
        <4>1. \E w \in Workers : Succeeded(L2Row(m), w)
          BY <2>2, <3>1, <3>2 DEF Fate, Same, New, Lapsed, Back, Claimed, Deferred, Failed, Lost
        <4> QED BY <4>1 DEF Succeeded
      <3> QED BY <3>4 DEF WroteInv, DoneWrote
    <2> QED BY <2>1, <2>2
  <1> QED BY <1>1, <1>2, <1>3, <1>4, WroteStays DEF AllWrote

\* Both, along every behaviour with no late heartbeat and no clock off.
LEMMA WroteAlways == ASSUME NoLate, NoSkew PROVE Spec => []WroteInv
  <1>1. Init => WroteInv
    <2> SUFFICES ASSUME Init PROVE WroteInv
      OBVIOUS
    <2>1. /\ \A w \in Workers : worker[w].pc = "free"
          /\ \A j \in Jobs : row[j].st = "absent"
      BY DEF Init, FreeWorker
    <2> QED BY <2>1 DEF WroteInv, DoneWrote, EndWrote, InLane
  <1>2. TypedI /\ LaneInv /\ WroteInv /\ [Next]_vars => WroteInv'
    <2>1. ASSUME TypedI, LaneInv, WroteInv, Next PROVE WroteInv'
      BY <2>1, OutboxAssumption, NoLate, NoSkew, DoneWroteStep, EndWroteStep DEF WroteInv
    <2>2. ASSUME WroteInv, UNCHANGED vars PROVE WroteInv'
      BY <2>2 DEF vars, world, WroteInv, DoneWrote, EndWrote, AllWrote, First, Wrote, Waiting, Before
    <2> QED BY <2>1, <2>2
  <1> QED BY <1>1, <1>2, TypedAlways, LaneAlways, PTL DEF Spec

\* If nothing fails, nothing in the lane is given up.
LEMMA NobodyFailsAlways ==
    ASSUME NoLate, "fail" \notin Disturbances
    PROVE  Spec => []NobodyFails
  <1>1. Init => NobodyFails
    <2> SUFFICES ASSUME Init PROVE NobodyFails
      OBVIOUS
    <2>1. /\ \A w \in Workers : worker[w].pc = "free"
          /\ \A j \in Jobs : row[j].st = "absent"
      BY DEF Init, FreeWorker
    <2> QED BY <2>1 DEF NobodyFails, InLane
  <1>2. ASSUME TypedI, NobodyFails, Next PROVE NobodyFails'
    <2>1. RowsTyped /\ RowsGo /\ \A w \in Workers : Arrives(w)
      BY <1>2, OutboxAssumption, NoLate, TypedStep, Arrivals DEF TypedI, Typed
    <2>2. ASSUME NEW w \in Workers, NEW m \in InLane, worker'[w].pc \in {"failed", "failing"},
                 worker'[w].job = L2Row(m)
          PROVE  FALSE
      BY <1>2, <2>1, <2>2 DEF Arrives, L2Row, Kind, NobodyFails
    <2>3. ASSUME NEW m \in InLane, row'[L2Row(m)].st = "quarantined"
          PROVE  FALSE
      <3>1. Fate(L2Row(m)) /\ row[L2Row(m)].st # "quarantined" /\ L2Row(m) \in Jobs
        BY <1>2, <2>1 DEF RowsGo, NobodyFails, InLane
      <3>2. PICK w \in Workers : Failed(L2Row(m), w)
        BY <2>3, <3>1 DEF Fate, Same, New, Lapsed, Back, Claimed, Deferred, Succeeded, Lost
      <3> QED BY <1>2, <3>2 DEF Failed, NobodyFails
    <2> QED BY <2>2, <2>3 DEF NobodyFails
  <1>3. ASSUME NobodyFails, UNCHANGED vars PROVE NobodyFails'
    BY <1>3 DEF vars, NobodyFails
  <1>4. TypedI /\ NobodyFails /\ [Next]_vars => NobodyFails'
    BY <1>2, <1>3
  <1> QED BY <1>1, <1>4, TypedAlways, PTL DEF Spec

\* If nobody stalls, who works on a row holds its lease.
LEMMA LeasesStep ==
    ASSUME OutboxAssumption, NoLate, Typed, LeasesHeld, "stall" \notin Disturbances, Next
    PROVE  LeasesHeld'
  <1>1. ASSUME NEW m \in Messages, Enqueue(m) PROVE LeasesHeld'
    <2> DEFINE i == <<"pipeline", m>>
    <2>1. Insert(row, {i}) /\ row[i].st = "absent" /\ worker' = worker
      BY <1>1 DEF Enqueue
    <2> HIDE DEF i
    <2>2. \A j \in Jobs : row[j].st = "processing" => row'[j] = row[j]
      BY <2>1, InsertOld
    <2> QED BY <2>1, <2>2 DEF LeasesHeld, Typed, WorkersTyped
  <1>2. ASSUME NEW w \in Workers, NEW j \in Jobs, ClaimNext(w, j) PROVE LeasesHeld'
    <2> DEFINE rows == Expired(row)
               x == [st |-> "processing", owner |-> w, fresh |-> TRUE, attempts |-> rows[j].attempts + 1]
    <2>1. \A i \in Jobs : row[i].fresh => rows[i] = row[i]
      BY DEF Expired
    <2>2. rows[j].st \in {"pending", "retry"} /\ row' = [rows EXCEPT ![j] = x] /\ rows \in [Jobs -> Row]
      BY <1>2, ExpiredOK DEF ClaimNext, Typed
    <2> HIDE DEF rows
    <2>3. x.st = "processing" /\ x.owner = w /\ x.fresh
      OBVIOUS
    <2> HIDE DEF x
    <2>4. row'[j] = x /\ \A i \in Jobs : i # j => row'[i] = rows[i]
      BY <2>2
    <2>5. worker'[w].job = j /\ \A v \in Workers : v # w => worker'[v] = worker[v]
      BY <1>2 DEF ClaimNext, FreeWorker, Typed, WorkersTyped
    <2>6. ASSUME NEW v \in Workers, v # w, worker[v].pc \notin {"free", "down"}
          PROVE  row'[worker[v].job] = row[worker[v].job]
      BY <2>1, <2>2, <2>4, <2>6 DEF LeasesHeld, Typed, WorkersTyped
    <2> QED BY <2>3, <2>4, <2>5, <2>6 DEF LeasesHeld
  <1>3. ASSUME NEW w \in Workers, Begin(w) PROVE LeasesHeld'
    BY <1>3 DEF Begin, At, Goto, LeasesHeld, Typed, WorkersTyped, Hand
  <1>4. ASSUME NEW w \in Workers, LeaseLost(w) PROVE LeasesHeld'
    BY <1>4 DEF LeaseLost, Interrupted, Freed, FreeWorker, LeasesHeld, Typed, WorkersTyped
  <1>5. ASSUME NEW w \in Workers, WriteProfile(w) PROVE LeasesHeld'
    BY <1>5 DEF WriteProfile, At, Goto, LeasesHeld, Typed, WorkersTyped, Hand
  <1>6. ASSUME NEW w \in Workers, TakeTurn(w) PROVE LeasesHeld'
    BY <1>6 DEF TakeTurn, At, Goto, LeasesHeld, Typed, WorkersTyped, Hand
  <1>7. ASSUME NEW w \in Workers, Defer(w) PROVE LeasesHeld'
    <2>1. PICK j \in Jobs : j = worker[w].job
      BY <1>7 DEF Defer, At, Typed, WorkersTyped
    <2>2. worker'[w].pc = "free" /\ \A v \in Workers : v # w => worker'[v] = worker[v]
      <3>1. worker' = [worker EXCEPT ![w] = FreeWorker]
        BY <1>7 DEF Defer, Freed
      <3> QED BY <3>1, FreeOK DEF Typed, WorkersTyped
    <2>3. row[j].owner = w /\ row[j].st = "processing"
      BY <1>7, <2>1 DEF Defer, At, LeasesHeld
    <2>4. \A i \in Jobs : i # j /\ row[i].st # "absent" => row'[i] = row[i]
      BY <1>7, <2>1 DEF Defer, Typed, RowsTyped
    <2>5. ASSUME NEW v \in Workers, v # w, worker[v].pc \notin {"free", "down"}
          PROVE  row'[worker[v].job] = row[worker[v].job]
      BY <2>3, <2>4, <2>5 DEF LeasesHeld, Typed, WorkersTyped
    <2> QED BY <2>2, <2>5 DEF LeasesHeld
  <1>8. ASSUME NEW w \in Workers, EndTurn(w) PROVE LeasesHeld'
    BY <1>8 DEF EndTurn, At, Goto, LeasesHeld, Typed, WorkersTyped, Hand
  <1>9. ASSUME NEW w \in Workers, ReadFacts(w) PROVE LeasesHeld'
    <2> DEFINE f == FactsOf(Msg(worker[w].job))
    <2>1. worker' = [worker EXCEPT ![w].pc = "done", ![w].facts = f] /\ worker[w].pc = "ready" /\ row' = row
      BY <1>9 DEF ReadFacts, At
    <2> HIDE DEF f
    <2> QED BY <2>1 DEF LeasesHeld, Typed, WorkersTyped, Hand
  <1>10. ASSUME NEW w \in Workers, FinishSuccess(w) PROVE LeasesHeld'
    <2>1. PICK j \in Jobs : j = worker[w].job
      BY <1>10 DEF FinishSuccess, At, Typed, WorkersTyped
    <2>2. worker'[w].pc = "free" /\ \A v \in Workers : v # w => worker'[v] = worker[v]
      <3>1. worker' = [worker EXCEPT ![w] = FreeWorker]
        BY <1>10 DEF FinishSuccess, Freed
      <3> QED BY <3>1, FreeOK DEF Typed, WorkersTyped
    <2>3. row[j].owner = w /\ row[j].st = "processing"
      BY <1>10, <2>1 DEF FinishSuccess, At, LeasesHeld
    <2>4. \A i \in Jobs : i # j /\ row[i].st # "absent" => row'[i] = row[i]
      <3>1. "succeeded" \in Done
        BY DEF Done
      <3>2. Insert([row EXCEPT ![j] = Released(row[j], "succeeded")],
                   Unsettled([row EXCEPT ![j] = Released(row[j], "succeeded")], {Msg(j)}))
        BY <1>10, <2>1 DEF FinishSuccess, JoinSettlement
      <3> QED BY <2>3, <3>1, <3>2, EndsAndJoins DEF Typed
    <2>5. ASSUME NEW v \in Workers, v # w, worker[v].pc \notin {"free", "down"}
          PROVE  row'[worker[v].job] = row[worker[v].job]
      BY <2>3, <2>4, <2>5 DEF LeasesHeld, Typed, WorkersTyped
    <2> QED BY <2>2, <2>5 DEF LeasesHeld
  <1>11. ASSUME NEW w \in Workers, FinishLost(w) PROVE LeasesHeld'
    BY <1>11 DEF FinishLost, Interrupted, Freed, FreeWorker, LeasesHeld, Typed, WorkersTyped
  <1>12. ASSUME NEW w \in Workers, FinishFailure(w) PROVE LeasesHeld'
    <2> DEFINE n == row[worker[w].job].attempts
    <2>1. worker' = [worker EXCEPT ![w].pc = "failing", ![w].tries = n] /\ worker[w].pc = "failed" /\ row' = row
      BY <1>12 DEF FinishFailure, At
    <2> HIDE DEF n
    <2> QED BY <2>1 DEF LeasesHeld, Typed, WorkersTyped, Hand
  <1>13. ASSUME NEW w \in Workers, RecordFailure(w) PROVE LeasesHeld'
    <2>1. PICK j \in Jobs : j = worker[w].job
      BY <1>13 DEF RecordFailure, At, Typed, WorkersTyped
    <2>2. worker'[w].pc = "free" /\ \A v \in Workers : v # w => worker'[v] = worker[v]
      <3>1. worker' = [worker EXCEPT ![w] = FreeWorker]
        BY <1>13 DEF RecordFailure, Freed
      <3> QED BY <3>1, FreeOK DEF Typed, WorkersTyped
    <2>3. row[j].owner = w /\ row[j].st = "processing"
      BY <1>13, <2>1 DEF RecordFailure, At, LeasesHeld
    <2>4. \A i \in Jobs : i # j /\ row[i].st # "absent" => row'[i] = row[i]
      <3>1. CASE worker[w].tries >= MaxAttempts
        <4>1. "quarantined" \in Done
          BY DEF Done
        <4>2. Insert([row EXCEPT ![j] = Released(row[j], "quarantined")],
                     Unsettled([row EXCEPT ![j] = Released(row[j], "quarantined")], {Msg(j)}))
          BY <1>13, <2>1, <3>1 DEF RecordFailure, JoinAfterFailure, JoinSettlement
        <4> QED BY <2>3, <4>1, <4>2, EndsAndJoins DEF Typed
      <3>2. CASE ~(worker[w].tries >= MaxAttempts)
        BY <1>13, <2>1, <3>2 DEF RecordFailure, Typed, RowsTyped
      <3> QED BY <3>1, <3>2
    <2>5. ASSUME NEW v \in Workers, v # w, worker[v].pc \notin {"free", "down"}
          PROVE  row'[worker[v].job] = row[worker[v].job]
      BY <2>3, <2>4, <2>5 DEF LeasesHeld, Typed, WorkersTyped
    <2> QED BY <2>2, <2>5 DEF LeasesHeld
  <1>14. ASSUME NEW w \in Workers, Start(w) PROVE LeasesHeld'
    <2>1. Insert(row, Unsettled(row, Messages)) /\ worker' = [worker EXCEPT ![w] = FreeWorker]
      BY <1>14 DEF Start, Freed
    <2>2. \A j \in Unsettled(row, Messages) : row[j].st = "absent"
      BY UnsettledOK
    <2>3. \A j \in Jobs : row[j].st = "processing" => row'[j] = row[j]
      BY <2>1, <2>2, InsertOld
    <2>4. worker'[w].pc = "free" /\ \A v \in Workers : v # w => worker'[v] = worker[v]
      BY <2>1, FreeOK DEF Typed, WorkersTyped
    <2> QED BY <2>3, <2>4 DEF LeasesHeld, Typed, WorkersTyped
  <1>15. ASSUME NEW w \in Workers, Raises(w) PROVE LeasesHeld'
    BY <1>15 DEF Raises, At, Goto, LeasesHeld, Typed, WorkersTyped, Hand
  <1>16. ASSUME NEW w \in Workers, Renew(w) PROVE LeasesHeld'
    <2>1. worker[w].job \in Jobs /\ row' = [row EXCEPT ![worker[w].job].fresh = TRUE] /\ worker' = worker
      BY <1>16 DEF Renew, Owns, Typed, WorkersTyped, Hand
    <2> QED BY <2>1 DEF LeasesHeld, Typed, WorkersTyped, RowsTyped, Row, RawRow
  <1>17. ASSUME NEW w \in Workers, HeartbeatFails(w) PROVE LeasesHeld'
    BY <1>17 DEF HeartbeatFails, Interrupted, Freed, FreeWorker, LeasesHeld, Typed, WorkersTyped
  <1>18. ASSUME NEW w \in Workers, Crash(w) PROVE LeasesHeld'
    <2>1. worker'[w].pc = "down" /\ \A v \in Workers : v # w => worker'[v] = worker[v]
      BY <1>18 DEF Crash, Down, FreeWorker, Typed, WorkersTyped
    <2>2. \A i \in Jobs : row[i].owner # w => row'[i] = row[i]
      BY <1>18 DEF Crash, Typed, RowsTyped
    <2>3. ASSUME NEW v \in Workers, v # w, worker[v].pc \notin {"free", "down"}
          PROVE  row'[worker[v].job] = row[worker[v].job]
      BY <2>2, <2>3 DEF LeasesHeld, Typed, WorkersTyped
    <2> QED BY <2>1, <2>3 DEF LeasesHeld
  <1>19. ASSUME NEW w \in Workers, Stop(w) PROVE LeasesHeld'
    <2>1. worker'[w].pc = "down" /\ \A v \in Workers : v # w => worker'[v] = worker[v]
      BY <1>19 DEF Stop, Down, FreeWorker, Typed, WorkersTyped
    <2>2. \A i \in Jobs : row[i].owner # w => row'[i] = row[i]
      BY <1>19 DEF Stop, Typed, RowsTyped
    <2>3. ASSUME NEW v \in Workers, v # w, worker[v].pc \notin {"free", "down"}
          PROVE  row'[worker[v].job] = row[worker[v].job]
      BY <2>2, <2>3 DEF LeasesHeld, Typed, WorkersTyped
    <2> QED BY <2>1, <2>3 DEF LeasesHeld
  <1>20. ASSUME NEW w \in Workers, NEW x \in SUBSET Layers, Checkpoint(w, x) PROVE
    LeasesHeld'
    <2> DEFINE S == {j \in Extracted(Msg(worker[w].job), x) \X {Msg(worker[w].job)} : row[j].st = "absent"}
    <2>1. Insert(row, S) /\ worker' = [worker EXCEPT ![w].pc = "done"] /\ worker[w].pc = "ready"
      BY <1>20 DEF Checkpoint, Goto, At
    <2>2. \A j \in S : row[j].st = "absent"
      OBVIOUS
    <2> HIDE DEF S
    <2>3. \A j \in Jobs : row[j].st = "processing" => row'[j] = row[j]
      BY <2>1, <2>2, InsertOld
    <2> QED BY <2>1, <2>3 DEF LeasesHeld, Typed, WorkersTyped, Hand
  <1>21. ASSUME NEW w \in Workers, NEW e \in Entries, Replayed(w, e) PROVE LeasesHeld'
    BY <1>21 DEF Replayed, Writing, At, Confirm, LeasesHeld, Typed, WorkersTyped, Hand
  <1>22. ASSUME NEW w \in Workers, NEW e \in Entries, NEW s \in SUBSET Receipts,
    WriteRule(w, e, s) PROVE LeasesHeld'
    BY <1>22 DEF WriteRule, Writing, At, Confirm, LeasesHeld, Typed, WorkersTyped, Hand
  <1>23. ASSUME NEW j \in Jobs, LeaseExpires(j) PROVE LeasesHeld'
    <2>1. row' = [row EXCEPT ![j].fresh = FALSE] /\ worker' = worker
          /\ (row[j].owner = None \/ worker[row[j].owner].job # j)
      BY <1>23 DEF LeaseExpires, Fault
    <2>2. \A i \in Jobs : i # j => row'[i] = row[i]
      BY <2>1 DEF Typed, RowsTyped
    <2>3. \A v \in Workers : worker[v].pc \notin {"free", "down"} => worker[v].job \in Jobs /\ worker[v].job # j
      BY <2>1, Bounds DEF LeasesHeld, Typed, WorkersTyped
    <2> QED BY <2>1, <2>2, <2>3 DEF LeasesHeld
  <1>24. ASSUME NEW m \in Messages, SaveMessage(m)
       PROVE  UNCHANGED <<row, worker>>
    BY <1>24 DEF SaveMessage, world
  <1>25. ASSUME UNCHANGED <<row, worker>> PROVE LeasesHeld'
    BY <1>25 DEF LeasesHeld
  <1>26. QED
    BY <1>1, <1>2, <1>3, <1>4, <1>5, <1>6, <1>7, <1>8, <1>9, <1>10, <1>11, <1>12,
      <1>13, <1>14, <1>15, <1>16, <1>17, <1>18, <1>19, <1>20, <1>21, <1>22, <1>23,
      <1>24, <1>25 DEF Next, WorkerStep

\* So it is along every behaviour in which nobody stalls.
LEMMA LeasesHeldAlways ==
    ASSUME NoLate, "stall" \notin Disturbances
    PROVE  Spec => []LeasesHeld
  <1>1. Init => LeasesHeld
    BY DEF Init, FreeWorker, LeasesHeld
  <1>2. TypedI /\ LeasesHeld /\ [Next]_vars => LeasesHeld'
    <2>1. ASSUME TypedI, LeasesHeld, Next PROVE LeasesHeld'
      BY <2>1, OutboxAssumption, NoLate, LeasesStep DEF TypedI
    <2>2. ASSUME LeasesHeld, UNCHANGED vars PROVE LeasesHeld'
      BY <2>2 DEF vars, LeasesHeld
    <2> QED BY <2>1, <2>2
  <1> QED BY <1>1, <1>2, TypedAlways, PTL DEF Spec

\* In either case nobody has given up the candidate that is written.
LEMMA GoesOnAlways ==
    ASSUME NoLate, "fail" \notin Disturbances \/ "stall" \notin Disturbances
    PROVE  Spec => []GoesOn
  <1>1. CASE "fail" \notin Disturbances
    <2>1. NobodyFails => GoesOn
      BY DEF NobodyFails, GoesOn
    <2>2. Spec => []NobodyFails
      BY <1>1, NobodyFailsAlways
    <2> QED BY <2>1, <2>2, PTL
  <1>2. CASE "stall" \notin Disturbances
    <2>1. LeasesHeld => GoesOn
      BY DEF LeasesHeld, GoesOn, Turn
    <2>2. Spec => []LeasesHeld
      BY <1>2, LeasesHeldAlways
    <2> QED BY <2>1, <2>2, PTL
  <1> QED BY <1>1, <1>2

-----------------------------------------------------------------------------
(* The steps of the lane, seen through the mapping.                         *)

LAdmitted == {m \in InLane : row[L2Row(m)].st # "absent"}
LWaiting  == {m \in InLane : Waiting(L2Row(m))}
LAhead    == [m \in InLane |-> {i \in InLane : Before(L2Row(i), L2Row(m))}]
LWritten  == [m \in InLane |-> [n \in 1 .. Rules |-> applied[<<m, n>>]]]
LLost     == {m \in InLane : row[L2Row(m)].st = "quarantined"}

\* A row comes before another at one place of the line.
LEMMA BeforeOnce ==
    ASSUME LineTyped, NEW i \in Jobs, NEW j \in Jobs, Before(i, j)
    PROVE  i # j /\ ~Before(j, i) /\ row[i].st # "absent" /\ row[j].st # "absent"
  <1>1. line \in Seq(Jobs) /\ IsInjective(line)
    BY DEF LineTyped
  <1>2. PICK a \in DOMAIN line, b \in DOMAIN line : a < b /\ line[a] = i /\ line[b] = j
    BY DEF Before
  <1>3. ASSUME NEW c \in DOMAIN line, NEW d \in DOMAIN line, c < d, line[c] = j, line[d] = i
        PROVE  FALSE
    <2>1. c = b /\ d = a
      BY <1>1, <1>2, <1>3 DEF IsInjective
    <2> QED BY <1>1, <1>2, <1>3, <2>1
  <1>4. i # j
    <2>1. a \in Nat /\ b \in Nat /\ a # b
      BY <1>1, <1>2
    <2> QED BY <1>1, <1>2, <2>1 DEF IsInjective
  <1>5. i \in Range(line) /\ j \in Range(line)
    BY <1>2 DEF Range
  <1> QED BY <1>3, <1>4, <1>5 DEF Before, LineTyped

\* The order is one, and so it is after a step.
OneOrder ==
    \A i, j \in Jobs :
        /\ Before(i, j) => i # j /\ row[i].st # "absent" /\ row[j].st # "absent"
        /\ (i # j /\ row[i].st # "absent" /\ row[j].st # "absent") => Before(i, j) \/ Before(j, i)

LEMMA OneOrderNow == LineTyped => OneOrder
  <1> SUFFICES ASSUME LineTyped PROVE OneOrder
    OBVIOUS
  <1> QED BY BeforeOnce, LineTotal DEF OneOrder

LEMMA OneOrderNext == LineTyped' => OneOrder'
  BY OneOrderNow, PTL

\* The order of two rows that are there does not change.
LEMMA OrderSame ==
    ASSUME LineTyped, LineTyped', OrderKept, RowsRemain, NEW i \in Jobs, NEW j \in Jobs,
           row[j].st # "absent"
    PROVE  Before(i, j)' <=> Before(i, j)
  <1>1. Before(i, j)' => Before(i, j)
    BY DEF OrderKept
  <1>2. ASSUME Before(i, j) PROVE Before(i, j)'
    <2>1. i # j /\ ~Before(j, i) /\ row[i].st # "absent"
      BY <1>2, BeforeOnce
    <2>2. ~Before(j, i)'
      BY <2>1 DEF OrderKept
    <2>3. row'[i].st # "absent" /\ row'[j].st # "absent"
      BY <2>1 DEF RowsRemain
    <2>4. Before(i, j)' \/ Before(j, i)'
      BY <2>1, <2>3, OneOrderNext DEF OneOrder
    <2> QED BY <2>2, <2>4
  <1> QED BY <1>1, <1>2

\* What is ahead of each candidate, when none is admitted ...
LEMMA AheadSame ==
    ASSUME LineTyped, LineTyped', OrderKept, RowsRemain, LAdmitted' = LAdmitted
    PROVE  LAhead' = LAhead
  <1>1. ASSUME NEW m \in InLane, NEW i \in InLane
        PROVE  Before(L2Row(i), L2Row(m))' <=> Before(L2Row(i), L2Row(m))
    <2>1. L2Row(i) \in Jobs /\ L2Row(m) \in Jobs
      BY DEF InLane
    <2>2. CASE row[L2Row(m)].st # "absent"
      BY <2>1, <2>2, OrderSame
    <2>3. CASE row[L2Row(m)].st = "absent"
      <3>1. row'[L2Row(m)].st = "absent"
        BY <2>3 DEF LAdmitted
      <3>2. ~Before(L2Row(i), L2Row(m))
        BY <2>1, <2>3, BeforeOnce
      <3>3. ~Before(L2Row(i), L2Row(m))'
        BY <2>1, <3>1, OneOrderNext DEF OneOrder
      <3> QED BY <3>2, <3>3
    <2> QED BY <2>2, <2>3
  <1> QED BY <1>1 DEF LAhead

\* ... and when one is.
LEMMA AheadNew ==
    ASSUME LineTyped, LineTyped', OrderKept, RowsRemain,
           NEW c \in InLane, c \notin LAdmitted, LAdmitted' = LAdmitted \cup {c}
    PROVE  LAhead' = [LAhead EXCEPT ![c] = LAdmitted]
  <1>1. ASSUME NEW m \in InLane, m # c, NEW i \in InLane
        PROVE  Before(L2Row(i), L2Row(m))' <=> Before(L2Row(i), L2Row(m))
    <2>1. L2Row(i) \in Jobs /\ L2Row(m) \in Jobs
      BY DEF InLane
    <2>2. CASE row[L2Row(m)].st # "absent"
      BY <2>1, <2>2, OrderSame
    <2>3. CASE row[L2Row(m)].st = "absent"
      <3>1. row'[L2Row(m)].st = "absent"
        BY <1>1, <2>3 DEF LAdmitted
      <3>2. ~Before(L2Row(i), L2Row(m))
        BY <2>1, <2>3, BeforeOnce
      <3>3. ~Before(L2Row(i), L2Row(m))'
        BY <2>1, <3>1, OneOrderNext DEF OneOrder
      <3> QED BY <3>2, <3>3
    <2> QED BY <2>2, <2>3
  <1>2. ASSUME NEW i \in InLane
        PROVE  Before(L2Row(i), L2Row(c))' <=> i \in LAdmitted
    <2>1. L2Row(i) \in Jobs /\ L2Row(c) \in Jobs /\ row[L2Row(c)].st = "absent" /\ row'[L2Row(c)].st # "absent"
      BY DEF InLane, LAdmitted
    <2>2. ASSUME i \in LAdmitted PROVE Before(L2Row(i), L2Row(c))'
      <3>1. row[L2Row(i)].st # "absent" /\ L2Row(i) # L2Row(c)
        BY <2>1, <2>2 DEF LAdmitted
      <3>2. row'[L2Row(i)].st # "absent" /\ row'[L2Row(c)].st # "absent"
        BY <2>1, <3>1 DEF RowsRemain
      <3>3. ~Before(L2Row(c), L2Row(i))'
        BY <2>1, <3>1 DEF OrderKept
      <3>4. Before(L2Row(i), L2Row(c))' \/ Before(L2Row(c), L2Row(i))'
        BY <2>1, <3>1, <3>2, OneOrderNext DEF OneOrder
      <3> QED BY <3>3, <3>4
    <2>3. ASSUME Before(L2Row(i), L2Row(c))' PROVE i \in LAdmitted
      <3>1. L2Row(i) # L2Row(c) /\ row'[L2Row(i)].st # "absent"
        BY <2>1, <2>3, OneOrderNext DEF OneOrder
      <3>2. i \in LAdmitted' /\ i # c
        BY <3>1 DEF LAdmitted
      <3> QED BY <3>2
    <2> QED BY <2>2, <2>3
  <1>3. LAdmitted \subseteq InLane
    BY DEF LAdmitted
  <1>4. LAhead'[c] = LAdmitted
    BY <1>2, <1>3 DEF LAhead
  <1>5. \A m \in InLane : m # c => LAhead'[m] = LAhead[m]
    BY <1>1 DEF LAhead
  <1> QED BY <1>4, <1>5 DEF LAhead

\* Nothing of a step is seen.
LaneStays == LAdmitted' = LAdmitted /\ LWaiting' = LWaiting /\ LAhead' = LAhead
             /\ LWritten' = LWritten /\ LLost' = LLost

\* Who waits and who was given up, while no row ends.
LEMMA NoEndWaits ==
    ASSUME RowsTyped, RowsGo, RowsRemain, NoEnd, NEW m \in InLane
    PROVE  /\ m \in LLost' <=> m \in LLost
           /\ m \in LWaiting' <=> m \in LAdmitted' /\ (m \in LWaiting \/ m \notin LAdmitted)
           /\ m \in LAdmitted => m \in LAdmitted'
  <1>1. L2Row(m) \in Jobs
    BY DEF InLane
  <1>2. Fate(L2Row(m)) /\ (row'[L2Row(m)].st \in Done <=> row[L2Row(m)].st \in Done)
    BY <1>1 DEF RowsGo, NoEnd
  <1>3. /\ row[L2Row(m)].st # "absent" => row'[L2Row(m)].st # "absent"
        /\ row[L2Row(m)].st \in Done => row'[L2Row(m)].st = row[L2Row(m)].st
    BY <1>1, <1>2, RowsStay
  <1>4. m \in LLost' <=> m \in LLost
    BY <1>2, <1>3 DEF LLost, Done
  <1>5. m \in LWaiting' <=> m \in LAdmitted' /\ (m \in LWaiting \/ m \notin LAdmitted)
    BY <1>2, <1>3 DEF LWaiting, LAdmitted, Waiting, Done
  <1> QED BY <1>3, <1>4, <1>5 DEF LAdmitted

\* Steps in which no row ends and nothing is written: a candidate is admitted, if any.
LEMMA LaneAdmits ==
    ASSUME OutboxAssumption, Typed, Typed', RowsGo, RowsRemain, OrderKept, NoEnd, FoundOne, applied' = applied
    PROVE  LaneStays \/ \E c \in InLane : L!Admitted(c)
  <1>1. RowsTyped /\ LineTyped /\ LineTyped' /\ FoundTyped /\ FoundTyped'
    BY DEF Typed
  <1>2. \A m \in InLane :
           /\ m \in LLost' <=> m \in LLost
           /\ m \in LWaiting' <=> m \in LAdmitted' /\ (m \in LWaiting \/ m \notin LAdmitted)
           /\ m \in LAdmitted => m \in LAdmitted'
    BY <1>1, NoEndWaits
  <1>3. LWritten' = LWritten
    BY DEF LWritten
  <1>4. /\ LAdmitted \subseteq InLane /\ LAdmitted' \subseteq InLane /\ LWaiting \subseteq LAdmitted
        /\ LWaiting' \subseteq InLane /\ LLost \subseteq InLane /\ LLost' \subseteq InLane
    BY DEF LAdmitted, LWaiting, LLost, Waiting
  <1>5. LLost' = LLost
    BY <1>2, <1>4
  <1>6. CASE LAdmitted' = LAdmitted
    <2>1. LWaiting' = LWaiting
      BY <1>2, <1>4, <1>6
    <2>2. LAhead' = LAhead
      BY <1>1, <1>6, AheadSame
    <2> QED BY <1>3, <1>5, <1>6, <2>1, <2>2 DEF LaneStays
  <1>7. CASE LAdmitted' # LAdmitted
    <2>1. PICK c \in InLane : c \in LAdmitted' /\ c \notin LAdmitted
      BY <1>2, <1>4, <1>7
    <2>2. ASSUME NEW m \in InLane
          PROVE  m \in LAdmitted <=> found[m] # None /\ "L2" \in found[m]
      <3>1. m \in Messages /\ L2Row(m) \in Jobs
        BY DEF InLane
      <3>2. "L2" \in Layers
        BY <3>1 DEF L2Row, Jobs
      <3> QED BY <1>1, <3>1, <3>2 DEF FoundTyped, LAdmitted, L2Row
    <2>3. ASSUME NEW m \in InLane
          PROVE  m \in LAdmitted' <=> found'[m] # None /\ "L2" \in found'[m]
      <3>1. m \in Messages /\ L2Row(m) \in Jobs
        BY DEF InLane
      <3>2. "L2" \in Layers
        BY <3>1 DEF L2Row, Jobs
      <3> QED BY <1>1, <3>1, <3>2 DEF FoundTyped, LAdmitted, L2Row
    <2>4. \A m \in InLane : m # c => found'[m] = found[m]
      <3>1. PICK d \in Messages : \A m \in Messages : m # d => found'[m] = found[m]
        BY <2>1 DEF FoundOne, InLane
      <3>2. d = c
        BY <2>1, <2>2, <2>3, <3>1 DEF InLane
      <3> QED BY <3>1, <3>2 DEF InLane
    <2>5. \A m \in InLane : m \in LAdmitted' <=> m \in LAdmitted \/ m = c
      BY <2>1, <2>2, <2>3, <2>4
    <2>6. LAdmitted' = LAdmitted \cup {c}
      BY <1>4, <2>5
    <2>7. \A m \in InLane : m \in LWaiting' <=> m \in LWaiting \/ m = c
      BY <1>2, <1>4, <2>1, <2>5
    <2>8. LWaiting' = LWaiting \cup {c}
      BY <1>4, <2>7
    <2>9. LAhead' = [LAhead EXCEPT ![c] = LAdmitted]
      BY <1>1, <2>1, <2>6, AheadNew
    <2>10. L!Admitted(c)
      BY <1>3, <1>5, <2>1, <2>6, <2>8, <2>9
         DEF L!Admitted, LAdmitted, LWaiting, LAhead, LWritten, LLost
    <2> QED BY <2>10
  <1> QED BY <1>6, <1>7

\* A row ends: a turn is over, or a candidate is given up.
LEMMA LaneEnds ==
    ASSUME OutboxAssumption, Typed, Typed', RowsGo, RowsRemain, OrderKept, LaneInv, WroteInv,
           NEW j \in Jobs, EndsOne(j)
    PROVE  LaneStays \/ \E c \in InLane : L!TurnOver(c) \/ L!GivenUp(c)
  <1>1. RowsTyped /\ LineTyped /\ LineTyped' /\ FoundTyped /\ FoundTyped'
    BY DEF Typed
  <1>2. /\ row[j].st = "processing" /\ row'[j].st \in Done
        /\ \A i \in Jobs : i # j /\ row[i].st # "absent" => row'[i] = row[i]
        /\ row'[j].st = "succeeded" => \E w \in Workers : worker[w].pc = "done" /\ worker[w].job = j
        /\ found' = found /\ applied' = applied
    BY DEF EndsOne
  <1>3. LWritten' = LWritten
    BY <1>2 DEF LWritten
  <1>4. ASSUME NEW m \in InLane
        PROVE  row'[L2Row(m)].st = "absent" <=> row[L2Row(m)].st = "absent"
    <2>1. m \in Messages /\ L2Row(m) \in Jobs
      BY DEF InLane
    <2>2. "L2" \in Layers
      BY <2>1 DEF L2Row, Jobs
    <2> QED BY <1>1, <1>2, <2>1, <2>2 DEF FoundTyped, L2Row
  <1>5. LAdmitted' = LAdmitted
    BY <1>4 DEF LAdmitted
  <1>6. LAhead' = LAhead
    BY <1>1, <1>5, AheadSame
  <1>7. ASSUME NEW m \in InLane, L2Row(m) # j
        PROVE  row'[L2Row(m)].st = row[L2Row(m)].st
    <2>1. L2Row(m) \in Jobs
      BY DEF InLane
    <2> QED BY <1>2, <1>4, <1>7, <2>1
  <1>8. CASE \A m \in InLane : L2Row(m) # j
    <2>1. LWaiting' = LWaiting /\ LLost' = LLost
      BY <1>7, <1>8 DEF LWaiting, LLost, Waiting
    <2> QED BY <1>3, <1>5, <1>6, <2>1 DEF LaneStays
  <1>9. ASSUME NEW c \in InLane, L2Row(c) = j PROVE L!TurnOver(c) \/ L!GivenUp(c)
    <2>1. \A m \in InLane : m # c => L2Row(m) # j
      BY <1>9 DEF L2Row
    <2>2. c \in LWaiting /\ LWaiting' = LWaiting \ {c}
      <3>1. \A m \in InLane : Waiting(L2Row(m))' <=> (Waiting(L2Row(m)) /\ m # c)
        BY <1>2, <1>7, <1>9, <2>1 DEF Waiting
      <3>2. Waiting(L2Row(c))
        BY <1>2, <1>9 DEF Waiting, Done
      <3> QED BY <3>1, <3>2 DEF LWaiting
    <2>3. CASE row'[j].st = "succeeded"
      <3>1. LLost' = LLost
        BY <1>2, <1>7, <1>9, <2>3 DEF LLost
      <3>2. AllWrote(c) /\ First(c)
        BY <1>2, <1>9, <2>3 DEF WroteInv, DoneWrote
      <3>3. \A n \in 1 .. Rules : LWritten[c][n] = 1
        <4> SUFFICES ASSUME NEW n \in 1 .. Rules PROVE applied[<<c, n>>] = 1
          BY DEF LWritten
        <4>1. c \in Messages /\ <<c, n>> \in Receipts
          BY DEF InLane, Receipts
        <4>2. applied[<<c, n>>] > 0 /\ applied[<<c, n>>] <= 1 /\ applied[<<c, n>>] \in 0 .. 2
          BY <3>2, <4>1 DEF AllWrote, Wrote, LaneInv, Once, Typed, StoreTyped
        <4> QED BY <4>2
      <3>4. LAhead[c] \cap LWaiting = {}
        BY <3>2 DEF LAhead, LWaiting, First
      <3>5. L!Foremost(c)
        BY <2>2, <3>4 DEF L!Foremost, LAhead, LWaiting
      <3>6. L!TurnOver(c)
        BY <1>3, <1>5, <1>6, <2>2, <3>1, <3>3, <3>5
           DEF L!TurnOver, LAdmitted, LWaiting, LAhead, LWritten, LLost
      <3> QED BY <3>6
    <2>4. CASE row'[j].st = "quarantined"
      <3>1. \A m \in InLane : m \in LLost' <=> m \in LLost \/ m = c
        BY <1>7, <1>9, <2>1, <2>4 DEF LLost
      <3>2. LLost' = LLost \cup {c}
        BY <3>1 DEF LLost
      <3>3. L!GivenUp(c)
        BY <1>3, <1>5, <1>6, <2>2, <3>2 DEF L!GivenUp, LAdmitted, LWaiting, LAhead, LWritten, LLost
      <3> QED BY <3>3
    <2> QED BY <1>2, <2>3, <2>4 DEF Done
  <1> QED BY <1>8, <1>9

\* A rule is written.
LEMMA LaneWrites ==
    ASSUME OutboxAssumption, Typed, LaneInv, WroteInv, GoesOn, NEW w \in Workers, NEW e \in Entries,
           NEW s \in SUBSET Receipts, WriteRule(w, e, s)
    PROVE  \E c \in InLane, n \in 1 .. Rules : L!RuleWritten(c, n)
  <1>1. Writing(w) /\ Confirm(w, e) /\ row' = row /\ line' = line
    BY DEF WriteRule
  <1>2. PICK r \in 1 .. Rules : r = worker[w].rule
    BY <1>1, ConfirmDoes
  <1>3. worker[w].pc = "turn" /\ Kind(worker[w].job) = "L2"
    BY <1>1, ConfirmDoes
  <1>4. PICK o \in InLane : worker[w].job = L2Row(o) /\ row[L2Row(o)].st # "absent"
    BY <1>3, TurnOf
  <1>5. Turn(w, o) /\ o \in Messages /\ L2Row(o) \in Jobs
    BY <1>3, <1>4 DEF Turn, InLane
  <1>6. /\ applied[<<o, r>>] = 0 /\ applied'[<<o, r>>] = 1
        /\ \A m \in Messages, n \in 1 .. Rules :
              <<m, n>> # <<o, r>> => applied'[<<m, n>>] = applied[<<m, n>>]
    <2>1. RuleWritten(w, e, o, r)
      BY <1>2, <1>5, WriteDoes
    <2> QED BY <2>1 DEF RuleWritten
  <1>7. ~Wrote(o, r)
    BY <1>6 DEF Wrote
  <1>8. Waiting(L2Row(o))
    <2>1. row[L2Row(o)].st # "succeeded"
      BY <1>7 DEF WroteInv, EndWrote, AllWrote
    <2>2. row[L2Row(o)].st # "quarantined"
      BY <1>5 DEF GoesOn
    <2> QED BY <1>4, <2>1, <2>2 DEF Waiting, Done
  <1>9. L!Foremost(o)
    <2>1. \A i \in InLane : Waiting(L2Row(i)) => ~Before(L2Row(i), L2Row(o))
      BY <1>5 DEF LaneInv, Foremost
    <2>2. o \in LWaiting /\ LAhead[o] \cap LWaiting = {}
      BY <1>8, <2>1 DEF LWaiting, LAhead
    <2> QED BY <2>2 DEF L!Foremost, LWaiting, LAhead
  <1>10. ASSUME NEW k \in 1 .. Rules PROVE LWritten[o][k] = IF k < r THEN 1 ELSE 0
    <2>1. LWritten[o][k] = applied[<<o, k>>] /\ applied[<<o, k>>] \in 0 .. 2 /\ applied[<<o, k>>] <= 1
      BY <1>5 DEF LWritten, Typed, StoreTyped, Receipts, LaneInv, Once
    <2>2. CASE k < r
      <3>1. PICK x \in Entries : <<x, k>> \in worker[w].confirmed
        BY <1>2, <1>5, <2>2 DEF LaneInv, Confirmed
      <3>2. <<o, k>> \in store[x]
        BY <1>5, <3>1 DEF LaneInv, Confirmed
      <3>3. Wrote(o, k)
        BY <1>5, <3>2 DEF LaneInv, Stored, Shown
      <3> QED BY <2>1, <2>2, <3>3 DEF Wrote
    <2>3. CASE ~(k < r)
      <3>1. ~Wrote(o, k)
        <4>1. k = r \/ r < k
          BY <2>3
        <4> QED BY <1>5, <1>7, <4>1 DEF LaneInv, Ordered
      <3> QED BY <2>1, <2>3, <3>1 DEF Wrote
    <2> QED BY <2>2, <2>3
  <1>11. LWritten' = [LWritten EXCEPT ![o][r] = 1]
    <2> DEFINE F(m) == [n \in 1 .. Rules |-> applied[<<m, n>>]]
               G(m) == [n \in 1 .. Rules |-> applied'[<<m, n>>]]
    <2>1. \A m \in InLane : m # o => G(m) = F(m)
      BY <1>6 DEF InLane
    <2>2. G(o) = [F(o) EXCEPT ![r] = 1]
      BY <1>5, <1>6
    <2>3. LWritten = [m \in InLane |-> F(m)] /\ LWritten' = [m \in InLane |-> G(m)]
      BY DEF LWritten
    <2> HIDE DEF F, G
    <2> QED BY <2>1, <2>2, <2>3
  <1>12. LAdmitted' = LAdmitted /\ LWaiting' = LWaiting /\ LAhead' = LAhead /\ LLost' = LLost
    BY <1>1 DEF LAdmitted, LWaiting, LAhead, LLost, Waiting, Before
  <1>13. L!RuleWritten(o, r)
    BY <1>9, <1>10, <1>11, <1>12 DEF L!RuleWritten, LAdmitted, LWaiting, LAhead, LWritten, LLost
  <1> QED BY <1>13

\* Every step is one of the lane, or is not seen.
LEMMA LaneStep ==
    ASSUME OutboxAssumption, NoLate, NoSkew, TypedI, TypedI', LaneInv, WroteInv, GoesOn, Next
    PROVE  [L!LaneNext]_L!lvars
  <1>1. Typed /\ Typed' /\ FailingOwns /\ StoreTyped
    BY DEF TypedI, Typed
  <1>2. RowsGo /\ RowsRemain /\ OrderKept /\ LaneMoves /\ RowMoves
    BY <1>1, TypedStep, OrderStep, LaneSteps, RowsMove
  <1>3. ASSUME LaneStays PROVE UNCHANGED L!lvars
    BY <1>3 DEF LaneStays, L!lvars, LAdmitted, LWaiting, LAhead, LWritten, LLost
  <1>4. ASSUME NEW w \in Workers, NEW e \in Entries, NEW s \in SUBSET Receipts, WriteRule(w, e, s)
        PROVE  L!LaneNext
    BY <1>1, <1>4, LaneWrites DEF L!LaneNext
  <1>5. ASSUME applied' = applied, NoEnd, FoundOne PROVE [L!LaneNext]_L!lvars
    BY <1>1, <1>2, <1>3, <1>5, LaneAdmits DEF L!LaneNext
  <1>6. ASSUME NEW j \in Jobs, EndsOne(j) PROVE [L!LaneNext]_L!lvars
    BY <1>1, <1>2, <1>3, <1>6, LaneEnds DEF L!LaneNext
  <1>7. \/ applied' = applied
        \/ \E w \in Workers, e \in Entries, s \in SUBSET Receipts : WriteRule(w, e, s)
    BY <1>2 DEF LaneMoves, Quiet, TakeTurn, Replayed, world
  <1> QED BY <1>2, <1>4, <1>5, <1>6, <1>7 DEF RowMoves

\* ImplementsLane: effect_lane.py, ordered_l2_effect.  Candidates write in turn, each rule once, and
\* a later worker never overtakes a job that crashed.  A worker whose lease has ended in its turn is
\* not stopped by another that fails on its job, so that one of the two is excluded.
THEOREM OutboxImplementsLane ==
    ASSUME NoLate, NoSkew, "fail" \notin Disturbances \/ "stall" \notin Disturbances
    PROVE  Spec => ImplementsLane
  <1>1. Init => L!LaneInit
    <2> SUFFICES ASSUME Init PROVE L!LaneInit
      OBVIOUS
    <2>1. /\ \A m \in InLane : row[L2Row(m)].st = "absent" /\ m \in Messages
          /\ line = << >> /\ \A q \in Receipts : applied[q] = 0
      BY DEF Init, InLane
    <2>2. LAdmitted = {} /\ LWaiting = {} /\ LLost = {}
      BY <2>1 DEF LAdmitted, LWaiting, LLost, Waiting
    <2>3. LAhead = [m \in InLane |-> {}]
      <3>1. \A i, j : ~Before(i, j)
        BY <2>1 DEF Before
      <3> QED BY <3>1 DEF LAhead
    <2>4. LWritten = [m \in InLane |-> [n \in 1 .. Rules |-> 0]]
      BY <2>1 DEF LWritten, Receipts
    <2> QED BY <2>2, <2>3, <2>4 DEF L!LaneInit, LAdmitted, LWaiting, LAhead, LWritten, LLost
  <1>2. TypedI /\ TypedI' /\ LaneInv /\ WroteInv /\ GoesOn /\ [Next]_vars => [L!LaneNext]_L!lvars
    <2>1. ASSUME TypedI, TypedI', LaneInv, WroteInv, GoesOn, Next PROVE [L!LaneNext]_L!lvars
      BY <2>1, OutboxAssumption, NoLate, NoSkew, LaneStep
    <2>2. ASSUME UNCHANGED vars PROVE UNCHANGED L!lvars
      BY <2>2 DEF vars, world, L!lvars, Waiting, Before
    <2> QED BY <2>1, <2>2
  <1>3. Spec => []GoesOn
    BY GoesOnAlways
  <1> QED BY <1>1, <1>2, <1>3, TypedAlways, LaneAlways, WroteAlways, PTL
          DEF Spec, ImplementsLane, L!LaneSpec

=============================================================================
