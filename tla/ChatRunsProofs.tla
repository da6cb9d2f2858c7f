--------------------------- MODULE ChatRunsProofs ---------------------------
(***************************************************************************)
(* Proofs about ChatRuns, for any sets of runs, chats, workers and         *)
(* processes and any mix of disturbances: the types, one writer slot per   *)
(* chat, and that whoever can commit to a run holds the slot of its chat.  *)
(***************************************************************************)
EXTENDS ChatRuns, TLAPS

-----------------------------------------------------------------------------
(* Types.  The parts of TypeOK, and what makes them inductive: a task that  *)
(* was ever spawned knows its run and the run it hands over to.             *)

TasksHaveRuns ==
    \A w \in Workers :
        /\ worker[w].pc = "free" => worker[w].proc = None
        /\ worker[w].pc # "free" => worker[w].run \in Runs
        /\ worker[w].pc \in {"handoff", "relay"} => worker[w].next \in Runs

RowsOK  == run \in [Runs -> Row]

TasksOK == worker \in [Workers -> Task] /\ TasksHaveRuns

RestOK ==
    /\ active \in [Procs -> [Runs -> Workers \cup {None}]]
    /\ handler \in [Runs -> Handler]
    /\ todo \in [Procs -> SUBSET (Runs \X Actions)]
    /\ sweeping \in [Procs -> Runs \cup {None}]
    /\ acks \in SUBSET (Runs \X Workers)
    /\ crashes \in 0 .. MaxCrashes
    /\ message \in [Runs -> Output]
    /\ dispatched \in [Runs -> SUBSET Workers]
    /\ lastOwner \in [Runs -> Workers \cup {None}]

Typed == RowsOK /\ TasksOK /\ RestOK

\* Every operation on a row (_acknowledge_terminal_writer, complete, claim,
\* cancel, recover and the rest) yields a row.
LEMMA RowOps ==
    /\ \A row \in Row :
           /\ Acked(row) \in Row
           /\ Completed(row, "failed") \in Row
           /\ Completed(row, "completed") \in Row
           /\ Paused(row) \in Row
           /\ Unknown(row) \in Row
           /\ Abandoned(row) \in Row
           /\ Started(row) \in Row
           /\ Cancelled(row) \in Row
           /\ Unleased(row) \in Row
           /\ \A o \in Workers \cup Procs : Granted(row, o) \in Row
           /\ \A p \in Procs : Reopened(row, p) \in Row
           /\ \A e \in Effects : InTool(row, e) \in Row
    /\ \A c \in Chats \cup {None}, b \in BOOLEAN : PendingRow(c, b) \in Row
  <1> USE DEF Row, Status, Live, Stopped, Settled, Phases, PreModel
  <1>1. ASSUME NEW row \in Row PROVE Acked(row) \in Row
    <2> DEFINE slot == row.slot /\ row.status \notin Stopped
    <2>1. slot \in BOOLEAN /\ Acked(row) = [row EXCEPT !.slot = slot]
      BY DEF Acked
    <2> HIDE DEF slot
    <2> QED BY <2>1
  <1>2. ASSUME NEW row \in Row
        PROVE  /\ Completed(row, "failed") \in Row
               /\ Completed(row, "completed") \in Row
    BY DEF Completed
  <1>3. ASSUME NEW row \in Row PROVE Paused(row) \in Row
    BY DEF Paused
  <1>4. ASSUME NEW row \in Row PROVE Unknown(row) \in Row
    BY DEF Unknown, Effects
  <1>5. ASSUME NEW row \in Row PROVE Abandoned(row) \in Row
    BY DEF Abandoned
  <1>6. ASSUME NEW row \in Row PROVE Started(row) \in Row
    BY DEF Started
  <1>7. ASSUME NEW row \in Row PROVE Cancelled(row) \in Row
    BY DEF Cancelled
  <1>8. ASSUME NEW row \in Row PROVE Unleased(row) \in Row
    BY DEF Unleased
  <1>9. ASSUME NEW row \in Row, NEW o \in Workers \cup Procs
        PROVE  Granted(row, o) \in Row
    BY DEF Granted
  <1>10. ASSUME NEW row \in Row, NEW p \in Procs PROVE Reopened(row, p) \in Row
    BY DEF Reopened
  <1>11. ASSUME NEW row \in Row, NEW e \in Effects PROVE InTool(row, e) \in Row
    BY DEF InTool
  <1>12. ASSUME NEW c \in Chats \cup {None}, NEW b \in BOOLEAN
         PROVE  PendingRow(c, b) \in Row
    BY DEF PendingRow, AbsentRow, Effects
  <1> HIDE DEF Row, Status, Live, Stopped, Settled, Phases, PreModel
  <1> QED BY <1>1, <1>2, <1>3, <1>4, <1>5, <1>6, <1>7, <1>8, <1>9, <1>10, <1>11,
             <1>12

\* A step that replaces one row by a row keeps the table typed.
LEMMA RowOK ==
    ASSUME RowsOK, NEW r \in Runs, NEW row \in Row, run' = [run EXCEPT ![r] = row]
    PROVE  RowsOK'
  BY DEF RowsOK

\* So does a step of append_operation, which only moves the phase.
LEMMA PhaseOK ==
    ASSUME RowsOK, NEW r \in Runs, NEW phase \in Phases,
           run' = [run EXCEPT ![r].phase = phase]
    PROVE  RowsOK'
  BY DEF RowsOK, Row

\* Program counters of a task that was spawned and hands nothing over.
Ordinary == PCs \ {"free", "handoff", "relay"}

\* A task that moves on keeps its run.
LEMMA GotoOK ==
    ASSUME TasksOK, NEW w \in Workers, worker[w].pc # "free", NEW pc \in Ordinary,
           worker' = Goto(w, pc)
    PROVE  TasksOK'
  BY DEF TasksOK, TasksHaveRuns, Ordinary, Goto, Task

\* A step that leaves the tasks alone leaves them typed.
LEMMA SameOK ==
    ASSUME TasksOK, worker' = worker
    PROVE  TasksOK'
  BY DEF TasksOK, TasksHaveRuns

\* _register_run_task spawns a task that knows its run.
LEMMA SpawnOK ==
    ASSUME TasksOK, NEW w \in Workers, NEW r \in Runs, NEW p \in Procs \cup {None},
           NEW pc \in Ordinary, NEW b \in BOOLEAN, worker' = Spawn(w, r, p, pc, b)
    PROVE  TasksOK'
  BY DEF TasksOK, TasksHaveRuns, Ordinary, Spawn, Task

\* The done callback of a task keeps _active_runs typed.
LEMMA DeregOK ==
    ASSUME RestOK, NEW w \in Workers
    PROVE  Deregister(w) \in [Procs -> [Runs -> Workers \cup {None}]]
  BY DEF RestOK, Deregister

\* A worker that has committed its output remembers the run it hands over to.
LEMMA SetNextOK ==
    ASSUME TasksOK, NEW w \in Workers, worker[w].run \in Runs,
           NEW pc \in PCs \ {"free"}, NEW next \in Runs \cup {None},
           pc \in {"handoff", "relay"} => next \in Runs,
           worker' = [worker EXCEPT ![w].pc = pc, ![w].next = next]
    PROVE  TasksOK'
  <1>1. worker' \in [Workers -> Task]
    BY DEF TasksOK, Task
  <1>2. ASSUME NEW x \in Workers
        PROVE  /\ worker'[x].run = worker[x].run
               /\ x # w => worker'[x] = worker[x]
               /\ x = w => worker'[x].pc = pc /\ worker'[x].next = next
    BY DEF TasksOK, Task
  <1>3. TasksHaveRuns'
    BY <1>2 DEF TasksOK, TasksHaveRuns
  <1> QED BY <1>1, <1>3 DEF TasksOK

\* complete() with a hand-off writes the run and its successor.
LEMMA OutputRows ==
    ASSUME Typed, NEW w \in Workers, NEW next \in Runs \cup {None},
           worker[w].run \in Runs, CommitOutput(w, next)
    PROVE  RowsOK'
  <1> DEFINE r == worker[w].run
             after == [run EXCEPT ![r] = Completed(run[r], "completed")]
  <1> USE DEF Typed
  <1>1. after \in [Runs -> Row]
    BY RowOps DEF RowsOK
  <1>2. run[r].chat \in Chats \cup {None}
    BY DEF RowsOK, Row
  <1>3. CASE next = None /\ run' = after
    BY <1>1, <1>3 DEF RowsOK
  <1>4. CASE /\ next \in Runs
             /\ run' = [after EXCEPT ![next] = PendingRow(run[r].chat, TRUE)]
    <2>1. PendingRow(run[r].chat, TRUE) \in Row
      BY <1>2, RowOps
    <2> HIDE DEF after
    <2> QED BY <2>1, <1>1, <1>4 DEF RowsOK
  <1> QED BY <1>3, <1>4 DEF CommitOutput

\* _schedule_queued_handoff spawns the worker of the successor.
LEMMA ScheduleOK ==
    ASSUME TasksOK, NEW w \in Workers, NEW x \in Workers, worker[w].pc # "free",
           Schedule(w, x)
    PROVE  TasksOK'
  <1> DEFINE n  == worker[w].next
             p  == worker[w].proc
             pc == IF worker[w].pc = "handoff" THEN "closing" ELSE "done"
             sp == Spawn(x, n, p, "spawned", FALSE)
  <1>1. n \in Runs /\ p \in Procs \cup {None} /\ w # x
    BY DEF Schedule, TasksOK, TasksHaveRuns, Task
  <1>2. worker' = [sp EXCEPT ![w].pc = pc, ![w].next = None]
    BY DEF Schedule
  <1>3. /\ sp \in [Workers -> Task]
        /\ \A y \in Workers : sp[y].pc = "free" => sp[y].proc = None
        /\ \A y \in Workers : sp[y].pc # "free" => sp[y].run \in Runs
        /\ \A y \in Workers \ {w} :
              sp[y].pc \in {"handoff", "relay"} => sp[y].next \in Runs
        /\ sp[w].run \in Runs
    BY <1>1 DEF Spawn, Task, PCs, TasksOK, TasksHaveRuns
  <1>4. pc \in {"closing", "done"} /\ pc \in PCs
    BY DEF PCs
  <1> HIDE DEF sp, n, pc
  <1>5. worker' \in [Workers -> Task]
    <2>1. sp \in [Workers -> Task] /\ pc \in PCs
      BY <1>3, <1>4
    <2> QED BY <1>2, <2>1 DEF Task
  <1>6. ASSUME NEW y \in Workers
        PROVE  /\ worker'[y].run = sp[y].run
               /\ y # w => worker'[y] = sp[y]
               /\ y = w => worker'[y].pc = pc
    BY <1>2, <1>3 DEF Task
  <1>7. TasksHaveRuns'
    BY <1>3, <1>4, <1>6 DEF TasksHaveRuns
  <1> QED BY <1>5, <1>7 DEF TasksOK

\* task.cancel() on a registered task.
LEMMA StopLocalTaskOK ==
    ASSUME Typed, NEW p \in Procs, NEW r \in Runs, StopLocalTask(p, r)
    PROVE  /\ TasksOK'
           /\ active' \in [Procs -> [Runs -> Workers \cup {None}]]
           /\ acks' \in SUBSET (Runs \X Workers)
  <1> DEFINE w == active[p][r]
  <1> USE DEF Typed
  <1>1. CASE w = None
    BY <1>1, SameOK DEF StopLocalTask, RestOK
  <1>2. CASE w # None
    <2>1. w \in Workers
      BY <1>2 DEF RestOK
    <2>2. acks' = acks \cup {<<r, w>>}
      BY <1>2 DEF StopLocalTask
    <2>3. CASE worker[w].pc = "spawned" /\ Finish(w)
      <3>1. TasksOK'
        BY <2>1, <2>3, GotoOK DEF Finish, Ordinary, PCs
      <3>2. active' \in [Procs -> [Runs -> Workers \cup {None}]]
        BY <2>1, <2>3, DeregOK DEF Finish
      <3> QED BY <3>1, <3>2, <2>1, <2>2 DEF RestOK
    <2>4. CASE UNCHANGED <<worker, active>>
      BY <2>1, <2>2, <2>4, SameOK DEF RestOK
    <2> QED BY <1>2, <2>3, <2>4 DEF StopLocalTask
  <1> QED BY <1>1, <1>2

\* Every step of _run_workflow, of a hand-off and of a recovered commit.
LEMMA WorkerStepTyped ==
    ASSUME Typed, NEW w \in Workers, WorkerStep(w)
    PROVE  Typed'
  <1> DEFINE r == worker[w].run
  <1> USE DEF Typed
  <1>1. worker[w].pc # "free"
    BY DEF WorkerStep, WorkerActs, WorkerEnds, WorkerCommits, RecommitEnds,
       InitialClaim, JournalClaim, Claims, WorkerStarted, Append, Working,
       ModelDispatch, SteerCommitted, ToolIntent, ToolResult, ToolUnknown,
       Pause, SaveSnapshot, WorkerFails, Complete, CompleteLost, Fenced,
       WrapUp, HeartbeatFails, HandoffInterrupted, Close, Schedule, Recommit,
       RecommitFails
  <1>2. r \in Runs /\ run[r] \in Row
    BY <1>1 DEF TasksOK, TasksHaveRuns, RowsOK
  <1>3. CASE InitialClaim(w)
    <2>1. RowsOK'
      <3>1. \/ run' = run
            \/ run' = [run EXCEPT ![r] = Acked(run[r])]
            \/ run' = [run EXCEPT ![r] = Started(run[r])]
        BY <1>3 DEF InitialClaim
      <3> QED BY <3>1, <1>2, RowOps, RowOK DEF RowsOK
    <2>2. TasksOK'
      <3>1. worker' = Goto(w, "claiming") \/ worker' = Goto(w, "done")
        BY <1>3 DEF InitialClaim, Finish
      <3> QED BY <3>1, <1>1, GotoOK DEF Ordinary, PCs
    <2>3. RestOK'
      BY <1>3, <1>2, DeregOK DEF InitialClaim, RestOK, ghosts, sweeps, Finish
    <2> QED BY <2>1, <2>2, <2>3
  <1>4. CASE JournalClaim(w)
    <2>1. RowsOK'
      BY <1>4, <1>2, RowOps, RowOK DEF JournalClaim, RowsOK
    <2>2. TasksOK'
      <3>1. worker' = Goto(w, "starting") \/ worker' = Goto(w, "done")
        BY <1>4 DEF JournalClaim, Finish
      <3> QED BY <3>1, <1>1, GotoOK DEF Ordinary, PCs
    <2>3. RestOK'
      BY <1>4, <1>2, DeregOK DEF JournalClaim, RestOK, ghosts, sweeps, Finish
    <2> QED BY <2>1, <2>2, <2>3
  <1>5. CASE WorkerStarted(w)
    <2>1. RowsOK'
      <3>1. run' = run \/ run' = [run EXCEPT ![r].phase = "pre_model"]
        BY <1>5 DEF WorkerStarted
      <3> QED BY <3>1, <1>2, PhaseOK DEF RowsOK, Phases, PreModel
    <2>2. TasksOK'
      <3>1. worker' = Goto(w, "working") \/ worker' = Goto(w, "done")
        BY <1>5 DEF WorkerStarted, Finish
      <3> QED BY <3>1, <1>1, GotoOK DEF Ordinary, PCs
    <2>3. RestOK'
      BY <1>5, <1>2, DeregOK DEF WorkerStarted, RestOK, ghosts, sweeps, Finish
    <2> QED BY <2>1, <2>2, <2>3
  <1>6. CASE ModelDispatch(w)
    <2>1. RowsOK'
      BY <1>6, <1>2, PhaseOK DEF ModelDispatch, RowsOK, Append, Phases
    <2>2. TasksOK'
      BY <1>6, SameOK DEF ModelDispatch
    <2>3. RestOK'
      BY <1>6, <1>2 DEF ModelDispatch, RestOK, ghosts, sweeps, Append
    <2> QED BY <2>1, <2>2, <2>3
  <1>7. CASE SteerCommitted(w)
    <2>1. RowsOK'
      BY <1>7, <1>2, PhaseOK DEF SteerCommitted, RowsOK, Append, Phases
    <2>2. TasksOK'
      BY <1>7, SameOK DEF SteerCommitted
    <2>3. RestOK'
      BY <1>7, <1>2 DEF SteerCommitted, RestOK, ghosts, sweeps
    <2> QED BY <2>1, <2>2, <2>3
  <1>8. CASE ToolIntent(w)
    <2>1. RowsOK'
      BY <1>8, <1>2, RowOps, RowOK DEF ToolIntent, RowsOK, Effects
    <2>2. TasksOK'
      BY <1>8, SameOK DEF ToolIntent
    <2>3. RestOK'
      BY <1>8, <1>2 DEF ToolIntent, RestOK, ghosts, sweeps
    <2> QED BY <2>1, <2>2, <2>3
  <1>9. CASE ToolResult(w)
    <2>1. RowsOK'
      BY <1>9, <1>2, RowOps, RowOK DEF ToolResult, RowsOK, Effects
    <2>2. TasksOK'
      BY <1>9, SameOK DEF ToolResult
    <2>3. RestOK'
      BY <1>9, <1>2 DEF ToolResult, RestOK, ghosts, sweeps
    <2> QED BY <2>1, <2>2, <2>3
  <1>10. CASE ToolUnknown(w)
    <2>1. RowsOK'
      BY <1>10, <1>2, RowOps, RowOK DEF ToolUnknown, RowsOK
    <2>2. TasksOK'
      <3>1. worker' = Goto(w, "closing")
        BY <1>10 DEF ToolUnknown
      <3> QED BY <3>1, <1>1, GotoOK DEF Ordinary, PCs
    <2>3. RestOK'
      BY <1>10, <1>2 DEF ToolUnknown, RestOK, ghosts, sweeps
    <2> QED BY <2>1, <2>2, <2>3
  <1>11. CASE Pause(w)
    <2>1. RowsOK'
      BY <1>11, <1>2, RowOps, RowOK DEF Pause, RowsOK
    <2>2. TasksOK'
      <3>1. worker' = Goto(w, "closing")
        BY <1>11 DEF Pause
      <3> QED BY <3>1, <1>1, GotoOK DEF Ordinary, PCs
    <2>3. RestOK'
      BY <1>11, <1>2 DEF Pause, RestOK, ghosts, sweeps
    <2> QED BY <2>1, <2>2, <2>3
  <1>12. CASE SaveSnapshot(w)
    <2>1. RowsOK'
      BY <1>12, <1>2, PhaseOK DEF SaveSnapshot, RowsOK, Append, Phases
    <2>2. TasksOK'
      <3>1. worker' = Goto(w, "snapped")
        BY <1>12 DEF SaveSnapshot
      <3> QED BY <3>1, <1>1, GotoOK DEF Ordinary, PCs
    <2>3. RestOK'
      BY <1>12, <1>2 DEF SaveSnapshot, RestOK, ghosts, sweeps
    <2> QED BY <2>1, <2>2, <2>3
  <1>13. ASSUME NEW next \in Runs \cup {None}, Complete(w, next)
        PROVE  Typed'
    <2>1. RowsOK'
      BY <1>13, <1>2, OutputRows DEF Complete, RowsOK
    <2>2. TasksOK'
      <3>1. worker' = [worker EXCEPT ![w].pc = IF next = None THEN "closing"
                                                            ELSE "handoff",
                                     ![w].next = next]
        BY <1>13 DEF Complete
      <3>2. CASE next = None
        <4>1. worker' = [worker EXCEPT ![w].pc = "closing", ![w].next = next]
          BY <3>1, <3>2
        <4>2. "closing" \in PCs \ {"free", "handoff", "relay"}
          BY DEF PCs
        <4> QED BY <4>1, <4>2, <1>2, SetNextOK
      <3>3. CASE next # None
        BY <3>1, <3>3, <1>2, SetNextOK DEF PCs
      <3> QED BY <3>2, <3>3
    <2>3. RestOK'
      BY <1>13, <1>2 DEF Complete, RestOK, ghosts, sweeps, CommitOutput, Output
    <2> QED BY <2>1, <2>2, <2>3
  <1>14. CASE CompleteLost(w)
    <2>1. RowsOK'
      BY <1>14 DEF CompleteLost, RowsOK
    <2>2. TasksOK'
      <3>1. worker' = Goto(w, "closing")
        BY <1>14 DEF CompleteLost
      <3> QED BY <3>1, <1>1, GotoOK DEF Ordinary, PCs
    <2>3. RestOK'
      BY <1>14, <1>2 DEF CompleteLost, RestOK, ghosts, sweeps
    <2> QED BY <2>1, <2>2, <2>3
  <1>15. CASE WorkerFails(w)
    <2>1. RowsOK'
      BY <1>15, <1>2, RowOps, RowOK DEF WorkerFails, RowsOK
    <2>2. TasksOK'
      <3>1. worker' = Goto(w, "closing")
        BY <1>15 DEF WorkerFails
      <3> QED BY <3>1, <1>1, GotoOK DEF Ordinary, PCs
    <2>3. RestOK'
      BY <1>15, <1>2 DEF WorkerFails, RestOK, ghosts, sweeps, Output
    <2> QED BY <2>1, <2>2, <2>3
  <1>16. CASE Fenced(w)
    <2>1. RowsOK'
      BY <1>16 DEF Fenced, RowsOK
    <2>2. TasksOK'
      <3>1. worker' = Goto(w, "stopping")
        BY <1>16 DEF Fenced
      <3> QED BY <3>1, <1>1, GotoOK DEF Ordinary, PCs
    <2>3. RestOK'
      BY <1>16, <1>2 DEF Fenced, RestOK, ghosts, sweeps
    <2> QED BY <2>1, <2>2, <2>3
  <1>17. CASE WrapUp(w)
    <2>1. RowsOK'
      BY <1>17 DEF WrapUp, RowsOK
    <2>2. TasksOK'
      <3>1. worker' = Goto(w, "closing")
        BY <1>17 DEF WrapUp
      <3> QED BY <3>1, <1>1, GotoOK DEF Ordinary, PCs
    <2>3. RestOK'
      BY <1>17, <1>2 DEF WrapUp, RestOK, ghosts, sweeps, Output
    <2> QED BY <2>1, <2>2, <2>3
  <1>18. CASE HeartbeatFails(w)
    <2>1. RowsOK'
      BY <1>18 DEF HeartbeatFails, RowsOK
    <2>2. TasksOK'
      <3>1. worker' = Goto(w, "closing")
        BY <1>18 DEF HeartbeatFails
      <3> QED BY <3>1, <1>1, GotoOK DEF Ordinary, PCs
    <2>3. RestOK'
      BY <1>18, <1>2 DEF HeartbeatFails, RestOK, ghosts, sweeps
    <2> QED BY <2>1, <2>2, <2>3
  <1>19. CASE Close(w)
    <2>1. RowsOK'
      BY <1>19, <1>2, RowOps, RowOK DEF Close, RowsOK
    <2>2. TasksOK'
      <3>1. worker' = Goto(w, "done")
        BY <1>19 DEF Close, Finish
      <3> QED BY <3>1, <1>1, GotoOK DEF Ordinary, PCs
    <2>3. RestOK'
      BY <1>19, <1>2, DeregOK DEF Close, RestOK, ghosts, sweeps, Finish
    <2> QED BY <2>1, <2>2, <2>3
  <1>20. ASSUME NEW x \in Workers, Schedule(w, x)
        PROVE  Typed'
    <2>1. RowsOK'
      BY <1>20 DEF Schedule, RowsOK
    <2>2. TasksOK'
      BY <1>20, <1>1, ScheduleOK
    <2>3. RestOK'
      BY <1>20, <1>2 DEF Schedule, RestOK, ghosts, sweeps
    <2> QED BY <2>1, <2>2, <2>3
  <1>21. ASSUME NEW next \in Runs \cup {None}, Recommit(w, next)
        PROVE  Typed'
    <2>1. RowsOK'
      BY <1>21, <1>2, OutputRows DEF Recommit, RowsOK
    <2>2. TasksOK'
      <3>1. worker' = [worker EXCEPT ![w].pc = IF next = None THEN "done"
                                                            ELSE "relay",
                                     ![w].next = next]
        BY <1>21 DEF Recommit
      <3>2. CASE next = None
        <4>1. worker' = [worker EXCEPT ![w].pc = "done", ![w].next = next]
          BY <3>1, <3>2
        <4>2. "done" \in PCs \ {"free", "handoff", "relay"}
          BY DEF PCs
        <4> QED BY <4>1, <4>2, <1>2, SetNextOK
      <3>3. CASE next # None
        BY <3>1, <3>3, <1>2, SetNextOK DEF PCs
      <3> QED BY <3>2, <3>3
    <2>3. RestOK'
      BY <1>21, <1>2 DEF Recommit, RestOK, ghosts, sweeps, CommitOutput, Output
    <2> QED BY <2>1, <2>2, <2>3
  <1>22. CASE RecommitFails(w)
    <2>1. RowsOK'
      BY <1>22, <1>2, RowOps, RowOK DEF RecommitFails, RowsOK
    <2>2. TasksOK'
      <3>1. worker' = Goto(w, "done")
        BY <1>22 DEF RecommitFails, Finish
      <3> QED BY <3>1, <1>1, GotoOK DEF Ordinary, PCs
    <2>3. RestOK'
      BY <1>22, <1>2 DEF RecommitFails, RestOK, ghosts, sweeps
    <2> QED BY <2>1, <2>2, <2>3
  <1>23. CASE HandoffInterrupted(w)
    <2>1. RowsOK'
      BY <1>23 DEF HandoffInterrupted, RowsOK
    <2>2. TasksOK'
      <3>1. worker' = [worker EXCEPT ![w].pc = "closing", ![w].next = None]
        BY <1>23 DEF HandoffInterrupted
      <3>2. "closing" \in PCs \ {"free", "handoff", "relay"}
        BY DEF PCs
      <3> QED BY <3>1, <3>2, <1>2, SetNextOK
    <2>3. RestOK'
      BY <1>23, <1>2 DEF HandoffInterrupted, RestOK, ghosts, sweeps
    <2> QED BY <2>1, <2>2, <2>3
  <1> QED
    BY <1>3, <1>4, <1>5, <1>6, <1>7, <1>8, <1>9, <1>10, <1>11, <1>12, <1>13,
     <1>14, <1>15, <1>16, <1>17, <1>18, <1>19, <1>20, <1>21, <1>22, <1>23
     DEF WorkerStep, WorkerActs, WorkerEnds, WorkerCommits, RecommitEnds

\* Admission, launch, cancel, reap: every step of a request or of the reaper.
LEMMA RequestStepTyped ==
    ASSUME Typed, NEW r \in Runs, RequestStep(r)
    PROVE  Typed'
  <1> USE DEF Typed
  <1>1. ASSUME NEW p \in Procs, NEW c \in Chats, Accept(p, r, c)
        PROVE  Typed'
    <2>1. RowsOK'
      BY <1>1, RowOps, RowOK DEF Accept, RowsOK
    <2>2. TasksOK'
      BY <1>1, SameOK DEF Accept
    <2>3. RestOK'
      BY <1>1 DEF Accept, RestOK, ghosts, sweeps, Handler
    <2> QED BY <2>1, <2>2, <2>3
  <1>2. ASSUME NEW w \in Workers, NEW b \in BOOLEAN, Launch(r, w, b)
        PROVE  Typed'
    <2>1. RowsOK'
      BY <1>2 DEF Launch, RowsOK, Row
    <2>2. TasksOK'
      BY <1>2, SpawnOK DEF Launch, Handler, Ordinary, PCs, RestOK
    <2>3. RestOK'
      BY <1>2 DEF Launch, RestOK, ghosts, sweeps, Handler, NoHandler
    <2> QED BY <2>1, <2>2, <2>3
  <1>3. CASE LaunchRefused(r)
    <2>1. RowsOK'
      BY <1>3 DEF LaunchRefused, RowsOK
    <2>2. TasksOK'
      BY <1>3, SameOK DEF LaunchRefused
    <2>3. RestOK'
      BY <1>3 DEF LaunchRefused, RestOK, ghosts, sweeps, Handler, NoHandler
    <2> QED BY <2>1, <2>2, <2>3
  <1>4. CASE PrepareFails(r)
    <2>1. RowsOK'
      BY <1>4, RowOps, RowOK DEF PrepareFails, RowsOK
    <2>2. TasksOK'
      BY <1>4, SameOK DEF PrepareFails
    <2>3. RestOK'
      BY <1>4 DEF PrepareFails, RestOK, ghosts, sweeps, Handler, NoHandler
    <2> QED BY <2>1, <2>2, <2>3
  <1>5. CASE WaitRun(r)
    <2>1. RowsOK'
      BY <1>5, RowOps, RowOK DEF WaitRun, RowsOK
    <2>2. TasksOK'
      BY <1>5, SameOK DEF WaitRun
    <2>3. RestOK'
      BY <1>5 DEF WaitRun, RestOK, ghosts, sweeps, Handler, NoHandler
    <2> QED BY <2>1, <2>2, <2>3
  <1>6. ASSUME NEW p \in Procs, Cancel(p, r)
        PROVE  Typed'
    <2>1. RowsOK'
      BY <1>6, RowOps, RowOK DEF Cancel, RowsOK
    <2>2. TasksOK'
      BY <1>6, StopLocalTaskOK DEF Cancel
    <2>3. RestOK'
      BY <1>6, StopLocalTaskOK DEF Cancel, RestOK, ghosts, sweeps
    <2> QED BY <2>1, <2>2, <2>3
  <1>7. ASSUME NEW p \in Procs, NEW b \in BOOLEAN, Reap(p, r, b)
        PROVE  Typed'
    <2>1. RowsOK'
      BY <1>7 DEF Reap, RowsOK, Row, Status, Stopped, Settled
    <2>2. TasksOK'
      BY <1>7, StopLocalTaskOK DEF Reap
    <2>3. RestOK'
      BY <1>7, StopLocalTaskOK DEF Reap, RestOK, ghosts, sweeps
    <2> QED BY <2>1, <2>2, <2>3
  <1>8. ASSUME NEW w \in Workers, StopAcknowledged(r, w)
        PROVE  Typed'
    <2>1. RowsOK'
      BY <1>8, RowOps, RowOK DEF StopAcknowledged, RowsOK
    <2>2. TasksOK'
      BY <1>8, SameOK DEF StopAcknowledged
    <2>3. RestOK'
      BY <1>8 DEF StopAcknowledged, RestOK, ghosts, sweeps
    <2> QED BY <2>1, <2>2, <2>3
  <1>9. ASSUME NEW w \in Workers, StopTimesOut(r, w)
        PROVE  Typed'
    <2>1. RowsOK'
      BY <1>9 DEF StopTimesOut, RowsOK
    <2>2. TasksOK'
      BY <1>9, SameOK DEF StopTimesOut
    <2>3. RestOK'
      BY <1>9 DEF StopTimesOut, RestOK, ghosts, sweeps
    <2> QED BY <2>1, <2>2, <2>3
  <1> QED
    BY <1>1, <1>2, <1>3, <1>4, <1>5, <1>6, <1>7, <1>8, <1>9 DEF RequestStep

\* Every step of recover_orphan_runs and recover_incomplete_tool_effects.
LEMMA SweepStepTyped ==
    ASSUME Typed, NEW p \in Procs, SweepStep(p)
    PROVE  Typed'
  <1> USE DEF Typed
  <1>1. ASSUME NEW r \in Runs, RecoverUnprepared(p, r)
        PROVE  Typed'
    <2>1. RowsOK'
      BY <1>1, RowOps, RowOK DEF RecoverUnprepared, RowsOK
    <2>2. TasksOK'
      BY <1>1, SameOK DEF RecoverUnprepared
    <2>3. RestOK'
      BY <1>1 DEF RecoverUnprepared, RestOK, ghosts, sweeps
    <2> QED BY <2>1, <2>2, <2>3
  <1>2. ASSUME NEW r \in Runs, RecoverPause(p, r)
        PROVE  Typed'
    <2>1. RowsOK'
      BY <1>2, RowOps, RowOK DEF RecoverPause, RowsOK
    <2>2. TasksOK'
      BY <1>2, SameOK DEF RecoverPause
    <2>3. RestOK'
      BY <1>2 DEF RecoverPause, RestOK, ghosts, sweeps
    <2> QED BY <2>1, <2>2, <2>3
  <1>3. ASSUME NEW r \in Runs, NEW a \in Actions, RecoverDecide(p, r, a)
        PROVE  Typed'
    <2>1. RowsOK'
      BY <1>3 DEF RecoverDecide, RowsOK
    <2>2. TasksOK'
      BY <1>3, SameOK DEF RecoverDecide
    <2>3. RestOK'
      BY <1>3 DEF RecoverDecide, RestOK, ghosts, sweeps
    <2> QED BY <2>1, <2>2, <2>3
  <1>4. ASSUME NEW r \in Runs, NEW w \in Workers, Resume(p, r, w)
        PROVE  Typed'
    <2>1. RowsOK'
      BY <1>4 DEF Resume, RowsOK
    <2>2. TasksOK'
      BY <1>4, SpawnOK DEF Resume, Ordinary, PCs
    <2>3. RestOK'
      BY <1>4 DEF Resume, RestOK, ghosts, sweeps, Actions
    <2> QED BY <2>1, <2>2, <2>3
  <1>5. ASSUME NEW r \in Runs, NEW w \in Workers, RecommitClaim(p, r, w)
        PROVE  Typed'
    <2>1. RowsOK'
      BY <1>5, RowOps, RowOK DEF RecommitClaim, RowsOK
    <2>2. TasksOK'
      BY <1>5, SpawnOK, SameOK DEF RecommitClaim, Ordinary, PCs
    <2>3. RestOK'
      BY <1>5 DEF RecommitClaim, RestOK, ghosts, sweeps, Actions
    <2> QED BY <2>1, <2>2, <2>3
  <1>6. ASSUME NEW r \in Runs, SettleStoppedEffect(p, r)
        PROVE  Typed'
    <2>1. RowsOK'
      BY <1>6 DEF SettleStoppedEffect, RowsOK, Row, Effects
    <2>2. TasksOK'
      BY <1>6, SameOK DEF SettleStoppedEffect
    <2>3. RestOK'
      BY <1>6 DEF SettleStoppedEffect, RestOK, ghosts, sweeps
    <2> QED BY <2>1, <2>2, <2>3
  <1>7. ASSUME NEW r \in Runs, ClaimEffect(p, r)
        PROVE  Typed'
    <2>1. RowsOK'
      BY <1>7, RowOps, RowOK DEF ClaimEffect, RowsOK
    <2>2. TasksOK'
      BY <1>7, SameOK DEF ClaimEffect
    <2>3. RestOK'
      BY <1>7 DEF ClaimEffect, RestOK, ghosts, sweeps
    <2> QED BY <2>1, <2>2, <2>3
  <1>8. CASE RecoverEffect(p)
    <2>1. RowsOK'
      BY <1>8, RowOps, RowOK DEF RecoverEffect, RowsOK, Effects, RestOK
    <2>2. TasksOK'
      BY <1>8, SameOK DEF RecoverEffect
    <2>3. RestOK'
      BY <1>8 DEF RecoverEffect, RestOK, ghosts, sweeps
    <2> QED BY <2>1, <2>2, <2>3
  <1>9. CASE ReleaseRun(p)
    <2>1. RowsOK'
      BY <1>9, RowOps, RowOK DEF ReleaseRun, RowsOK, RestOK
    <2>2. TasksOK'
      BY <1>9, SameOK DEF ReleaseRun
    <2>3. RestOK'
      BY <1>9 DEF ReleaseRun, RestOK, ghosts, sweeps
    <2> QED BY <2>1, <2>2, <2>3
  <1>10. CASE GiveUpEffect(p)
    <2>1. RowsOK'
      BY <1>10, RowOps, RowOK DEF GiveUpEffect, RowsOK, RestOK
    <2>2. TasksOK'
      BY <1>10, SameOK DEF GiveUpEffect
    <2>3. RestOK'
      BY <1>10 DEF GiveUpEffect, RestOK, ghosts, sweeps
    <2> QED BY <2>1, <2>2, <2>3
  <1>11. CASE DeferEffect(p)
    <2>1. RowsOK'
      BY <1>11 DEF DeferEffect, RowsOK, RestOK
    <2>2. TasksOK'
      BY <1>11, SameOK DEF DeferEffect
    <2>3. RestOK'
      BY <1>11 DEF DeferEffect, RestOK, ghosts, sweeps
    <2> QED BY <2>1, <2>2, <2>3
  <1> QED
    BY <1>1, <1>2, <1>3, <1>4, <1>5, <1>6, <1>7, <1>8, <1>9, <1>10, <1>11 DEF
       SweepStep, SweepEnds

\* Lease expiry, a crash, and the reuse of a worker identity.
LEMMA EnvironmentTyped ==
    ASSUME Typed,
           \/ \E r \in Runs : LeaseExpires(r)
           \/ \E p \in Procs : Crash(p)
           \/ \E w \in Workers : Recycle(w)
    PROVE  Typed'
  <1> USE DEF Typed
  <1>1. ASSUME NEW r \in Runs, LeaseExpires(r) PROVE Typed'
    <2>1. RowsOK'
      BY <1>1 DEF LeaseExpires, RowsOK, Row
    <2>2. TasksOK'
      BY <1>1, SameOK DEF LeaseExpires
    <2>3. RestOK'
      BY <1>1 DEF LeaseExpires, RestOK, ghosts, sweeps
    <2> QED BY <2>1, <2>2, <2>3
  <1>2. ASSUME NEW p \in Procs, Crash(p) PROVE Typed'
    <2>1. RowsOK'
      BY <1>2 DEF Crash, RowsOK
    <2>2. TasksOK'
      <3> DEFINE dead(w) == [worker[w] EXCEPT !.pc = "done"]
      <3>1. ASSUME NEW w \in Workers
            PROVE  /\ dead(w) \in Task
                   /\ dead(w).run = worker[w].run
                   /\ dead(w).pc = "done"
        BY DEF TasksOK, Task, PCs
      <3>2. \A w \in Workers :
              /\ worker[w].proc = p => worker'[w] = dead(w)
              /\ worker[w].proc # p => worker'[w] = worker[w]
        BY <1>2 DEF Crash
      <3>3. \A w \in Workers : worker[w].proc = p => worker[w].pc # "free"
        BY ConstantsAssumption DEF TasksOK, TasksHaveRuns
      <3>4. worker' = [w \in Workers |-> IF worker[w].proc = p THEN dead(w)
                                                              ELSE worker[w]]
        BY <1>2 DEF Crash
      <3> HIDE DEF dead
      <3>5. worker' \in [Workers -> Task]
        BY <3>1, <3>4 DEF TasksOK
      <3>6. TasksHaveRuns'
        BY <3>1, <3>2, <3>3 DEF TasksOK, TasksHaveRuns
      <3> QED BY <3>5, <3>6 DEF TasksOK
    <2>3. RestOK'
      <3>1. handler' \in [Runs -> Handler]
        BY <1>2 DEF Crash, RestOK, Handler, NoHandler
      <3>2. crashes' \in 0 .. MaxCrashes
        BY <1>2, ConstantsAssumption DEF Crash, RestOK
      <3>3. active' \in [Procs -> [Runs -> Workers \cup {None}]]
        BY <1>2 DEF Crash, RestOK
      <3>4. /\ todo' \in [Procs -> SUBSET (Runs \X Actions)]
            /\ sweeping' \in [Procs -> Runs \cup {None}]
            /\ acks' \in SUBSET (Runs \X Workers)
        BY <1>2 DEF Crash, RestOK
      <3> QED BY <1>2, <3>1, <3>2, <3>3, <3>4 DEF RestOK, Crash, ghosts
    <2> QED BY <2>1, <2>2, <2>3
  <1>3. ASSUME NEW w \in Workers, Recycle(w) PROVE Typed'
    <2>1. RowsOK'
      BY <1>3 DEF Recycle, RowsOK
    <2>2. TasksOK'
      BY <1>3 DEF Recycle, TasksOK, TasksHaveRuns, FreeTask, Task, PCs
    <2>3. RestOK'
      BY <1>3 DEF Recycle, RestOK, ghosts, sweeps
    <2> QED BY <2>1, <2>2, <2>3
  <1> QED BY <1>1, <1>2, <1>3

\* Nothing is running before the first request.
LEMMA InitTyped == Init => Typed
  <1> SUFFICES ASSUME Init PROVE Typed
    OBVIOUS
  <1>1. AbsentRow \in Row
    BY DEF AbsentRow, Row, Status, Phases, PreModel, Effects
  <1>2. FreeTask \in Task /\ NoHandler \in Handler
    BY DEF FreeTask, Task, PCs, NoHandler, Handler
  <1>3. RowsOK
    BY <1>1 DEF Init, RowsOK
  <1>4. TasksOK
    BY <1>2 DEF Init, TasksOK, TasksHaveRuns, FreeTask
  <1>5. RestOK
    BY <1>2, ConstantsAssumption DEF Init, RestOK, Output
  <1> QED BY <1>3, <1>4, <1>5 DEF Typed

\* No step of any handler, worker, sweep or fault breaks the types.
LEMMA NextTyped == Typed /\ [Next]_vars => Typed'
  <1> SUFFICES ASSUME Typed, [Next]_vars PROVE Typed'
    OBVIOUS
  <1>1. CASE UNCHANGED vars
    BY <1>1 DEF vars, Typed, RowsOK, TasksOK, TasksHaveRuns, RestOK
  <1>2. CASE Next
    BY <1>2, WorkerStepTyped, RequestStepTyped, SweepStepTyped, EnvironmentTyped
       DEF Next
  <1> QED BY <1>1, <1>2

\* TypeOK, with the runs that tasks know, is an invariant.
THEOREM TypedAlways == Spec => []Typed
  BY InitTyped, NextTyped, PTL DEF Spec

\* Every row, task, registry and pending decision has its type, whatever
\* requests, crashes and sweeps do.
THEOREM TypeCorrect == Spec => []TypeOK
  <1>1. Typed => TypeOK
    BY DEF Typed, RowsOK, TasksOK, RestOK, TypeOK
  <1> QED BY <1>1, TypedAlways, PTL

-----------------------------------------------------------------------------
(* The writer slot.  A live run that a worker may start, take over or own   *)
(* holds the slot of its chat; a live run without it (one that a tool sweep *)
(* reopened) is out of their reach.                                         *)

\* uq_chat_runs_writer_slot: one row per chat holds the slot.
SlotUnique ==
    \A r, q \in Runs :
        run[r].slot /\ run[q].slot /\ run[r].chat = run[q].chat => r = q

\* A row that an initial worker waits to start, that recover() would restart
\* from, or that names a worker.
Exposed(row) ==
    \/ row.status = "pending"
    \/ row.phase \in PreModel \cup {"model_completed"}
    \/ row.owner \in Workers

ExposedHasSlot ==
    \A r \in Runs :
        run[r].status \in Live /\ (Exposed(run[r]) \/ Settling(r)) => run[r].slot

Slots == SlotUnique /\ ExposedHasSlot

SInv == Typed /\ Slots

\* What a step may do to one row without touching either part.
KeepsSlot(old, new) ==
    /\ new.slot => old.slot /\ new.chat = old.chat
    /\ \/ new.status \notin Live
       \/ new.slot
       \/ /\ old.status \in Live
          /\ new.slot = old.slot
          /\ Exposed(new) => Exposed(old)

\* The operations that settle, stop, release or acknowledge a run, and those
\* of a tool call, keep the slot; a claim or a start does if the slot is there.
LEMMA RowKeepsSlot ==
    \A row \in Row :
        /\ KeepsSlot(row, row)
        /\ KeepsSlot(row, Acked(row))
        /\ KeepsSlot(row, Completed(row, "failed"))
        /\ KeepsSlot(row, Completed(row, "completed"))
        /\ KeepsSlot(row, Paused(row))
        /\ KeepsSlot(row, Unknown(row))
        /\ KeepsSlot(row, Abandoned(row))
        /\ KeepsSlot(row, Cancelled(row))
        /\ KeepsSlot(row, Unleased(row))
        /\ \A e \in Effects : KeepsSlot(row, InTool(row, e))
        /\ row.slot => KeepsSlot(row, Started(row))
        /\ row.slot => \A o \in Workers : KeepsSlot(row, Granted(row, o))
  <1> SUFFICES ASSUME NEW row \in Row
               PROVE  /\ KeepsSlot(row, row)
                      /\ KeepsSlot(row, Acked(row))
                      /\ KeepsSlot(row, Completed(row, "failed"))
                      /\ KeepsSlot(row, Completed(row, "completed"))
                      /\ KeepsSlot(row, Paused(row))
                      /\ KeepsSlot(row, Unknown(row))
                      /\ KeepsSlot(row, Abandoned(row))
                      /\ KeepsSlot(row, Cancelled(row))
                      /\ KeepsSlot(row, Unleased(row))
                      /\ \A e \in Effects : KeepsSlot(row, InTool(row, e))
                      /\ row.slot => KeepsSlot(row, Started(row))
                      /\ row.slot =>
                            \A o \in Workers : KeepsSlot(row, Granted(row, o))
    OBVIOUS
  <1> USE DEF KeepsSlot, Row
  <1>1. KeepsSlot(row, row)
    OBVIOUS
  <1>2. KeepsSlot(row, Acked(row))
    BY DEF Acked, Live, Stopped, Settled
  <1>3. /\ KeepsSlot(row, Completed(row, "failed"))
        /\ KeepsSlot(row, Completed(row, "completed"))
    BY DEF Completed, Live
  <1>4. KeepsSlot(row, Paused(row)) /\ KeepsSlot(row, Abandoned(row))
    BY DEF Paused, Abandoned, Live
  <1>5. KeepsSlot(row, Unknown(row))
    BY DEF Unknown, Live
  <1>6. KeepsSlot(row, Cancelled(row))
    BY DEF Cancelled, Live
  <1>7. KeepsSlot(row, Unleased(row))
    BY ConstantsAssumption DEF Unleased, Exposed
  <1>8. \A e \in Effects : KeepsSlot(row, InTool(row, e))
    BY DEF InTool, Exposed, PreModel
  <1>9. row.slot => KeepsSlot(row, Started(row))
    BY DEF Started
  <1>10. row.slot => \A o \in Workers : KeepsSlot(row, Granted(row, o))
    BY DEF Granted
  <1> HIDE DEF KeepsSlot, Row
  <1> QED BY <1>1, <1>2, <1>3, <1>4, <1>5, <1>6, <1>7, <1>8, <1>9, <1>10

\* A task on its way to RunJournal.claim for run q.
SettlesAs(task, q) ==
    /\ task.run = q
    /\ \/ task.pc = "claiming"
       \/ task.pc = "spawned" /\ task.recovering

\* Who is about to claim q after a step was so before, unless the step adds a
\* decision of recover() or a task on its way to RunJournal.claim.
LEMMA SettlingStep ==
    ASSUME NEW q \in Runs,
           \A p \in Procs : todo'[p] \subseteq todo[p],
           \A x \in Workers : SettlesAs(worker'[x], q) => SettlesAs(worker[x], q)
    PROVE  Settling(q)' => Settling(q)
  BY DEF Settling, SettlesAs

\* The unique constraint survives a step whose rows all keep their slot.
LEMMA UniqueStep ==
    ASSUME SlotUnique, \A q \in Runs : KeepsSlot(run[q], run'[q])
    PROVE  SlotUnique'
  BY DEF SlotUnique, KeepsSlot

\* So does the slot of exposed runs, if new claims only aim at runs that have it.
LEMMA ExposedStep ==
    ASSUME ExposedHasSlot, RowsOK, RowsOK',
           \A q \in Runs : KeepsSlot(run[q], run'[q]) \/ run'[q].slot,
           \A q \in Runs : Settling(q)' => Settling(q) \/ run'[q].slot
    PROVE  ExposedHasSlot'
  BY DEF ExposedHasSlot, KeepsSlot, RowsOK, Row

\* _locked_owned_run succeeds only on a run that holds its slot.
LEMMA OwnedSlot ==
    ASSUME TasksOK, ExposedHasSlot, NEW w \in Workers, worker[w].run \in Runs,
           Owned(w)
    PROVE  run[worker[w].run].slot
  BY DEF ExposedHasSlot, Owned, Holds, Exposed

\* A transaction on one row, and one on none, concern the other rows not.
LEMMA OneRow ==
    ASSUME RowsOK, NEW r \in Runs, NEW row, KeepsSlot(run[r], row),
           run' = [run EXCEPT ![r] = row]
    PROVE  \A q \in Runs : KeepsSlot(run[q], run'[q])
  BY RowKeepsSlot DEF RowsOK

\* See OneRow.
LEMMA NoRow ==
    ASSUME RowsOK, run' = run
    PROVE \A q \in Runs : KeepsSlot(run[q], run'[q])
  BY RowKeepsSlot DEF RowsOK

\* A worker that moves on is not about to claim, unless it goes there.
LEMMA GotoSettles ==
    ASSUME TasksOK, NEW w \in Workers, NEW pc, pc \notin {"claiming", "spawned"},
           todo' = todo, worker' = Goto(w, pc)
    PROVE  \A q \in Runs : Settling(q)' => Settling(q)
  <1> SUFFICES ASSUME NEW q \in Runs, NEW x \in Workers, SettlesAs(worker'[x], q)
               PROVE  SettlesAs(worker[x], q)
    BY SettlingStep
  <1> QED BY DEF TasksOK, Task, Goto, SettlesAs

\* Only a spawned task takes a worker step.
LEMMA WorkerSpawned ==
    ASSUME NEW w \in Workers, WorkerStep(w)
    PROVE  worker[w].pc # "free"
  BY DEF WorkerStep, WorkerActs, WorkerEnds, WorkerCommits, RecommitEnds,
     InitialClaim, JournalClaim, Claims, WorkerStarted, Append, Working,
     ModelDispatch, SteerCommitted, ToolIntent, ToolResult, ToolUnknown,
     Pause, SaveSnapshot, WorkerFails, Complete, CompleteLost, Fenced, WrapUp,
     HeartbeatFails, HandoffInterrupted, Close, Schedule, Recommit,
     RecommitFails

\* append_operation on an owned run changes its phase and leaves its slot.
LEMMA PhaseKeepsSlot ==
    ASSUME RowsOK, NEW r \in Runs, NEW phase, run[r].slot,
           run' = [run EXCEPT ![r].phase = phase]
    PROVE  \A q \in Runs : KeepsSlot(run[q], run'[q])
  <1>1. \A q \in Runs \ {r} : run'[q] = run[q]
    BY DEF RowsOK
  <1>2. run'[r].slot = run[r].slot /\ run'[r].chat = run[r].chat
    BY DEF RowsOK, Row
  <1> QED BY <1>1, <1>2, RowKeepsSlot DEF KeepsSlot, RowsOK

\* A step that touches neither tasks nor decisions adds no claim.
LEMMA SameSettles ==
    ASSUME todo' = todo, worker' = worker
    PROVE  \A q \in Runs : Settling(q)' => Settling(q)
  BY SettlingStep

\* Nor does a worker that remembers its successor.
LEMMA NextSettles ==
    ASSUME TasksOK, NEW w \in Workers, NEW next, NEW pc,
           pc \notin {"claiming", "spawned"}, todo' = todo,
           worker' = [worker EXCEPT ![w].pc = pc, ![w].next = next]
    PROVE  \A q \in Runs : Settling(q)' => Settling(q)
  <1> SUFFICES ASSUME NEW q \in Runs, NEW x \in Workers, SettlesAs(worker'[x], q)
               PROVE  SettlesAs(worker[x], q)
    BY SettlingStep
  <1> QED BY DEF TasksOK, Task, SettlesAs

\* complete() hands the slot of its own run to the successor and to nobody else.
LEMMA OutputSlots ==
    ASSUME SInv, Typed', NEW w \in Workers, NEW next \in Runs \cup {None},
           worker[w].run \in Runs, run[worker[w].run].slot, CommitOutput(w, next),
           \A q \in Runs : Settling(q)' => Settling(q)
    PROVE  Slots'
  <1> DEFINE r == worker[w].run
             after == [run EXCEPT ![r] = Completed(run[r], "completed")]
             c == run[r].chat
             n == PendingRow(c, TRUE)
  <1> USE DEF SInv, Typed, Slots
  <1>1. \A q \in Runs : KeepsSlot(run[q], after[q])
    BY RowKeepsSlot DEF RowsOK
  <1>2. CASE next = None /\ run' = after
    BY <1>1, <1>2, UniqueStep, ExposedStep
  <1>3. CASE /\ next \in Runs
             /\ \A q \in Runs : after[q].chat = c => ~after[q].slot
             /\ run' = [after EXCEPT ![next] = n]
    <2>1. n.slot /\ n.chat = c
      BY DEF PendingRow, AbsentRow
    <2>2. after \in [Runs -> Row]
      BY RowOps DEF RowsOK
    <2> HIDE DEF after, n
    <2>3. run'[next] = n /\ \A q \in Runs \ {next} : run'[q] = after[q]
      BY <1>3, <2>2
    <2>4. SlotUnique'
      <3> SUFFICES ASSUME NEW a \in Runs, NEW b \in Runs,
                          run'[a].slot, run'[b].slot, run'[a].chat = run'[b].chat
                   PROVE  a = b
        BY DEF SlotUnique
      <3>1. CASE a = next \/ b = next
        BY <3>1, <2>1, <2>3, <1>3
      <3>2. CASE a # next /\ b # next
        BY <3>2, <2>3, <1>1 DEF KeepsSlot, SlotUnique
      <3> QED BY <3>1, <3>2
    <2>5. ExposedHasSlot'
      BY <2>1, <2>3, <1>1, ExposedStep
    <2> QED BY <2>4, <2>5
  <1> QED BY <1>2, <1>3 DEF CommitOutput

\* A task spawned for anything but a claim decides nothing.
LEMMA SpawnSettles ==
    ASSUME TasksOK, NEW w \in Workers, NEW r, NEW p, todo' = todo,
           worker' = Spawn(w, r, p, "spawned", FALSE)
    PROVE  \A q \in Runs : Settling(q)' => Settling(q)
  <1> SUFFICES ASSUME NEW q \in Runs, NEW x \in Workers, SettlesAs(worker'[x], q)
               PROVE  SettlesAs(worker[x], q)
    BY SettlingStep
  <1> QED BY DEF TasksOK, Task, Spawn, SettlesAs

\* Nor does a task that task.cancel() reached.
LEMMA StopSettles ==
    ASSUME Typed, NEW p \in Procs, NEW r \in Runs, todo' = todo, StopLocalTask(p, r)
    PROVE  \A q \in Runs : Settling(q)' => Settling(q)
  <1> USE DEF Typed
  <1>1. CASE worker' = worker
    BY <1>1, SameSettles
  <1>2. CASE active[p][r] # None /\ Finish(active[p][r])
    <2>1. active[p][r] \in Workers
      BY <1>2 DEF RestOK
    <2> QED BY <2>1, <1>2, GotoSettles DEF Finish
  <1> QED BY <1>1, <1>2 DEF StopLocalTask

\* A worker claims only what has the slot, and writes only what it owns.
LEMMA WorkerStepSlots ==
    ASSUME SInv, Typed', NEW w \in Workers, WorkerStep(w)
    PROVE  Slots'
  <1> DEFINE r == worker[w].run
             Kept  == \A q \in Runs : KeepsSlot(run[q], run'[q])
             Quiet == \A q \in Runs : Settling(q)' => Settling(q)
  <1> USE DEF SInv, Typed, Slots
  <1>1. worker[w].pc # "free"
    BY WorkerSpawned
  <1>2. r \in Runs /\ run[r] \in Row
    BY <1>1 DEF TasksOK, TasksHaveRuns, RowsOK
  <1>3. Owned(w) => run[r].slot
    BY <1>2, OwnedSlot
  <1>4. Kept /\ Quiet => Slots'
    BY UniqueStep, ExposedStep
  <1>5. CASE JournalClaim(w)
    <2>1. Kept
      <3>1. CASE Claimable(r) /\ run' = [run EXCEPT ![r] = Granted(run[r], w)]
        <4>1. Settling(r)
          BY <1>5, <1>2 DEF JournalClaim, Claims, Settling
        <4>2. run[r].slot
          BY <4>1, <3>1, <1>2 DEF ExposedHasSlot, Claimable
        <4> QED BY <4>2, <3>1, <1>2, RowKeepsSlot, OneRow
      <3>2. CASE run' = run
        BY <3>2, NoRow
      <3>3. CASE run' = [run EXCEPT ![r] = Acked(run[r])]
        BY <3>3, <1>2, RowKeepsSlot, OneRow
      <3> QED BY <1>5, <3>1, <3>2, <3>3 DEF JournalClaim
    <2>2. Quiet
      <3>1. /\ todo' = todo
            /\ worker' = Goto(w, "starting") \/ worker' = Goto(w, "done")
        BY <1>5 DEF JournalClaim, sweeps, Finish
      <3> QED BY <3>1, GotoSettles
    <2> QED BY <2>1, <2>2, <1>4
  <1>6. CASE WorkerStarted(w)
    <2>1. Kept
      BY <1>6, <1>2, <1>3, PhaseKeepsSlot, NoRow DEF WorkerStarted
    <2>2. Quiet
      <3>1. /\ todo' = todo
            /\ worker' = Goto(w, "working") \/ worker' = Goto(w, "done")
        BY <1>6 DEF WorkerStarted, sweeps, Finish
      <3> QED BY <3>1, GotoSettles
    <2> QED BY <2>1, <2>2, <1>4
  <1>7. CASE ModelDispatch(w)
    <2>1. Kept
      BY <1>7, <1>2, <1>3, PhaseKeepsSlot DEF ModelDispatch, Append
    <2>2. Quiet
      BY <1>7, SameSettles DEF ModelDispatch, Append, sweeps
    <2> QED BY <2>1, <2>2, <1>4
  <1>8. CASE SteerCommitted(w)
    <2>1. Kept
      BY <1>8, <1>2, <1>3, PhaseKeepsSlot DEF SteerCommitted, Append
    <2>2. Quiet
      BY <1>8, SameSettles DEF SteerCommitted, Append, sweeps
    <2> QED BY <2>1, <2>2, <1>4
  <1>9. CASE ToolIntent(w)
    <2>1. Kept
      <3>1. run' = [run EXCEPT ![r] = InTool(run[r], "open")]
        BY <1>9 DEF ToolIntent
      <3>2. "open" \in Effects
        BY DEF Effects
      <3> QED BY <3>1, <3>2, <1>2, RowKeepsSlot, OneRow
    <2>2. Quiet
      BY <1>9, SameSettles DEF ToolIntent, Append, sweeps
    <2> QED BY <2>1, <2>2, <1>4
  <1>10. CASE ToolResult(w)
    <2>1. Kept
      <3>1. run' = [run EXCEPT ![r] = InTool(run[r], "settled")]
        BY <1>10 DEF ToolResult
      <3>2. "settled" \in Effects
        BY DEF Effects
      <3> QED BY <3>1, <3>2, <1>2, RowKeepsSlot, OneRow
    <2>2. Quiet
      BY <1>10, SameSettles DEF ToolResult, Append, sweeps
    <2> QED BY <2>1, <2>2, <1>4
  <1>11. CASE ToolUnknown(w)
    <2>1. Kept
      BY <1>11, <1>2, RowKeepsSlot, OneRow, NoRow DEF ToolUnknown
    <2>2. Quiet
      <3>1. todo' = todo /\ (worker' = Goto(w, "closing"))
        BY <1>11 DEF ToolUnknown, sweeps
      <3> QED BY <3>1, GotoSettles
    <2> QED BY <2>1, <2>2, <1>4
  <1>12. CASE Pause(w)
    <2>1. Kept
      BY <1>12, <1>2, RowKeepsSlot, OneRow, NoRow DEF Pause
    <2>2. Quiet
      <3>1. todo' = todo /\ (worker' = Goto(w, "closing"))
        BY <1>12 DEF Pause, sweeps
      <3> QED BY <3>1, GotoSettles
    <2> QED BY <2>1, <2>2, <1>4
  <1>13. CASE SaveSnapshot(w)
    <2>1. Kept
      BY <1>13, <1>2, <1>3, PhaseKeepsSlot DEF SaveSnapshot, Append
    <2>2. Quiet
      <3>1. todo' = todo /\ (worker' = Goto(w, "snapped"))
        BY <1>13 DEF SaveSnapshot, sweeps
      <3> QED BY <3>1, GotoSettles
    <2> QED BY <2>1, <2>2, <1>4
  <1>14. CASE CompleteLost(w)
    <2>1. Kept
      BY <1>14, NoRow DEF CompleteLost
    <2>2. Quiet
      <3>1. todo' = todo /\ (worker' = Goto(w, "closing"))
        BY <1>14 DEF CompleteLost, sweeps
      <3> QED BY <3>1, GotoSettles
    <2> QED BY <2>1, <2>2, <1>4
  <1>15. CASE WorkerFails(w)
    <2>1. Kept
      <3>1. run' = run \/ run' = [run EXCEPT ![r] = Completed(run[r], "failed")]
        BY <1>15 DEF WorkerFails
      <3> QED BY <3>1, <1>2, RowKeepsSlot, OneRow, NoRow
    <2>2. Quiet
      <3>1. todo' = todo /\ (worker' = Goto(w, "closing"))
        BY <1>15 DEF WorkerFails, sweeps
      <3> QED BY <3>1, GotoSettles
    <2> QED BY <2>1, <2>2, <1>4
  <1>16. CASE Fenced(w)
    <2>1. Kept
      BY <1>16, NoRow DEF Fenced
    <2>2. Quiet
      <3>1. todo' = todo /\ (worker' = Goto(w, "stopping"))
        BY <1>16 DEF Fenced, sweeps
      <3> QED BY <3>1, GotoSettles
    <2> QED BY <2>1, <2>2, <1>4
  <1>17. CASE WrapUp(w)
    <2>1. Kept
      BY <1>17, NoRow DEF WrapUp
    <2>2. Quiet
      <3>1. todo' = todo /\ (worker' = Goto(w, "closing"))
        BY <1>17 DEF WrapUp, sweeps
      <3> QED BY <3>1, GotoSettles
    <2> QED BY <2>1, <2>2, <1>4
  <1>18. CASE HeartbeatFails(w)
    <2>1. Kept
      BY <1>18, NoRow DEF HeartbeatFails
    <2>2. Quiet
      <3>1. todo' = todo /\ (worker' = Goto(w, "closing"))
        BY <1>18 DEF HeartbeatFails, sweeps
      <3> QED BY <3>1, GotoSettles
    <2> QED BY <2>1, <2>2, <1>4
  <1>19. CASE Close(w)
    <2>1. Kept
      BY <1>19, <1>2, RowKeepsSlot, OneRow, NoRow DEF Close
    <2>2. Quiet
      <3>1. todo' = todo /\ (worker' = Goto(w, "done"))
        BY <1>19 DEF Close, sweeps, Finish
      <3> QED BY <3>1, GotoSettles
    <2> QED BY <2>1, <2>2, <1>4
  <1>20. CASE RecommitFails(w)
    <2>1. Kept
      BY <1>20, <1>2, RowKeepsSlot, OneRow, NoRow DEF RecommitFails
    <2>2. Quiet
      <3>1. todo' = todo /\ (worker' = Goto(w, "done"))
        BY <1>20 DEF RecommitFails, sweeps, Finish
      <3> QED BY <3>1, GotoSettles
    <2> QED BY <2>1, <2>2, <1>4
  <1>21. CASE InitialClaim(w)
    <2>1. CASE /\ run[r].status = "pending"
               /\ run' = [run EXCEPT ![r] = Started(run[r])]
      <3>1. run[r].slot
        BY <2>1, <1>2 DEF ExposedHasSlot, Exposed, Live
      <3>2. Kept
        BY <3>1, <2>1, <1>2, RowKeepsSlot, OneRow
      <3>3. run'[r].slot
        BY <3>1, <2>1, <1>2 DEF RowsOK, Started, Row
      <3>4. ASSUME NEW q \in Runs \ {r}
            PROVE  Settling(q)' => Settling(q)
        <4>1. todo' = todo
          BY <1>21 DEF InitialClaim, sweeps
        <4>2. \A x \in Workers : SettlesAs(worker'[x], q) => SettlesAs(worker[x], q)
          BY <1>21 DEF InitialClaim, TasksOK, Task, Goto, Finish, SettlesAs
        <4> QED BY <4>1, <4>2, SettlingStep
      <3> QED BY <3>2, <3>3, <3>4, UniqueStep, ExposedStep
    <2>2. CASE run[r].status # "pending"
      <3>1. Kept
        <4>1. run' = run \/ run' = [run EXCEPT ![r] = Acked(run[r])]
          BY <2>2, <1>21 DEF InitialClaim
        <4> QED BY <4>1, <1>2, RowKeepsSlot, OneRow, NoRow
      <3>2. Quiet
        <4>1. todo' = todo /\ worker' = Goto(w, "done")
          BY <2>2, <1>21 DEF InitialClaim, Finish, sweeps
        <4> QED BY <4>1, GotoSettles
      <3> QED BY <3>1, <3>2, <1>4
    <2> QED BY <1>21, <2>1, <2>2 DEF InitialClaim
  <1>22. ASSUME NEW next \in Runs \cup {None}, Complete(w, next)
        PROVE  Slots'
    <2> DEFINE pc == IF next = None THEN "closing" ELSE "handoff"
    <2>1. /\ todo' = todo
          /\ worker' = [worker EXCEPT ![w].pc = pc, ![w].next = next]
      BY <1>22 DEF Complete, sweeps
    <2>2. pc \notin {"claiming", "spawned"}
      OBVIOUS
    <2> HIDE DEF pc
    <2>3. Quiet
      BY <2>1, <2>2, NextSettles
    <2>4. CommitOutput(w, next) /\ Owned(w)
      BY <1>22 DEF Complete, CommitOutput
    <2> QED BY <2>4, <1>2, <1>3, <2>3, OutputSlots
  <1>23. ASSUME NEW next \in Runs \cup {None}, Recommit(w, next)
        PROVE  Slots'
    <2> DEFINE pc == IF next = None THEN "done" ELSE "relay"
    <2>1. /\ todo' = todo
          /\ worker' = [worker EXCEPT ![w].pc = pc, ![w].next = next]
      BY <1>23 DEF Recommit, sweeps
    <2>2. pc \notin {"claiming", "spawned"}
      OBVIOUS
    <2> HIDE DEF pc
    <2>3. Quiet
      BY <2>1, <2>2, NextSettles
    <2>4. CommitOutput(w, next) /\ Owned(w)
      BY <1>23 DEF Recommit, CommitOutput
    <2> QED BY <2>4, <1>2, <1>3, <2>3, OutputSlots
  <1>24. ASSUME NEW x \in Workers, Schedule(w, x)
        PROVE  Slots'
    <2>1. Kept
      BY <1>24, NoRow DEF Schedule
    <2>2. Quiet
      <3>1. todo' = todo
        BY <1>24 DEF Schedule, sweeps
      <3>2. ASSUME NEW q \in Runs, NEW y \in Workers, SettlesAs(worker'[y], q)
            PROVE  SettlesAs(worker[y], q)
        BY <1>24, <3>2 DEF Schedule, TasksOK, Task, Spawn, SettlesAs
      <3> QED BY <3>1, <3>2, SettlingStep
    <2> QED BY <2>1, <2>2, <1>4
  <1>25. CASE HandoffInterrupted(w)
    <2>1. Kept
      BY <1>25, NoRow DEF HandoffInterrupted
    <2>2. Quiet
      <3>1. /\ todo' = todo
            /\ worker' = [worker EXCEPT ![w].pc = "closing", ![w].next = None]
        BY <1>25 DEF HandoffInterrupted, sweeps
      <3>2. "closing" \notin {"claiming", "spawned"}
        OBVIOUS
      <3> QED BY <3>1, <3>2, NextSettles
    <2> QED BY <2>1, <2>2, <1>4
  <1> QED
    BY <1>5, <1>6, <1>7, <1>8, <1>9, <1>10, <1>11, <1>12, <1>13, <1>14, <1>15,
       <1>16, <1>17, <1>18, <1>19, <1>20, <1>21, <1>22, <1>23, <1>24, <1>25
     DEF
       WorkerStep, WorkerActs, WorkerEnds, WorkerCommits, RecommitEnds

\* Admission takes a free slot; no other request step gives or keeps one wrongly.
LEMMA RequestStepSlots ==
    ASSUME SInv, Typed', NEW r \in Runs, RequestStep(r)
    PROVE  Slots'
  <1> DEFINE Kept  == \A q \in Runs : KeepsSlot(run[q], run'[q])
             Quiet == \A q \in Runs : Settling(q)' => Settling(q)
  <1> USE DEF SInv, Typed, Slots
  <1>1. run[r] \in Row
    BY DEF RowsOK
  <1>2. Kept /\ Quiet => Slots'
    BY UniqueStep, ExposedStep
  <1>3. ASSUME NEW p \in Procs, NEW c \in Chats, Accept(p, r, c)
        PROVE  Slots'
    <2> DEFINE n == PendingRow(c, FALSE)
    <2>1. n.slot /\ n.chat = c
      BY DEF PendingRow, AbsentRow
    <2> HIDE DEF n
    <2>2. run'[r] = n /\ \A q \in Runs \ {r} : run'[q] = run[q]
      BY <1>3 DEF Accept, RowsOK, n
    <2>3. \A q \in Runs : run[q].chat = c => ~run[q].slot
      BY <1>3 DEF Accept, SlotFree
    <2>4. SlotUnique'
      <3> SUFFICES ASSUME NEW a \in Runs, NEW b \in Runs,
                          run'[a].slot, run'[b].slot, run'[a].chat = run'[b].chat
                   PROVE  a = b
        BY DEF SlotUnique
      <3>1. CASE a = r \/ b = r
        BY <3>1, <2>1, <2>2, <2>3
      <3>2. CASE a # r /\ b # r
        BY <3>2, <2>2 DEF SlotUnique
      <3> QED BY <3>1, <3>2
    <2>5. Quiet
      BY <1>3, SameSettles DEF Accept, sweeps
    <2>6. ExposedHasSlot'
      <3>1. \A q \in Runs : KeepsSlot(run[q], run'[q]) \/ run'[q].slot
        BY <2>1, <2>2, RowKeepsSlot DEF RowsOK
      <3> QED BY <3>1, <2>5, ExposedStep
    <2> QED BY <2>4, <2>6
  <1>4. ASSUME NEW w \in Workers, NEW b \in BOOLEAN, Launch(r, w, b)
        PROVE  Slots'
    <2>1. Kept
      <3>1. run' = [run EXCEPT ![r].snap = TRUE]
        BY <1>4 DEF Launch
      <3>2. \A q \in Runs \ {r} : run'[q] = run[q]
        BY <3>1 DEF RowsOK
      <3>3. KeepsSlot(run[r], run'[r])
        BY <3>1 DEF KeepsSlot, Exposed, RowsOK, Row
      <3> QED BY <3>2, <3>3, RowKeepsSlot DEF RowsOK
    <2>2. Quiet
      <3>1. todo' = todo /\ worker' = Spawn(w, r, handler[r].proc, "spawned", FALSE)
        BY <1>4 DEF Launch, sweeps
      <3> QED BY <3>1, SpawnSettles
    <2> QED BY <2>1, <2>2, <1>2
  <1>5. CASE LaunchRefused(r)
    <2>1. Kept
      BY <1>5, NoRow DEF LaunchRefused
    <2>2. Quiet
      BY <1>5, SameSettles DEF LaunchRefused, sweeps
    <2> QED BY <2>1, <2>2, <1>2
  <1>6. CASE PrepareFails(r)
    <2>1. Kept
      BY <1>6, <1>1, RowKeepsSlot, OneRow, NoRow DEF PrepareFails
    <2>2. Quiet
      BY <1>6, SameSettles DEF PrepareFails, sweeps
    <2> QED BY <2>1, <2>2, <1>2
  <1>7. CASE WaitRun(r)
    <2>1. Kept
      BY <1>7, <1>1, RowKeepsSlot, OneRow, NoRow DEF WaitRun
    <2>2. Quiet
      BY <1>7, SameSettles DEF WaitRun, sweeps
    <2> QED BY <2>1, <2>2, <1>2
  <1>8. ASSUME NEW p \in Procs, Cancel(p, r)
        PROVE  Slots'
    <2>1. Kept
      <3>1. run' = [run EXCEPT ![r] = Cancelled(run[r])]
        BY <1>8 DEF Cancel
      <3> QED BY <3>1, <1>1, RowKeepsSlot, OneRow
    <2>2. Quiet
      BY <1>8, StopSettles DEF Cancel, sweeps
    <2> QED BY <2>1, <2>2, <1>2
  <1>9. ASSUME NEW p \in Procs, NEW b \in BOOLEAN, Reap(p, r, b)
        PROVE  Slots'
    <2>1. Kept
      <3>1. run' = [run EXCEPT ![r].status = "failed"]
        BY <1>9 DEF Reap
      <3>2. \A q \in Runs \ {r} : run'[q] = run[q]
        BY <3>1 DEF RowsOK
      <3>3. KeepsSlot(run[r], run'[r])
        BY <3>1 DEF KeepsSlot, RowsOK, Row, Live
      <3> QED BY <3>2, <3>3, RowKeepsSlot DEF RowsOK
    <2>2. Quiet
      BY <1>9, StopSettles DEF Reap, sweeps
    <2> QED BY <2>1, <2>2, <1>2
  <1>10. ASSUME NEW w \in Workers, StopAcknowledged(r, w)
         PROVE  Slots'
    <2>1. Kept
      BY <1>10, <1>1, RowKeepsSlot, OneRow DEF StopAcknowledged
    <2>2. Quiet
      BY <1>10, SameSettles DEF StopAcknowledged, sweeps
    <2> QED BY <2>1, <2>2, <1>2
  <1>11. ASSUME NEW w \in Workers, StopTimesOut(r, w)
         PROVE  Slots'
    <2>1. Kept
      BY <1>11, NoRow DEF StopTimesOut
    <2>2. Quiet
      BY <1>11, SameSettles DEF StopTimesOut, sweeps
    <2> QED BY <2>1, <2>2, <1>2
  <1> QED
    BY <1>3, <1>4, <1>5, <1>6, <1>7, <1>8, <1>9, <1>10, <1>11 DEF RequestStep

\* A sweep decides to restart only what has the slot, and reopens a stopped
\* run at a phase from which nobody restarts it.
LEMMA SweepStepSlots ==
    ASSUME TimelyClaims, SInv, Typed', NEW p \in Procs, SweepStep(p)
    PROVE  Slots'
  <1> DEFINE Kept  == \A q \in Runs : KeepsSlot(run[q], run'[q])
             Quiet == \A q \in Runs : Settling(q)' => Settling(q)
  <1> USE DEF SInv, Typed, Slots
  <1>1. \A r \in Runs : run[r] \in Row
    BY DEF RowsOK
  <1>2. Kept /\ Quiet => Slots'
    BY UniqueStep, ExposedStep
  <1>3. ASSUME NEW r \in Runs, RecoverUnprepared(p, r)
        PROVE  Slots'
    <2>1. Kept
      BY <1>3, <1>1, RowKeepsSlot, OneRow DEF RecoverUnprepared
    <2>2. Quiet
      BY <1>3, SameSettles DEF RecoverUnprepared, sweeps
    <2> QED BY <2>1, <2>2, <1>2
  <1>4. ASSUME NEW r \in Runs, RecoverPause(p, r)
        PROVE  Slots'
    <2>1. Kept
      BY <1>4, <1>1, RowKeepsSlot, OneRow DEF RecoverPause
    <2>2. Quiet
      BY <1>4, SameSettles DEF RecoverPause, sweeps
    <2> QED BY <2>1, <2>2, <1>2
  <1>5. ASSUME NEW r \in Runs, NEW a \in Actions, RecoverDecide(p, r, a)
        PROVE  Slots'
    <2>1. Kept
      BY <1>5, NoRow DEF RecoverDecide
    <2>2. run[r].slot
      BY <1>5 DEF RecoverDecide, Claimable, SafePoint, ExposedHasSlot, Exposed
    <2>3. ASSUME NEW q \in Runs \ {r}
          PROVE  Settling(q)' => Settling(q)
      <3>1. \A x \in Workers : worker'[x] = worker[x]
        BY <1>5 DEF RecoverDecide
      <3>2. \A s \in Procs, b \in Actions :
              <<q, b>> \in todo'[s] => <<q, b>> \in todo[s]
        BY <1>5 DEF RecoverDecide, RestOK
      <3> QED BY <3>1, <3>2 DEF Settling
    <2>4. run'[r].slot
      BY <2>2, <1>5 DEF RecoverDecide
    <2> QED BY <2>1, <2>3, <2>4, UniqueStep, ExposedStep
  <1>6. ASSUME NEW r \in Runs, NEW w \in Workers, Resume(p, r, w)
        PROVE  Slots'
    <2>1. Kept
      BY <1>6, NoRow DEF Resume
    <2>2. Settling(r)
      BY <1>6 DEF Resume, Settling, Actions
    <2>3. ASSUME NEW q \in Runs \ {r}
          PROVE  Settling(q)' => Settling(q)
      <3>1. \A s \in Procs : todo'[s] \subseteq todo[s]
        BY <1>6 DEF Resume, RestOK
      <3>2. \A x \in Workers : SettlesAs(worker'[x], q) => SettlesAs(worker[x], q)
        BY <1>6 DEF Resume, TasksOK, Task, Spawn, SettlesAs
      <3> QED BY <3>1, <3>2, SettlingStep
    <2>4. Quiet
      BY <2>2, <2>3
    <2> QED BY <2>1, <2>4, <1>2
  <1>7. ASSUME NEW r \in Runs, NEW w \in Workers, RecommitClaim(p, r, w)
        PROVE  Slots'
    <2>1. Settling(r)
      BY <1>7 DEF RecommitClaim, Settling, Actions
    <2>2. Claimable(r) => run[r].slot
      BY <2>1 DEF Claimable, ExposedHasSlot
    <2>3. Kept
      <3>1. \/ Claimable(r) /\ run' = [run EXCEPT ![r] = Granted(run[r], w)]
            \/ run' = run
        BY <1>7 DEF RecommitClaim
      <3> QED BY <3>1, <2>2, <1>1, RowKeepsSlot, OneRow, NoRow
    <2>4. Quiet
      <3>1. \A s \in Procs : todo'[s] \subseteq todo[s]
        BY <1>7 DEF RecommitClaim, RestOK
      <3>2. worker' = worker \/ worker' = Spawn(w, r, p, "recommitting", TRUE)
        BY <1>7 DEF RecommitClaim
      <3>3. ASSUME NEW q \in Runs, NEW x \in Workers, SettlesAs(worker'[x], q)
            PROVE  SettlesAs(worker[x], q)
        BY <3>2, <3>3 DEF TasksOK, Task, Spawn, SettlesAs
      <3> QED BY <3>1, <3>3, SettlingStep
    <2> QED BY <2>3, <2>4, <1>2
  <1>8. ASSUME NEW r \in Runs, SettleStoppedEffect(p, r)
        PROVE  Slots'
    <2>1. Kept
      <3>1. run' = [run EXCEPT ![r].effect = "unknown"]
        BY <1>8 DEF SettleStoppedEffect
      <3>2. \A q \in Runs \ {r} : run'[q] = run[q]
        BY <3>1 DEF RowsOK
      <3>3. KeepsSlot(run[r], run'[r])
        BY <3>1 DEF KeepsSlot, Exposed, RowsOK, Row
      <3> QED BY <3>2, <3>3, RowKeepsSlot DEF RowsOK
    <2>2. Quiet
      BY <1>8, SameSettles DEF SettleStoppedEffect, sweeps
    <2> QED BY <2>1, <2>2, <1>2
  <1>9. ASSUME NEW r \in Runs, ClaimEffect(p, r)
        PROVE  Slots'
    <2> DEFINE n == Reopened(run[r], p)
    <2>1. ~Settling(r)
      BY <1>9 DEF ClaimEffect, MayLapse
    <2>2. n.slot = run[r].slot /\ n.chat = run[r].chat /\ ~Exposed(n)
      BY <1>1, ConstantsAssumption DEF Reopened, Exposed, Row, PreModel
    <2> HIDE DEF n
    <2>3. run'[r] = n /\ \A q \in Runs \ {r} : run'[q] = run[q]
      BY <1>9 DEF ClaimEffect, RowsOK, n
    <2>4. Quiet
      BY <1>9, SameSettles DEF ClaimEffect, sweeps
    <2>5. SlotUnique'
      BY <2>2, <2>3 DEF SlotUnique
    <2>6. ExposedHasSlot'
      BY <2>1, <2>2, <2>3, <2>4 DEF ExposedHasSlot
    <2> QED BY <2>5, <2>6
  <1>10. CASE RecoverEffect(p)
    <2>1. Kept
      BY <1>10, <1>1, RowKeepsSlot, OneRow DEF RecoverEffect, RestOK, Effects
    <2>2. Quiet
      BY <1>10, SameSettles DEF RecoverEffect, sweeps
    <2> QED BY <2>1, <2>2, <1>2
  <1>11. CASE ReleaseRun(p)
    <2>1. Kept
      BY <1>11, <1>1, RowKeepsSlot, OneRow, NoRow DEF ReleaseRun, RestOK
    <2>2. Quiet
      BY <1>11, SameSettles DEF ReleaseRun
    <2> QED BY <2>1, <2>2, <1>2
  <1>12. CASE GiveUpEffect(p)
    <2>1. Kept
      BY <1>12, <1>1, RowKeepsSlot, OneRow DEF GiveUpEffect, RestOK
    <2>2. Quiet
      BY <1>12, SameSettles DEF GiveUpEffect
    <2> QED BY <2>1, <2>2, <1>2
  <1>13. CASE DeferEffect(p)
    <2>1. Kept
      BY <1>13, NoRow DEF DeferEffect
    <2>2. Quiet
      BY <1>13, SameSettles DEF DeferEffect
    <2> QED BY <2>1, <2>2, <1>2
  <1> QED
    BY <1>3, <1>4, <1>5, <1>6, <1>7, <1>8, <1>9, <1>10, <1>11, <1>12, <1>13
       DEF SweepStep, SweepEnds

\* A lease that runs out, a crash and a recycled identity leave the slots alone.
LEMMA EnvironmentSlots ==
    ASSUME SInv, Typed',
           \/ \E r \in Runs : LeaseExpires(r)
           \/ \E p \in Procs : Crash(p)
           \/ \E w \in Workers : Recycle(w)
    PROVE  Slots'
  <1> DEFINE Kept  == \A q \in Runs : KeepsSlot(run[q], run'[q])
             Quiet == \A q \in Runs : Settling(q)' => Settling(q)
  <1> USE DEF SInv, Typed, Slots
  <1>1. Kept /\ Quiet => Slots'
    BY UniqueStep, ExposedStep
  <1>2. ASSUME NEW r \in Runs, LeaseExpires(r)
        PROVE  Slots'
    <2>1. Kept
      <3>1. run' = [run EXCEPT ![r].fresh = FALSE]
        BY <1>2 DEF LeaseExpires
      <3>2. \A q \in Runs \ {r} : run'[q] = run[q]
        BY <3>1 DEF RowsOK
      <3>3. KeepsSlot(run[r], run'[r])
        BY <3>1 DEF KeepsSlot, Exposed, RowsOK, Row
      <3> QED BY <3>2, <3>3, RowKeepsSlot DEF RowsOK
    <2>2. Quiet
      BY <1>2, SameSettles DEF LeaseExpires, sweeps
    <2> QED BY <2>1, <2>2, <1>1
  <1>3. ASSUME NEW p \in Procs, Crash(p)
        PROVE  Slots'
    <2>1. Kept
      BY <1>3, NoRow DEF Crash
    <2>2. Quiet
      <3>1. \A s \in Procs : todo'[s] \subseteq todo[s]
        BY <1>3 DEF Crash, RestOK
      <3>2. ASSUME NEW q \in Runs, NEW x \in Workers, SettlesAs(worker'[x], q)
            PROVE  SettlesAs(worker[x], q)
        BY <1>3, <3>2 DEF Crash, TasksOK, Task, SettlesAs
      <3> QED BY <3>1, <3>2, SettlingStep
    <2> QED BY <2>1, <2>2, <1>1
  <1>4. ASSUME NEW w \in Workers, Recycle(w)
        PROVE  Slots'
    <2>1. Kept
      BY <1>4, NoRow DEF Recycle
    <2>2. Quiet
      <3>1. todo' = todo
        BY <1>4 DEF Recycle, sweeps
      <3>2. ASSUME NEW q \in Runs, NEW x \in Workers, SettlesAs(worker'[x], q)
            PROVE  SettlesAs(worker[x], q)
        BY <1>4, <3>2 DEF Recycle, TasksOK, Task, FreeTask, SettlesAs
      <3> QED BY <3>1, <3>2, SettlingStep
    <2> QED BY <2>1, <2>2, <1>1
  <1> QED BY <1>2, <1>3, <1>4

\* An empty chat_runs table has no slot taken.
LEMMA InitSlots == Init => Slots
  BY DEF Init, Slots, SlotUnique, ExposedHasSlot, AbsentRow, Live

\* No step breaks the unique slot or takes a run in reach of a worker out of it.
LEMMA NextSlots ==
    ASSUME TimelyClaims
    PROVE  SInv /\ [Next]_vars => SInv'
  <1> SUFFICES ASSUME SInv, [Next]_vars PROVE SInv'
    OBVIOUS
  <1>1. Typed'
    BY NextTyped DEF SInv
  <1>2. CASE UNCHANGED vars
    BY <1>1, <1>2 DEF vars, SInv, Slots, SlotUnique, ExposedHasSlot, Settling
  <1>3. CASE Next
    BY <1>1, <1>3, WorkerStepSlots, RequestStepSlots, SweepStepSlots,
       EnvironmentSlots DEF Next, SInv
  <1> QED BY <1>2, <1>3

\* The unique constraint of the table and the reach of recovery, together.
THEOREM SlotsAlways ==
    ASSUME TimelyClaims
    PROVE  Spec => []SInv
  <1>1. Init => SInv
    BY InitTyped, InitSlots DEF SInv
  <1> QED BY <1>1, NextSlots, PTL DEF Spec

\* Whoever can commit to a run holds the writer slot of its chat: complete()
\* never hands over a slot it does not have.
THEOREM WriterHoldsSlotAlways ==
    ASSUME TimelyClaims
    PROVE  Spec => []WriterHoldsSlot
  <1>1. SInv => WriterHoldsSlot
    <2> SUFFICES ASSUME SInv, NEW w \in Workers, worker[w].pc # "free", Owned(w)
                 PROVE  run[worker[w].run].slot
      BY DEF WriterHoldsSlot
    <2> QED BY OwnedSlot DEF SInv, Typed, Slots, TasksOK, TasksHaveRuns
  <1> QED BY <1>1, SlotsAlways, PTL

\* At most one worker can commit anything in a chat.
THEOREM OneWriterAlways ==
    ASSUME TimelyClaims
    PROVE  Spec => []OneWriterPerChat
  <1>1. SInv => OneWriterPerChat
    <2> SUFFICES ASSUME SInv, NEW c \in Chats, NEW w \in Holders(c),
                        NEW x \in Holders(c)
                 PROVE  w = x
      BY DEF OneWriterPerChat
    <2>1. /\ w \in Workers /\ worker[w].run \in Runs /\ Owned(w)
          /\ run[worker[w].run].chat = c
      BY DEF Holders, SInv, Typed, TasksOK, TasksHaveRuns
    <2>2. /\ x \in Workers /\ worker[x].run \in Runs /\ Owned(x)
          /\ run[worker[x].run].chat = c
      BY DEF Holders, SInv, Typed, TasksOK, TasksHaveRuns
    <2>3. run[worker[w].run].slot /\ run[worker[x].run].slot
      BY <2>1, <2>2, OwnedSlot DEF SInv, Typed, Slots
    <2>4. worker[w].run = worker[x].run
      BY <2>1, <2>2, <2>3 DEF SInv, Slots, SlotUnique
    <2> QED BY <2>1, <2>2, <2>4 DEF Owned, Holds
  <1> QED BY <1>1, SlotsAlways, PTL
=============================================================================
