-------------------------- MODULE JobRuntimeProofs --------------------------
(***************************************************************************)
(* Proofs about JobRuntime, for any items, processes, launches and crashes: *)
(* the types; that the end of an attempt is announced at most once; that an *)
(* item is in one hand; that completion was earned; and that the runtime    *)
(* implements JobPromise.                                                   *)
(***************************************************************************)
EXTENDS JobRuntime, TLAPS

-----------------------------------------------------------------------------
(* Types: the parts of JobTypeOK, and what makes them inductive. *)

Works  == {"no", "todo", "calling", "again", "recalling", "ok", "bad", "booked"}
Runner == [pc: {"none", "gone"} \cup RunnerUp, out: {None, "completed", "failed"},
           work: [Items -> Works]]
Request == [by: Attempts, item: Items, at: Procs, heard: BOOLEAN]
Place   == Procs \cup {None}
Driver  == [pc: {"off", "poll", "probe", "wake"}, at: Place, seen: {None} \cup Verdicts,
            about: 0 .. MaxAttempts]
Turn    == [pc: {"none", "talking", "launching", "waiting", "timeout"}, at: Place,
            wait: BOOLEAN, of: 0 .. MaxAttempts]

\* A row r of a job with n attempts: the token is the last one, while the job lives.
RowFine(r, n) ==
    /\ r \in Rows
    /\ r.token # 0 <=> r.st \in Live
    /\ r.token \in {0, n}
    /\ r.st = "absent" <=> n = 0

RowTyped == RowFine(row, attempt) /\ attempt \in 0 .. MaxAttempts

\* Runners exist from their launch on; one whose script ended has a verdict.
RunnersTyped ==
    /\ runner \in [Attempts -> Runner]
    /\ \A a \in Attempts : runner[a].pc = "ended" => runner[a].out \in {"completed", "failed"}
    /\ \A a \in Attempts : a > attempt => runner[a].pc = "none"
    /\ marker \in {None, "completed", "failed"}
    /\ clean \subseteq Attempts

LedgerTyped ==
    /\ item \in [Items -> {"absent", "pending", "running", "done", "failed"}]
    /\ call \subseteq Request

\* A driver lives in a process that does, the entry of a process is one of its drivers.
DriversTyped ==
    /\ driver \in [Attempts -> Driver]
    /\ active \in [Procs -> 0 .. MaxAttempts]
    /\ up \in [Procs -> BOOLEAN]
    /\ \A p \in Procs : active[p] # 0 => /\ up[p] /\ driver[active[p]].at = p
                                         /\ driver[active[p]].pc # "off"
    /\ \A d \in Attempts : driver[d].pc # "off" =>
          /\ driver[d].at \in Procs /\ up[driver[d].at]
          /\ d <= attempt
          /\ driver[d].pc = "probe" => driver[d].seen \in Verdicts

\* A launch is that of the last attempt, which has no driver yet.
TurnTyped ==
    /\ turn \in Turn
    /\ turn.pc # "none" => turn.at \in Procs /\ up[turn.at]
    /\ turn.pc \in {"launching", "waiting", "timeout"} => turn.of \in 1 .. attempt
    /\ turn.pc = "launching" => turn.of = attempt /\ driver[attempt].pc = "off"

NotesTyped ==
    /\ told \subseteq Attempts /\ refused \subseteq Attempts
    /\ wakes \in [Attempts -> 0 .. 2]

ClocksTyped == quiet \in BOOLEAN /\ still \in BOOLEAN /\ crashes \in 0 .. MaxCrashes

\* What a driver is about to tell is the end of an attempt there was.
AboutTyped == \A d \in Attempts : driver[d].pc = "wake" => driver[d].about \in 1 .. attempt

Typed == /\ RowTyped /\ RunnersTyped /\ LedgerTyped /\ DriversTyped /\ TurnTyped
         /\ NotesTyped /\ ClocksTyped /\ AboutTyped

\* What the bounds on attempts, processes and crashes say of single values.
LEMMA Bounds ==
    ASSUME JobAssumption, RowTyped
    PROVE  /\ attempt \in Nat /\ MaxAttempts \in Nat /\ MaxCrashes \in Nat /\ None \in Place
           /\ \A a \in Attempts : a \in Nat /\ a # 0 /\ a \in 0 .. MaxAttempts
           /\ \A p \in Procs : p \in Place /\ p # None
           /\ attempt # 0 => attempt \in Attempts
           /\ 0 \in 0 .. MaxAttempts /\ 0 \notin Attempts
  BY DEF JobAssumption, RowTyped, Attempts, Place

\* The named types are those of the type invariant.
LEMMA TypedIsTypeOK == JobAssumption /\ Typed => JobTypeOK
  <1> SUFFICES ASSUME JobAssumption, Typed PROVE JobTypeOK
    OBVIOUS
  <1>1. RowOK
    BY DEF Typed, RowTyped, RowFine, RowOK
  <1>2. SandboxOK
    BY DEF Typed, RunnersTyped, LedgerTyped, Runner, Works, Request, SandboxOK
  <1>3. DriversOK
    BY DEF Typed, DriversTyped, Driver, Place, DriversOK
  <1>4. ChatOK
    BY DEF Typed, TurnTyped, NotesTyped, Turn, Place, ChatOK
  <1> QED BY <1>1, <1>2, <1>3, <1>4 DEF Typed, DriversTyped, ClocksTyped, JobTypeOK

\* The job as it is enqueued has its types.
LEMMA TypedInit == JobAssumption /\ Init => Typed
  <1> SUFFICES ASSUME JobAssumption, Init PROVE Typed
    OBVIOUS
  <1>1. RowTyped
    BY DEF Init, JobAssumption, RowTyped, RowFine, Rows, Live
  <1>2. RunnersTyped
    BY DEF Init, RunnersTyped, Runner, Works
  <1>3. LedgerTyped
    BY DEF Init, LedgerTyped
  <1>4. DriversTyped
    BY <1>1, Bounds DEF Init, DriversTyped, Driver, NoDriver
  <1>5. TurnTyped
    BY <1>1, Bounds DEF Init, TurnTyped, Turn, NoTurn
  <1>6. NotesTyped
    BY DEF Init, NotesTyped
  <1>7. ClocksTyped
    <2>1. quiet = FALSE /\ still = FALSE /\ crashes = 0
      BY DEF Init
    <2>2. 0 \in 0 .. MaxCrashes
      BY <1>1, Bounds
    <2> QED BY <2>1, <2>2 DEF ClocksTyped
  <1>8. AboutTyped
    BY DEF Init, AboutTyped, NoDriver
  <1> QED BY <1>1, <1>2, <1>3, <1>4, <1>5, <1>6, <1>7, <1>8 DEF Typed

-----------------------------------------------------------------------------
(* What the operations of the row and of the drivers do. *)

\* JobService.finish ends the job and leaves everything else alone.
LEMMA FinishedOK ==
    ASSUME JobAssumption, RowTyped, attempt # 0, NEW v \in Verdicts
    PROVE  /\ RowFine(Finished(v), attempt)
           /\ Finished(v).st \in Terminal
           /\ Finished(v).woken = row.woken /\ Finished(v).wake = row.wake
           /\ row.st \in Terminal => Finished(v) = row
           /\ Finished(v).st = "completed" => row.st = "completed" \/ v = "completed"
  <1>1. Outcome(v) \in Terminal
    BY DEF Outcome, Verdicts, Terminal
  <1>2. Outcome(v) = "completed" => v = "completed"
    BY DEF Outcome
  <1>3. CASE row.st \in Terminal
    BY <1>3 DEF Finished, RowTyped
  <1>4. CASE row.st \notin Terminal
    <2> DEFINE f == [row EXCEPT !.st = Outcome(v), !.token = 0]
    <2>1. row \in Rows /\ Finished(v) = f
      BY <1>4 DEF Finished, RowTyped, RowFine
    <2>2. f \in Rows /\ f.st = Outcome(v) /\ f.token = 0 /\ f.woken = row.woken /\ f.wake = row.wake
      BY <2>1, <1>1, Bounds DEF Rows, Terminal
    <2> QED BY <2>1, <2>2, <1>1, <1>2, <1>4 DEF RowTyped, RowFine, Terminal, Live
  <1> QED BY <1>3, <1>4

\* _maybe_wake: the driver marks the row and goes on to tell the chat, or ends.
LEMMA WakeFromOK ==
    ASSUME JobAssumption, RowTyped, NEW d \in Attempts, NEW r, RowFine(r, attempt), WakeFrom(d, r)
    PROVE  /\ RowFine(row', attempt) /\ row'.st = r.st
           /\ \/ /\ r.st \in Terminal /\ ~r.woken /\ row'.woken
                 /\ driver' = [driver EXCEPT ![d].pc = "wake", ![d].seen = None,
                                             ![d].about = attempt]
                 /\ active' = active
              \/ row' = r /\ EndOf(d)
  <1>1. CASE Wakeable(r)
    BY <1>1 DEF WakeFrom, Wakeable, RowFine, Rows, RowTyped
  <1>2. CASE ~Wakeable(r)
    BY <1>2 DEF WakeFrom
  <1> QED BY <1>1, <1>2

\* A driver that ends leaves no entry behind.
LEMMA EndOfOK ==
    ASSUME JobAssumption, RowTyped, DriversTyped, NEW d \in Attempts, driver[d].pc # "off",
           EndOf(d), UNCHANGED <<attempt, up>>
    PROVE  DriversTyped' /\ driver'[d].pc = "off" /\ \A e \in Attempts : e # d => driver'[e] = driver[e]
  <1>1. driver[d].at \in Procs /\ driver[d].at \in Place
    BY Bounds DEF DriversTyped
  <1>2. [NoDriver EXCEPT !.at = driver[d].at] \in Driver
    BY <1>1, Bounds DEF NoDriver, Driver
  <1>3. /\ driver' = [driver EXCEPT ![d] = [NoDriver EXCEPT !.at = driver[d].at]]
        /\ active' = [active EXCEPT ![driver[d].at] = 0]
    BY DEF EndOf
  <1>4. driver'[d].pc = "off" /\ \A e \in Attempts : e # d => driver'[e] = driver[e]
    BY <1>3 DEF DriversTyped, NoDriver
  <1>5. driver' \in [Attempts -> Driver] /\ active' \in [Procs -> 0 .. MaxAttempts]
    BY <1>1, <1>2, <1>3, Bounds DEF DriversTyped
  <1>6. ASSUME NEW p \in Procs, active'[p] # 0 PROVE active[p] = active'[p] /\ active[p] # d /\ active[p] \in Attempts
    BY <1>1, <1>3, <1>6, Bounds DEF DriversTyped, Attempts
  <1> QED BY <1>4, <1>5, <1>6 DEF DriversTyped

\* A driver that was polling or probing goes on to tell the chat.
LEMMA GoesWakingOK ==
    ASSUME JobAssumption, RowTyped, DriversTyped, NEW d \in Attempts, driver[d].pc # "off",
           driver' = [driver EXCEPT ![d].pc = "wake", ![d].seen = None, ![d].about = attempt],
           UNCHANGED <<attempt, up, active>>
    PROVE  DriversTyped' /\ driver'[d].pc = "wake" /\ driver'[d].about = attempt
           /\ \A e \in Attempts : e # d => driver'[e] = driver[e]
  <1>1. attempt \in 0 .. MaxAttempts
    BY DEF RowTyped
  <1> DEFINE D == [driver[d] EXCEPT !.pc = "wake", !.seen = None, !.about = attempt]
  <1>a. driver[d] \in Driver /\ driver' = [driver EXCEPT ![d] = D]
    BY DEF DriversTyped
  <1>b. D \in Driver /\ D.pc = "wake" /\ D.at = driver[d].at /\ D.about = attempt
    BY <1>1, <1>a DEF Driver
  <1>2. driver' \in [Attempts -> Driver] /\ driver'[d].pc = "wake" /\ driver'[d].at = driver[d].at
        /\ driver'[d].about = attempt /\ \A e \in Attempts : e # d => driver'[e] = driver[e]
    BY <1>a, <1>b DEF DriversTyped
  <1>3. \A p \in Procs : active[p] # 0 => active[p] \in Attempts
    BY Bounds DEF DriversTyped, Attempts
  <1> QED BY <1>2, <1>3 DEF DriversTyped

\* A driver that posts its wake leaves every driver typed.
LEMMA WakeFromDrivers ==
    ASSUME JobAssumption, RowTyped, DriversTyped, NEW d \in Attempts, driver[d].pc # "off",
           NEW r, RowFine(r, attempt), WakeFrom(d, r), UNCHANGED <<attempt, up>>
    PROVE  DriversTyped'
  BY WakeFromOK, EndOfOK, GoesWakingOK

\* The turn of a launch or of a wait knows its attempt.
LEMMA TurnOf ==
    ASSUME JobAssumption, Typed, turn.pc \in {"launching", "waiting", "timeout"}
    PROVE  turn.of \in Attempts /\ turn.of <= attempt /\ turn.at \in Procs /\ up[turn.at]
  BY Bounds DEF Typed, TurnTyped, Attempts, RowTyped

\* Only the state of one item in one runner changes.
LEMMA WorkOK ==
    ASSUME RunnersTyped, NEW a \in Attempts, NEW i \in Items, NEW w \in Works, Work(a, i, w),
           UNCHANGED <<attempt, marker, clean>>
    PROVE  RunnersTyped'
  <1>1. \A b \in Attempts : runner[b].work \in [Items -> Works]
    BY DEF RunnersTyped, Runner
  <1>2. [runner[a].work EXCEPT ![i] = w] \in [Items -> Works]
    BY <1>1
  <1>3. runner' = [runner EXCEPT ![a] = [runner[a] EXCEPT !.work = [runner[a].work EXCEPT ![i] = w]]]
    BY DEF Work
  <1> QED BY <1>2, <1>3 DEF RunnersTyped, Runner

\* The SDK of a runner notices that its server is gone.
LEMMA DroppedOK ==
    ASSUME RunnersTyped, NEW p \in Procs
    PROVE  /\ Dropped(p) \in [Attempts -> Runner]
           /\ \A a \in Attempts : Dropped(p)[a].pc = runner[a].pc /\ Dropped(p)[a].out = runner[a].out
  <1> DEFINE lost(a) == {c.item : c \in {e \in call : e.at = p /\ e.heard /\ e.by = a}}
             W(a) == [i \in Items |-> IF i \in lost(a) THEN Retried(runner[a].work[i])
                                                      ELSE runner[a].work[i]]
  <1>1. \A a \in Attempts : W(a) \in [Items -> Works]
    BY DEF RunnersTyped, Runner, Retried, Works
  <1>2. Dropped(p) = [a \in Attempts |-> [runner[a] EXCEPT !.work = W(a)]]
    BY DEF Dropped
  <1> HIDE DEF W
  <1>3. ASSUME NEW a \in Attempts
        PROVE  /\ [runner[a] EXCEPT !.work = W(a)] \in Runner
               /\ [runner[a] EXCEPT !.work = W(a)].pc = runner[a].pc
               /\ [runner[a] EXCEPT !.work = W(a)].out = runner[a].out
    <2>1. runner[a] \in Runner
      BY DEF RunnersTyped
    <2> QED BY <1>1, <2>1 DEF Runner
  <1> QED BY <1>2, <1>3

-----------------------------------------------------------------------------
(* The types are kept. *)


\* The row and its token: create, finish, resume, mark_running, reap_orphan_jobs.
LEMMA RowStep ==
    ASSUME JobAssumption, Typed, Next
    PROVE  RowTyped'
  <1>1. ASSUME NEW p \in Procs, Cancel(p) PROVE RowTyped'
    <2>1. attempt # 0 /\ attempt' = attempt /\ row' = Finished("cancelled")
      BY <1>1, Bounds DEF Cancel, Typed
    <2> QED BY <2>1, FinishedOK DEF Typed, RowTyped, Verdicts
  <1>2. ASSUME NEW wait \in BOOLEAN, Start(wait) PROVE RowTyped'
    BY <1>2, Bounds DEF Start, JobAssumption, Typed, RowTyped, RowFine, Rows, Live,
      Terminal
  <1>3. ASSUME NEW wait \in BOOLEAN, Resume(wait) PROVE RowTyped'
    <2>1. attempt' = attempt + 1 /\ attempt' \in 1 .. MaxAttempts /\ row' = Reopened(row, attempt + 1)
      BY <1>3, Bounds DEF Resume, Typed, JobAssumption
    <2>2. attempt' \in 0 .. MaxAttempts /\ row \in Rows
      BY <2>1, Bounds DEF Typed, RowTyped, RowFine
    <2>3. row' \in Rows /\ row'.st = "pending" /\ row'.token = attempt'
      BY <2>1, <2>2 DEF Reopened, Rows, Live
    <2> QED BY <2>1, <2>2, <2>3 DEF RowTyped, RowFine, Live
  <1>4. ASSUME Detach PROVE RowTyped'
    BY <1>4, Bounds DEF Detach, Typed, RowTyped, RowFine, Rows, Live, Terminal
  <1>5. ASSUME NEW d \in Attempts, PollTerminal(d) PROVE RowTyped'
    <2>1. attempt' = attempt /\ WakeFrom(d, row)
      BY <1>5 DEF PollTerminal
    <2> QED BY <2>1, WakeFromOK DEF Typed, RowTyped
  <1>6. ASSUME NEW d \in Attempts, Silent(d) PROVE RowTyped'
    <2>1. attempt # 0 /\ attempt' = attempt /\ WakeFrom(d, Finished("failed"))
      BY <1>6, Bounds DEF Silent, Polls, Typed, DriversTyped
    <2> QED BY <2>1, FinishedOK, WakeFromOK DEF Typed, RowTyped, Verdicts
  <1>7. ASSUME NEW d \in Attempts, ProbeAnswered(d) PROVE RowTyped'
    <2>1. attempt # 0 /\ attempt' = attempt /\ WakeFrom(d, Finished(driver[d].seen))
          /\ driver[d].seen \in Verdicts
      BY <1>7, Bounds DEF ProbeAnswered, Typed, DriversTyped
    <2> QED BY <2>1, FinishedOK, WakeFromOK DEF Typed, RowTyped
  <1>8. ASSUME NEW d \in Attempts, WallClock(d) PROVE RowTyped'
    <2>1. attempt # 0 /\ attempt' = attempt /\ row' = Finished("failed")
      BY <1>8, Bounds DEF WallClock, Polls, Typed, DriversTyped
    <2> QED BY <2>1, FinishedOK DEF Typed, RowTyped, Verdicts
  <1>9. ASSUME NEW p \in Procs, Reap(p) PROVE RowTyped'
    BY <1>9, Bounds DEF Reap, Interrupted, Typed, RowTyped, RowFine, Rows, Live,
      Terminal
  <1>10. ASSUME NEW p \in Procs, Restart(p) PROVE RowTyped'
    BY <1>10, Bounds DEF Restart, Interrupted, Typed, RowTyped, RowFine, Rows, Live,
      Terminal
  <1>11. ASSUME NEW a \in Attempts, ReportRunning(a) PROVE RowTyped'
    <2>1. row' = [row EXCEPT !.st = "running"] /\ attempt' = attempt
      BY <1>11 DEF ReportRunning
    <2>2. row.token # 0 /\ row \in Rows
      BY <1>11, Bounds DEF ReportRunning, Heard, Passes, Typed, RowTyped, RowFine
    <2>3. row' \in Rows /\ row'.st = "running" /\ row'.token = row.token
      BY <2>1, <2>2 DEF Rows, Live
    <2> QED BY <2>1, <2>2, <2>3 DEF Typed, RowTyped, RowFine, Live
  <1>12. ASSUME NEW a \in Attempts, ReportEnd(a) PROVE RowTyped'
    <2>1. attempt # 0 /\ attempt' = attempt /\ row' = Finished(runner[a].out)
      BY <1>12, Bounds DEF ReportEnd, Heard, Passes, Typed, RowTyped, RowFine
    <2>2. runner[a].out \in Verdicts
      BY <1>12 DEF ReportEnd, Typed, RunnersTyped, Runner, Verdicts
    <2> QED BY <2>1, <2>2, FinishedOK DEF Typed, RowTyped
  <1>13. ASSUME NEW p \in Procs, TurnBegins(p) \/ Crash(p)
       PROVE  UNCHANGED <<row, attempt>>
    BY <1>13 DEF TurnBegins, Crash, ledger, sandbox, chat
  <1>14. ASSUME TurnEnds \/ Launched \/ LaunchFails \/ TurnAborted \/ WaitReturns \/
    WaitTimer \/ Silence
       PROVE  UNCHANGED <<row, attempt>>
    BY <1>14 DEF TurnEnds, Launched, Begun, LaunchFails, TurnAborted, WaitReturns,
      WaitTimer, Silence, ledger, sandbox, chat
  <1>15. ASSUME NEW d \in Attempts, WakeAccepted(d) \/ WakeRefused(d) \/ ProbeSent(d)
    \/ ProgressWake(d)
       PROVE  UNCHANGED <<row, attempt>>
    BY <1>15 DEF WakeAccepted, WakeRefused, ProbeSent, ProgressWake, ledger, sandbox,
      chat
  <1>16. ASSUME NEW a \in Attempts, Fetch(a) \/ ScriptEnds(a) \/ FencedExit(a) \/
    ReportLost(a) \/ RunnerKilled(a) \/ Hang(a)
       PROVE  UNCHANGED <<row, attempt>>
    BY <1>16 DEF Fetch, ScriptEnds, FencedExit, Gone, ReportLost, RunnerKilled, Hang,
      ledger, sandbox, chat
  <1>17. ASSUME NEW a \in Attempts, NEW i \in Items, Book(a, i)
       PROVE  UNCHANGED <<row, attempt>>
    BY <1>17 DEF Book, Work, ledger, sandbox, chat
  <1>18. ASSUME NEW a \in Attempts, NEW i \in Items, NEW p \in Procs, AgentBegin(a, i,
    p)
       PROVE  UNCHANGED <<row, attempt>>
    BY <1>18 DEF AgentBegin, Calls, Work, ledger, sandbox, chat
  <1>19. ASSUME NEW c \in call, NEW ok \in BOOLEAN, AgentEnd(c, ok)
       PROVE  UNCHANGED <<row, attempt>>
    BY <1>19 DEF AgentEnd, Work, ledger, sandbox, chat
  <1>20. ASSUME NEW c \in call, GiveUp(c)
       PROVE  UNCHANGED <<row, attempt>>
    BY <1>20 DEF GiveUp, Work, ledger, sandbox, chat
  <1>21. ASSUME UNCHANGED <<row, attempt>> PROVE RowTyped'
    BY <1>21 DEF RowTyped, Typed
  <1>22. QED
    BY <1>1, <1>2, <1>3, <1>4, <1>5, <1>6, <1>7, <1>8, <1>9, <1>10, <1>11, <1>12,
      <1>13, <1>14, <1>15, <1>16, <1>17, <1>18, <1>19, <1>20, <1>21 DEF Next, Chat,
      DriverStep, RunnerStep, AnyAgentEnd

\* The runners in the sandbox, their verdicts and the file that outlives them.
LEMMA RunnersStep ==
    ASSUME JobAssumption, Typed, Next
    PROVE  RunnersTyped'
  <1>1. ASSUME NEW wait \in BOOLEAN, Start(wait) PROVE RunnersTyped'
    BY <1>1, Bounds DEF Start, sandbox, Typed, RunnersTyped, Runner, RunnerUp
  <1>2. ASSUME NEW wait \in BOOLEAN, Resume(wait) PROVE RunnersTyped'
    BY <1>2, Bounds DEF Resume, sandbox, Typed, RunnersTyped, Runner, RunnerUp
  <1>3. ASSUME Launched PROVE RunnersTyped'
    <2>1. turn.of \in Attempts /\ turn.of <= attempt /\ Begun(turn.of)
          /\ UNCHANGED <<attempt, marker, clean>>
      BY <1>3, TurnOf DEF Launched
    <2> QED BY <2>1, Bounds DEF Begun, Typed, RunnersTyped, Runner, RunnerUp, RowTyped
  <1>4. ASSUME TurnAborted PROVE RunnersTyped'
    <2>1. turn.of \in Attempts /\ turn.of <= attempt /\ UNCHANGED <<attempt, marker, clean>>
          /\ (runner' = runner \/ Begun(turn.of))
      BY <1>4, TurnOf DEF TurnAborted
    <2>2. CASE Begun(turn.of)
      BY <2>1, <2>2, Bounds DEF Begun, Typed, RunnersTyped, Runner, RunnerUp, RowTyped
    <2> QED BY <2>1, <2>2 DEF Typed, RunnersTyped
  <1>5. ASSUME NEW p \in Procs, Crash(p) PROVE RunnersTyped'
    <2>1. UNCHANGED <<attempt, marker, clean>>
      BY <1>5 DEF Crash
    <2>2. CASE runner' = Dropped(p)
      BY <2>1, <2>2, DroppedOK DEF Typed, RunnersTyped
    <2>3. ASSUME turn.pc = "launching", runner' = [Dropped(p) EXCEPT ![turn.of].pc = "started"]
          PROVE  RunnersTyped'
      <3>1. turn.of \in Attempts /\ turn.of <= attempt
        BY <2>3, TurnOf
      <3>2. runner' \in [Attempts -> Runner]
        BY <2>3, <3>1, DroppedOK DEF Typed, Runner, RunnerUp
      <3>3. \A a \in Attempts : a # turn.of => runner'[a] = Dropped(p)[a]
        BY <2>3, <3>1, DroppedOK DEF Typed
      <3>4. runner'[turn.of].pc = "started"
        BY <2>3, <3>1, DroppedOK DEF Typed, Runner
      <3> QED BY <2>1, <3>1, <3>2, <3>3, <3>4, DroppedOK, Bounds DEF Typed, RunnersTyped, RowTyped
    <2> QED BY <2>2, <2>3, <1>5 DEF Crash
  <1>6. ASSUME NEW a \in Attempts, ReportRunning(a) PROVE RunnersTyped'
    BY <1>6, Bounds DEF ReportRunning, Typed, RunnersTyped, Runner, RunnerUp
  <1>7. ASSUME NEW a \in Attempts, Fetch(a) PROVE RunnersTyped'
    <2> DEFINE f == [i \in Items |-> IF item'[i] = "pending" THEN "todo" ELSE "no"]
               x == [runner[a] EXCEPT !.pc = "mapping", !.work = f]
    <2>1. /\ runner[a].pc = "running" /\ attempt' = attempt /\ marker' = marker /\ clean' = clean
          /\ runner' = [runner EXCEPT ![a].pc = "mapping", ![a].work = f]
      BY <1>7 DEF Fetch
    <2>2. f \in [Items -> Works]
      BY DEF Works
    <2> HIDE DEF f
    <2>3. runner[a] \in Runner /\ runner \in [Attempts -> Runner]
      BY DEF Typed, RunnersTyped
    <2>4. x \in Runner /\ x.pc = "mapping"
      BY <2>2, <2>3 DEF Runner, RunnerUp
    <2>5. runner' = [runner EXCEPT ![a] = x]
      BY <2>1, <2>3 DEF Runner
    <2> HIDE DEF x
    <2> QED BY <2>1, <2>3, <2>4, <2>5 DEF Typed, RunnersTyped
  <1>8. ASSUME NEW a \in Attempts, ScriptEnds(a) PROVE RunnersTyped'
    <2>1. UNCHANGED <<attempt, marker>> /\ clean' \subseteq Attempts
      BY <1>8 DEF ScriptEnds, Typed, RunnersTyped
    <2>2. ASSUME NEW o \in {"completed", "failed"},
                 runner' = [runner EXCEPT ![a].pc = "ended", ![a].out = o]
          PROVE  RunnersTyped'
      <3> DEFINE R == [runner[a] EXCEPT !.pc = "ended", !.out = o]
      <3>1. runner' = [runner EXCEPT ![a] = R] /\ runner[a] \in Runner
        BY <2>2 DEF Typed, RunnersTyped
      <3>2. R \in Runner /\ R.out = o /\ R.pc # "none"
        BY <3>1, <1>8 DEF ScriptEnds, Runner, RunnerUp, Typed, RunnersTyped
      <3> QED BY <2>1, <3>1, <3>2, <1>8 DEF ScriptEnds, Typed, RunnersTyped
    <2> QED BY <2>2, <1>8 DEF ScriptEnds
  <1>9. ASSUME NEW a \in Attempts, ReportEnd(a) PROVE RunnersTyped'
    BY <1>9, Bounds DEF ReportEnd, Gone, Typed, RunnersTyped, Runner, RunnerUp
  <1>10. ASSUME NEW a \in Attempts, FencedExit(a) PROVE RunnersTyped'
    BY <1>10, Bounds DEF FencedExit, Gone, Typed, RunnersTyped, Runner, RunnerUp
  <1>11. ASSUME NEW a \in Attempts, ReportLost(a) PROVE RunnersTyped'
    BY <1>11, Bounds DEF ReportLost, Gone, Typed, RunnersTyped, Runner, RunnerUp
  <1>12. ASSUME NEW a \in Attempts, RunnerKilled(a) PROVE RunnersTyped'
    BY <1>12, Bounds DEF RunnerKilled, Gone, Typed, RunnersTyped, Runner, RunnerUp
  <1>13. ASSUME NEW a \in Attempts, Hang(a) PROVE RunnersTyped'
    BY <1>13, Bounds DEF Hang, Typed, RunnersTyped, Runner, RunnerUp
  <1>14. ASSUME NEW a \in Attempts, NEW i \in Items, Book(a, i) PROVE RunnersTyped'
    BY <1>14, WorkOK DEF Book, Typed, Works
  <1>15. ASSUME NEW a \in Attempts, NEW i \in Items, NEW p \in Procs, AgentBegin(a, i,
    p) PROVE RunnersTyped'
    BY <1>15, WorkOK DEF AgentBegin, Calls, Typed, Works
  <1>16. ASSUME NEW c \in call, NEW ok \in BOOLEAN, AgentEnd(c, ok) PROVE
    RunnersTyped'
    <2>1. c.by \in Attempts /\ c.item \in Items /\ UNCHANGED <<attempt, marker, clean>>
      BY <1>16 DEF AgentEnd, Typed, LedgerTyped, Request
    <2>2. {"ok", "bad", Retried(runner[c.by].work[c.item])} \subseteq Works
      BY DEF Retried, Works
    <2>3. runner' = runner \/ \E w \in Works : Work(c.by, c.item, w)
      BY <1>16, <2>2 DEF AgentEnd
    <2>4. CASE runner' = runner
      BY <2>1, <2>4 DEF Typed, RunnersTyped
    <2> QED BY <2>1, <2>3, <2>4, WorkOK DEF Typed
  <1>17. ASSUME NEW c \in call, GiveUp(c) PROVE RunnersTyped'
    <2>1. c.by \in Attempts /\ c.item \in Items /\ UNCHANGED <<attempt, marker, clean>>
      BY <1>17 DEF GiveUp, Typed, LedgerTyped, Request
    <2>2. Retried(runner[c.by].work[c.item]) \in Works
      BY DEF Retried, Works
    <2> QED BY <2>1, <2>2, <1>17, WorkOK DEF GiveUp, Typed
  <1>18. ASSUME NEW p \in Procs, TurnBegins(p) \/ Cancel(p) \/ Reap(p) \/ Restart(p)
       PROVE  UNCHANGED <<runner, attempt, marker, clean>>
    BY <1>18 DEF TurnBegins, Cancel, Reap, Restart, ledger, sandbox, chat
  <1>19. ASSUME TurnEnds \/ LaunchFails \/ WaitReturns \/ WaitTimer \/ Detach \/
    Silence
       PROVE  UNCHANGED <<runner, attempt, marker, clean>>
    BY <1>19 DEF TurnEnds, LaunchFails, WaitReturns, WaitTimer, Detach, Silence,
      ledger, sandbox, chat
  <1>20. ASSUME NEW d \in Attempts, PollTerminal(d) \/ WakeAccepted(d) \/
    WakeRefused(d) \/ Silent(d) \/ ProbeSent(d) \/ ProbeAnswered(d) \/ ProgressWake(d)
    \/ WallClock(d)
       PROVE  UNCHANGED <<runner, attempt, marker, clean>>
    BY <1>20 DEF PollTerminal, WakeAccepted, WakeRefused, Silent, ProbeSent,
      ProbeAnswered, ProgressWake, WallClock, ledger, sandbox, chat
  <1>21. ASSUME UNCHANGED <<runner, attempt, marker, clean>> PROVE RunnersTyped'
    BY <1>21 DEF RunnersTyped, Typed
  <1>22. QED
    BY <1>1, <1>2, <1>3, <1>4, <1>5, <1>6, <1>7, <1>8, <1>9, <1>10, <1>11, <1>12,
      <1>13, <1>14, <1>15, <1>16, <1>17, <1>18, <1>19, <1>20, <1>21 DEF Next, Chat,
      DriverStep, RunnerStep, AnyAgentEnd

\* The ledger of items and the requests that are worked on.
LEMMA LedgerStep ==
    ASSUME JobAssumption, Typed, Next
    PROVE  LedgerTyped'
  <1>1. ASSUME NEW p \in Procs, Crash(p) PROVE LedgerTyped'
    BY <1>1 DEF Crash, Typed, LedgerTyped, Request
  <1>2. ASSUME NEW a \in Attempts, Fetch(a) PROVE LedgerTyped'
    BY <1>2 DEF Fetch, Typed, LedgerTyped, Request
  <1>3. ASSUME NEW a \in Attempts, NEW i \in Items, Book(a, i) PROVE LedgerTyped'
    BY <1>3 DEF Book, Typed, LedgerTyped, Request
  <1>4. ASSUME NEW a \in Attempts, NEW i \in Items, NEW p \in Procs, AgentBegin(a, i,
    p) PROVE LedgerTyped'
    <2>1. [by |-> a, item |-> i, at |-> p, heard |-> TRUE] \in Request
      BY DEF Request
    <2> QED BY <2>1, <1>4 DEF AgentBegin, Calls, Typed, LedgerTyped
  <1>5. ASSUME NEW c \in call, NEW ok \in BOOLEAN, AgentEnd(c, ok) PROVE LedgerTyped'
    BY <1>5 DEF AgentEnd, Typed, LedgerTyped, Request
  <1>6. ASSUME NEW c \in call, GiveUp(c) PROVE LedgerTyped'
    BY <1>6 DEF GiveUp, Typed, LedgerTyped, Request
  <1>7. ASSUME NEW p \in Procs, TurnBegins(p) \/ Cancel(p) \/ Reap(p) \/ Restart(p)
       PROVE  UNCHANGED <<item, call>>
    BY <1>7 DEF TurnBegins, Cancel, Reap, Restart, ledger, sandbox, chat
  <1>8. ASSUME NEW wait \in BOOLEAN, Start(wait) \/ Resume(wait)
       PROVE  UNCHANGED <<item, call>>
    BY <1>8 DEF Start, Resume, ledger, sandbox, chat
  <1>9. ASSUME TurnEnds \/ Launched \/ LaunchFails \/ TurnAborted \/ WaitReturns \/
    WaitTimer \/ Detach \/ Silence
       PROVE  UNCHANGED <<item, call>>
    BY <1>9 DEF TurnEnds, Launched, Begun, LaunchFails, TurnAborted, WaitReturns,
      WaitTimer, Detach, Silence, ledger, sandbox, chat
  <1>10. ASSUME NEW d \in Attempts, PollTerminal(d) \/ WakeAccepted(d) \/
    WakeRefused(d) \/ Silent(d) \/ ProbeSent(d) \/ ProbeAnswered(d) \/ ProgressWake(d)
    \/ WallClock(d)
       PROVE  UNCHANGED <<item, call>>
    BY <1>10 DEF PollTerminal, WakeAccepted, WakeRefused, Silent, ProbeSent,
      ProbeAnswered, ProgressWake, WallClock, ledger, sandbox, chat
  <1>11. ASSUME NEW a \in Attempts, ReportRunning(a) \/ ScriptEnds(a) \/ ReportEnd(a)
    \/ FencedExit(a) \/ ReportLost(a) \/ RunnerKilled(a) \/ Hang(a)
       PROVE  UNCHANGED <<item, call>>
    BY <1>11 DEF ReportRunning, ScriptEnds, ReportEnd, Gone, FencedExit, ReportLost,
      RunnerKilled, Hang, ledger, sandbox, chat
  <1>12. ASSUME UNCHANGED <<item, call>> PROVE LedgerTyped'
    BY <1>12 DEF LedgerTyped, Typed
  <1>13. QED
    BY <1>1, <1>2, <1>3, <1>4, <1>5, <1>6, <1>7, <1>8, <1>9, <1>10, <1>11, <1>12 DEF
      Next, Chat, DriverStep, RunnerStep, AnyAgentEnd

\* Drivers and the entries of _active_jobs.
LEMMA DriversStep ==
    ASSUME JobAssumption, Typed, Next
    PROVE  DriversTyped'
  <1>1. ASSUME NEW p \in Procs, Cancel(p) PROVE DriversTyped'
    <2> DEFINE d == active[p]
    <2>1. active' = [active EXCEPT ![p] = 0] /\ UNCHANGED <<attempt, up>>
      BY <1>1 DEF Cancel
    <2>2. CASE d = 0
      BY <2>1, <2>2, <1>1, Bounds DEF Cancel, Typed, DriversTyped
    <2>3. CASE d # 0
      <3>1. d \in Attempts /\ driver[d].at = p /\ driver[d].pc # "off"
        BY <2>3, Bounds DEF Typed, DriversTyped, Attempts
      <3>2. EndOf(d)
        BY <2>1, <2>3, <3>1, <1>1 DEF Cancel, EndOf
      <3> QED BY <2>1, <3>1, <3>2, EndOfOK DEF Typed
    <2> QED BY <2>2, <2>3
  <1>2. ASSUME NEW wait \in BOOLEAN, Start(wait) PROVE DriversTyped'
    BY <1>2, Bounds DEF Start, Typed, DriversTyped, Driver
  <1>3. ASSUME NEW wait \in BOOLEAN, Resume(wait) PROVE DriversTyped'
    BY <1>3, Bounds DEF Resume, Reopened, Typed, DriversTyped, Driver
  <1>4. ASSUME Launched PROVE DriversTyped'
    <2> DEFINE q == turn.at
               b == turn.of
    <2>1. q \in Procs /\ up[q] /\ b \in Attempts /\ b = attempt /\ driver[b].pc = "off"
          /\ UNCHANGED <<attempt, up>>
      BY <1>4, TurnOf DEF Launched, Typed, TurnTyped
    <2>2. CASE UNCHANGED <<driver, active>>
      BY <2>1, <2>2 DEF Typed, DriversTyped
    <2>3. ASSUME driver' = [driver EXCEPT ![b] = Driving(q)], active' = [active EXCEPT ![q] = b]
          PROVE  DriversTyped'
      <3>1. Driving(q) \in Driver /\ Driving(q).pc = "poll" /\ Driving(q).at = q
        BY <2>1, Bounds DEF Driving, NoDriver, Driver, Typed
      <3>2. \A p \in Procs : active[p] # b
        BY <2>1, Bounds DEF Typed, DriversTyped
      <3>3. \A p \in Procs : active[p] # 0 => active[p] \in Attempts
        BY Bounds DEF Typed, DriversTyped, Attempts
      <3> HIDE DEF q, b
      <3>4. driver' \in [Attempts -> Driver] /\ active' \in [Procs -> 0 .. MaxAttempts]
            /\ up' \in [Procs -> BOOLEAN]
        BY <2>1, <2>3, <3>1, Bounds DEF Typed, DriversTyped
      <3>5. driver'[b] = Driving(q) /\ \A e \in Attempts : e # b => driver'[e] = driver[e]
        BY <2>1, <2>3 DEF Typed, DriversTyped
      <3>6. active'[q] = b /\ \A p \in Procs : p # q => active'[p] = active[p]
        BY <2>1, <2>3 DEF Typed, DriversTyped
      <3>7. b <= attempt
        BY <2>1, Bounds DEF Typed
      <3>8. \A p \in Procs : active'[p] # 0 => up[p] /\ driver'[active'[p]].at = p
                                              /\ driver'[active'[p]].pc # "off"
        BY <2>1, <3>1, <3>2, <3>3, <3>5, <3>6 DEF Typed, DriversTyped
      <3> QED BY <2>1, <3>1, <3>4, <3>5, <3>7, <3>8 DEF Typed, DriversTyped
    <2> QED BY <2>2, <2>3, <1>4 DEF Launched
  <1>5. ASSUME NEW d \in Attempts, PollTerminal(d) PROVE DriversTyped'
    <2>1. attempt' = attempt /\ WakeFrom(d, row)
      BY <1>5 DEF PollTerminal
    <2>2. driver[d].pc # "off" /\ up' = up
      BY <1>5 DEF PollTerminal, Polls
    <2> QED BY <2>1, <2>2, WakeFromDrivers DEF Typed, RowTyped
  <1>6. ASSUME NEW d \in Attempts, WakeAccepted(d) PROVE DriversTyped'
    <2>1. driver[d].pc # "off" /\ EndOf(d) /\ UNCHANGED <<attempt, up>>
      BY <1>6 DEF WakeAccepted, Polls
    <2> QED BY <2>1, EndOfOK DEF Typed
  <1>7. ASSUME NEW d \in Attempts, WakeRefused(d) PROVE DriversTyped'
    <2>1. driver[d].pc # "off" /\ EndOf(d) /\ UNCHANGED <<attempt, up>>
      BY <1>7 DEF WakeRefused, Polls
    <2> QED BY <2>1, EndOfOK DEF Typed
  <1>8. ASSUME NEW d \in Attempts, Silent(d) PROVE DriversTyped'
    <2>1. attempt # 0 /\ attempt' = attempt /\ WakeFrom(d, Finished("failed"))
      BY <1>8, Bounds DEF Silent, Polls, Typed, DriversTyped
    <2>2. driver[d].pc # "off" /\ up' = up
      BY <1>8 DEF Silent, Polls
    <2> QED BY <2>1, <2>2, WakeFromDrivers, FinishedOK DEF Typed, RowTyped, Verdicts
  <1>9. ASSUME NEW d \in Attempts, ProbeSent(d) PROVE DriversTyped'
    <2>1. PICK v \in Verdicts : driver' = [driver EXCEPT ![d].pc = "probe", ![d].seen = v]
      BY <1>9 DEF ProbeSent, MarkerRead, Verdicts, Typed, RunnersTyped
    <2> DEFINE D == [driver[d] EXCEPT !.pc = "probe", !.seen = v]
    <2>2. driver' = [driver EXCEPT ![d] = D] /\ UNCHANGED <<active, attempt, up>> /\ driver[d] \in Driver
          /\ driver[d].pc = "poll"
      BY <2>1, <1>9 DEF ProbeSent, Polls, Typed, DriversTyped
    <2>3. D \in Driver /\ D.pc = "probe" /\ D.seen = v /\ D.at = driver[d].at
      BY <2>2 DEF Driver
    <2>4. \A p \in Procs : active[p] # 0 => active[p] \in Attempts
      BY Bounds DEF Typed, DriversTyped, Attempts
    <2>5. driver'[d] = D /\ (\A e \in Attempts : e # d => driver'[e] = driver[e])
          /\ driver' \in [Attempts -> Driver]
      BY <2>2, <2>3 DEF Typed, DriversTyped
    <2> HIDE DEF D
    <2> QED BY <2>2, <2>3, <2>4, <2>5 DEF Typed, DriversTyped
  <1>10. ASSUME NEW d \in Attempts, ProbeAnswered(d) PROVE DriversTyped'
    <2>1. attempt # 0 /\ attempt' = attempt /\ WakeFrom(d, Finished(driver[d].seen))
          /\ driver[d].seen \in Verdicts
      BY <1>10, Bounds DEF ProbeAnswered, Typed, DriversTyped
    <2>2. driver[d].pc # "off" /\ up' = up
      BY <1>10 DEF ProbeAnswered, Polls
    <2> QED BY <2>1, <2>2, WakeFromDrivers, FinishedOK DEF Typed, RowTyped
  <1>11. ASSUME NEW d \in Attempts, WallClock(d) PROVE DriversTyped'
    <2>1. driver[d].pc # "off" /\ EndOf(d) /\ UNCHANGED <<attempt, up>>
      BY <1>11 DEF WallClock, Polls
    <2> QED BY <2>1, EndOfOK DEF Typed
  <1>12. ASSUME NEW p \in Procs, Crash(p) PROVE DriversTyped'
    <2>1. /\ up' = [up EXCEPT ![p] = FALSE] /\ active' = [active EXCEPT ![p] = 0]
          /\ attempt' = attempt
      BY <1>12 DEF Crash
    <2>2. [NoDriver EXCEPT !.at = p] \in Driver /\ [NoDriver EXCEPT !.at = p].pc = "off"
      BY Bounds DEF NoDriver, Driver, Typed
    <2>3. \A e \in Attempts : /\ driver[e].at = p => driver'[e] = [NoDriver EXCEPT !.at = p]
                              /\ driver[e].at # p => driver'[e] = driver[e]
      BY <1>12 DEF Crash
    <2>4. \A q \in Procs : active[q] # 0 => active[q] \in Attempts
      BY Bounds DEF Typed, DriversTyped, Attempts
    <2>5. driver' \in [Attempts -> Driver] /\ active' \in [Procs -> 0 .. MaxAttempts]
          /\ up' \in [Procs -> BOOLEAN]
      BY <2>1, <2>2, <1>12, Bounds DEF Crash, Typed, DriversTyped
    <2>6. /\ driver \in [Attempts -> Driver] /\ active \in [Procs -> 0 .. MaxAttempts]
          /\ \A q \in Procs : q # p => active'[q] = active[q]
          /\ active'[p] = 0
      BY <2>1 DEF Typed, DriversTyped
    <2>7. ASSUME NEW q \in Procs, active'[q] # 0
          PROVE  up'[q] /\ driver'[active'[q]].at = q /\ driver'[active'[q]].pc # "off"
      <3>1. q # p /\ active'[q] = active[q] /\ active[q] \in Attempts
        BY <2>4, <2>6, <2>7
      <3>2. up[q] /\ driver[active[q]].at = q /\ driver[active[q]].pc # "off"
        BY <2>7, <3>1 DEF Typed, DriversTyped
      <3> QED BY <2>1, <2>3, <3>1, <3>2 DEF Typed, DriversTyped
    <2>8. ASSUME NEW e \in Attempts, driver'[e].pc # "off"
          PROVE  /\ driver'[e].at \in Procs /\ up'[driver'[e].at] /\ e <= attempt'
                 /\ driver'[e].pc = "probe" => driver'[e].seen \in Verdicts
      <3>1. driver[e].at # p /\ driver'[e] = driver[e]
        BY <2>2, <2>3, <2>8
      <3> QED BY <2>1, <2>8, <3>1 DEF Typed, DriversTyped
    <2> QED BY <2>5, <2>7, <2>8 DEF DriversTyped
  <1>13. ASSUME NEW p \in Procs, Restart(p) PROVE DriversTyped'
    BY <1>13, Bounds DEF Restart, Typed, DriversTyped, Driver
  <1>14. ASSUME NEW p \in Procs, TurnBegins(p) \/ Reap(p)
       PROVE  UNCHANGED <<driver, active, up, attempt>>
    BY <1>14 DEF TurnBegins, Reap, ledger, sandbox, chat
  <1>15. ASSUME TurnEnds \/ LaunchFails \/ TurnAborted \/ WaitReturns \/ WaitTimer \/
    Detach \/ Silence
       PROVE  UNCHANGED <<driver, active, up, attempt>>
    BY <1>15 DEF TurnEnds, LaunchFails, TurnAborted, Begun, WaitReturns, WaitTimer,
      Detach, Silence, ledger, sandbox, chat
  <1>16. ASSUME NEW d \in Attempts, ProgressWake(d)
       PROVE  UNCHANGED <<driver, active, up, attempt>>
    BY <1>16 DEF ProgressWake, ledger, sandbox, chat
  <1>17. ASSUME NEW a \in Attempts, ReportRunning(a) \/ Fetch(a) \/ ScriptEnds(a) \/
    ReportEnd(a) \/ FencedExit(a) \/ ReportLost(a) \/ RunnerKilled(a) \/ Hang(a)
       PROVE  UNCHANGED <<driver, active, up, attempt>>
    BY <1>17 DEF ReportRunning, Fetch, ScriptEnds, ReportEnd, Gone, FencedExit,
      ReportLost, RunnerKilled, Hang, ledger, sandbox, chat
  <1>18. ASSUME NEW a \in Attempts, NEW i \in Items, Book(a, i)
       PROVE  UNCHANGED <<driver, active, up, attempt>>
    BY <1>18 DEF Book, Work, ledger, sandbox, chat
  <1>19. ASSUME NEW a \in Attempts, NEW i \in Items, NEW p \in Procs, AgentBegin(a, i,
    p)
       PROVE  UNCHANGED <<driver, active, up, attempt>>
    BY <1>19 DEF AgentBegin, Calls, Work, ledger, sandbox, chat
  <1>20. ASSUME NEW c \in call, NEW ok \in BOOLEAN, AgentEnd(c, ok)
       PROVE  UNCHANGED <<driver, active, up, attempt>>
    BY <1>20 DEF AgentEnd, Work, ledger, sandbox, chat
  <1>21. ASSUME NEW c \in call, GiveUp(c)
       PROVE  UNCHANGED <<driver, active, up, attempt>>
    BY <1>21 DEF GiveUp, Work, ledger, sandbox, chat
  <1>22. ASSUME UNCHANGED <<driver, active, up, attempt>> PROVE DriversTyped'
    BY <1>22 DEF DriversTyped, Typed
  <1>23. QED
    BY <1>1, <1>2, <1>3, <1>4, <1>5, <1>6, <1>7, <1>8, <1>9, <1>10, <1>11, <1>12,
      <1>13, <1>14, <1>15, <1>16, <1>17, <1>18, <1>19, <1>20, <1>21, <1>22 DEF Next,
      Chat, DriverStep, RunnerStep, AnyAgentEnd

\* The turn of the chat, and the launch or the wait it is in.
LEMMA TurnStep ==
    ASSUME JobAssumption, Typed, Next
    PROVE  TurnTyped'
  <1>1. ASSUME NEW p \in Procs, TurnBegins(p) PROVE TurnTyped'
    BY <1>1, Bounds DEF TurnBegins, Idle, Talks, Typed, TurnTyped, Turn
  <1>2. ASSUME NEW p \in Procs, Cancel(p) PROVE TurnTyped'
    <2>1. UNCHANGED <<attempt, up>> /\ turn' \in {turn, NoTurn}
      BY <1>2 DEF Cancel
    <2>2. \A e \in Attempts : driver[e].pc = "off" => driver'[e].pc = "off"
      BY <1>2 DEF Cancel, NoDriver, Typed, DriversTyped
    <2>3. CASE turn' = turn
      BY <2>1, <2>2, <2>3, TurnOf DEF Typed, TurnTyped
    <2>4. CASE turn' = NoTurn
      BY <2>1, <2>4, Bounds DEF Typed, TurnTyped, Turn, NoTurn
    <2> QED BY <2>1, <2>3, <2>4
  <1>3. ASSUME NEW wait \in BOOLEAN, Start(wait) PROVE TurnTyped'
    <2>1. /\ turn.pc = "talking" /\ attempt = 0 /\ attempt' = 1 /\ 1 \in Attempts
          /\ turn' = [turn EXCEPT !.pc = "launching", !.wait = wait, !.of = 1]
          /\ UNCHANGED <<driver, up>>
      BY <1>3, Bounds DEF Start, Typed, Attempts
    <2>2. turn \in Turn /\ turn.at \in Procs /\ up[turn.at]
      BY <2>1 DEF Typed, TurnTyped
    <2>3. driver[1].pc = "off"
      BY <2>1 DEF Typed, DriversTyped, Driver
    <2>4. turn' \in Turn /\ turn'.pc = "launching" /\ turn'.of = attempt' /\ turn'.at = turn.at
      <3>1. turn' = [pc |-> "launching", at |-> turn.at, wait |-> wait, of |-> 1]
        BY <2>1, <2>2 DEF Turn
      <3>2. turn.at \in Place /\ 1 \in 0 .. MaxAttempts /\ wait \in BOOLEAN
        BY <2>1, <2>2, Bounds DEF Turn, Attempts, Typed
      <3>3. [pc |-> "launching", at |-> turn.at, wait |-> wait, of |-> 1] \in Turn
        BY <3>2 DEF Turn
      <3> QED BY <2>1, <3>1, <3>3
    <2> QED BY <2>1, <2>2, <2>3, <2>4, Bounds DEF Typed, TurnTyped
  <1>4. ASSUME NEW wait \in BOOLEAN, Resume(wait) PROVE TurnTyped'
    <2>1. /\ turn.pc = "talking" /\ attempt' = attempt + 1 /\ attempt' \in 1 .. MaxAttempts
          /\ turn' = [turn EXCEPT !.pc = "launching", !.wait = wait, !.of = attempt + 1]
          /\ UNCHANGED <<driver, up>>
      BY <1>4, Bounds DEF Resume, Typed
    <2>2. turn \in Turn /\ turn.at \in Procs /\ up[turn.at]
      BY <2>1 DEF Typed, TurnTyped
    <2>3. driver[attempt + 1].pc = "off"
      BY <2>1, Bounds DEF Typed, DriversTyped, Driver, Attempts
    <2>4. turn' \in Turn /\ turn'.pc = "launching" /\ turn'.of = attempt' /\ turn'.at = turn.at
      <3>1. turn' = [pc |-> "launching", at |-> turn.at, wait |-> wait, of |-> attempt + 1]
        BY <2>1, <2>2 DEF Turn
      <3>2. turn.at \in Place /\ attempt + 1 \in 0 .. MaxAttempts /\ wait \in BOOLEAN
        BY <2>1, <2>2, Bounds DEF Turn, Attempts, Typed
      <3>3. [pc |-> "launching", at |-> turn.at, wait |-> wait, of |-> attempt + 1] \in Turn
        BY <3>2 DEF Turn
      <3> QED BY <2>1, <3>1, <3>3
    <2> QED BY <2>1, <2>2, <2>3, <2>4, Bounds DEF Typed, TurnTyped
  <1>5. ASSUME TurnEnds PROVE TurnTyped'
    BY <1>5, Bounds DEF TurnEnds, Talks, NoTurn, Idle, Typed, TurnTyped, Turn
  <1>6. ASSUME Launched PROVE TurnTyped'
    <2>1. turn.pc = "launching" /\ UNCHANGED <<attempt, up>>
          /\ turn' = IF turn.wait THEN [turn EXCEPT !.pc = "waiting"] ELSE Talks(turn.at)
      BY <1>6 DEF Launched
    <2>2. turn \in Turn /\ turn.of \in 1 .. attempt /\ turn.at \in Procs /\ up[turn.at]
      BY <2>1 DEF Typed, TurnTyped
    <2> QED BY <2>1, <2>2, Bounds DEF Typed, TurnTyped, Turn, Talks
  <1>7. ASSUME LaunchFails PROVE TurnTyped'
    BY <1>7, Bounds DEF LaunchFails, Talks, NoTurn, Idle, Typed, TurnTyped, Turn
  <1>8. ASSUME TurnAborted PROVE TurnTyped'
    BY <1>8, Bounds DEF TurnAborted, Begun, Talks, NoTurn, Idle, Typed, TurnTyped,
      Turn
  <1>9. ASSUME WaitReturns PROVE TurnTyped'
    BY <1>9, Bounds DEF WaitReturns, Talks, NoTurn, Idle, Typed, TurnTyped, Turn
  <1>10. ASSUME WaitTimer PROVE TurnTyped'
    BY <1>10, Bounds DEF WaitTimer, Talks, NoTurn, Idle, Typed, TurnTyped, Turn
  <1>11. ASSUME Detach PROVE TurnTyped'
    BY <1>11, Bounds DEF Detach, Talks, NoTurn, Idle, Typed, TurnTyped, Turn
  <1>12. ASSUME NEW d \in Attempts, PollTerminal(d) PROVE TurnTyped'
    <2>1. UNCHANGED <<turn, up, attempt>> /\ WakeFrom(d, row) /\ driver[d].pc # "off"
      BY <1>12 DEF PollTerminal, Polls, chat
    <2>2. \A e \in Attempts : driver[e].pc = "off" => driver'[e].pc = "off"
      BY <2>1 DEF WakeFrom, EndOf, NoDriver, Typed, DriversTyped
    <2> QED BY <2>1, <2>2, TurnOf DEF Typed, TurnTyped
  <1>13. ASSUME NEW d \in Attempts, WakeAccepted(d) PROVE TurnTyped'
    <2>1. driver[d].pc # "off" /\ turn' = Talks(driver[d].at) /\ UNCHANGED <<attempt, up>>
      BY <1>13 DEF WakeAccepted
    <2>2. driver[d].at \in Procs /\ up[driver[d].at]
      BY <2>1 DEF Typed, DriversTyped
    <2> QED BY <2>1, <2>2, Bounds DEF Typed, TurnTyped, Turn, Talks
  <1>14. ASSUME NEW d \in Attempts, WakeRefused(d) PROVE TurnTyped'
    <2>1. UNCHANGED <<turn, up, attempt>>
      BY <1>14 DEF WakeRefused
    <2>2. \A e \in Attempts : driver[e].pc = "off" => driver'[e].pc = "off"
      BY <1>14 DEF WakeRefused, EndOf, NoDriver, Typed, DriversTyped
    <2> QED BY <2>1, <2>2, TurnOf DEF Typed, TurnTyped
  <1>15. ASSUME NEW d \in Attempts, Silent(d) PROVE TurnTyped'
    <2>1. UNCHANGED <<turn, up, attempt>> /\ WakeFrom(d, Finished("failed")) /\ driver[d].pc # "off"
      BY <1>15 DEF Silent, Polls, chat
    <2>2. \A e \in Attempts : driver[e].pc = "off" => driver'[e].pc = "off"
      BY <2>1 DEF WakeFrom, EndOf, NoDriver, Typed, DriversTyped
    <2> QED BY <2>1, <2>2, TurnOf DEF Typed, TurnTyped
  <1>16. ASSUME NEW d \in Attempts, ProbeSent(d) PROVE TurnTyped'
    <2>1. UNCHANGED <<turn, up, attempt>>
      BY <1>16 DEF ProbeSent, chat
    <2>2. \A e \in Attempts : driver[e].pc = "off" => driver'[e].pc = "off"
      BY <1>16 DEF ProbeSent, Polls, Typed, DriversTyped
    <2> QED BY <2>1, <2>2, TurnOf DEF Typed, TurnTyped
  <1>17. ASSUME NEW d \in Attempts, ProbeAnswered(d) PROVE TurnTyped'
    <2>1. UNCHANGED <<turn, up, attempt>> /\ WakeFrom(d, Finished(driver[d].seen)) /\ driver[d].pc # "off"
      BY <1>17 DEF ProbeAnswered, Polls, chat
    <2>2. \A e \in Attempts : driver[e].pc = "off" => driver'[e].pc = "off"
      BY <2>1 DEF WakeFrom, EndOf, NoDriver, Typed, DriversTyped
    <2> QED BY <2>1, <2>2, TurnOf DEF Typed, TurnTyped
  <1>18. ASSUME NEW d \in Attempts, ProgressWake(d) PROVE TurnTyped'
    <2>1. driver[d].pc # "off" /\ turn' = Talks(driver[d].at) /\ UNCHANGED <<attempt, up>>
      BY <1>18 DEF ProgressWake, Polls
    <2>2. driver[d].at \in Procs /\ up[driver[d].at]
      BY <2>1 DEF Typed, DriversTyped
    <2> QED BY <2>1, <2>2, Bounds DEF Typed, TurnTyped, Turn, Talks
  <1>19. ASSUME NEW d \in Attempts, WallClock(d) PROVE TurnTyped'
    <2>1. UNCHANGED <<turn, up, attempt>>
      BY <1>19 DEF WallClock, chat
    <2>2. \A e \in Attempts : driver[e].pc = "off" => driver'[e].pc = "off"
      BY <1>19 DEF WallClock, EndOf, NoDriver, Typed, DriversTyped
    <2> QED BY <2>1, <2>2, TurnOf DEF Typed, TurnTyped
  <1>20. ASSUME NEW p \in Procs, Crash(p) PROVE TurnTyped'
    <2>1. /\ turn' = (IF turn.at = p THEN NoTurn ELSE turn) /\ attempt' = attempt
          /\ up' = [up EXCEPT ![p] = FALSE]
      BY <1>20 DEF Crash
    <2>2. \A e \in Attempts : driver[e].pc = "off" => driver'[e].pc = "off"
      BY <1>20 DEF Crash, NoDriver
    <2>3. CASE turn.at = p
      BY <2>1, <2>3, Bounds DEF Typed, TurnTyped, Turn, NoTurn
    <2>4. CASE turn.at # p
      <3>1. turn' = turn /\ \A q \in Procs : q # p => up'[q] = up[q]
        BY <2>1, <2>4 DEF Typed, DriversTyped
      <3> QED BY <2>1, <2>2, <2>4, <3>1, TurnOf DEF Typed, TurnTyped
    <2> QED BY <2>3, <2>4
  <1>21. ASSUME NEW p \in Procs, Restart(p) PROVE TurnTyped'
    <2>1. UNCHANGED <<turn, attempt, driver>> /\ up' = [up EXCEPT ![p] = TRUE]
      BY <1>21 DEF Restart, chat
    <2> QED BY <2>1 DEF Typed, TurnTyped, DriversTyped
  <1>22. ASSUME NEW p \in Procs, Reap(p)
       PROVE  UNCHANGED <<turn, up, attempt, driver>>
    BY <1>22 DEF Reap, ledger, sandbox, chat
  <1>23. ASSUME NEW a \in Attempts, ReportRunning(a) \/ Fetch(a) \/ ScriptEnds(a) \/
    ReportEnd(a) \/ FencedExit(a) \/ ReportLost(a) \/ RunnerKilled(a) \/ Hang(a)
       PROVE  UNCHANGED <<turn, up, attempt, driver>>
    BY <1>23 DEF ReportRunning, Fetch, ScriptEnds, ReportEnd, Gone, FencedExit,
      ReportLost, RunnerKilled, Hang, ledger, sandbox, chat
  <1>24. ASSUME NEW a \in Attempts, NEW i \in Items, Book(a, i)
       PROVE  UNCHANGED <<turn, up, attempt, driver>>
    BY <1>24 DEF Book, Work, ledger, sandbox, chat
  <1>25. ASSUME NEW a \in Attempts, NEW i \in Items, NEW p \in Procs, AgentBegin(a, i,
    p)
       PROVE  UNCHANGED <<turn, up, attempt, driver>>
    BY <1>25 DEF AgentBegin, Calls, Work, ledger, sandbox, chat
  <1>26. ASSUME NEW c \in call, NEW ok \in BOOLEAN, AgentEnd(c, ok)
       PROVE  UNCHANGED <<turn, up, attempt, driver>>
    BY <1>26 DEF AgentEnd, Work, ledger, sandbox, chat
  <1>27. ASSUME NEW c \in call, GiveUp(c)
       PROVE  UNCHANGED <<turn, up, attempt, driver>>
    BY <1>27 DEF GiveUp, Work, ledger, sandbox, chat
  <1>28. ASSUME Silence
       PROVE  UNCHANGED <<turn, up, attempt, driver>>
    BY <1>28 DEF Silence, ledger, sandbox, chat
  <1>29. ASSUME UNCHANGED <<turn, up, attempt, driver>> PROVE TurnTyped'
    BY <1>29 DEF TurnTyped, Typed
  <1>30. QED
    BY <1>1, <1>2, <1>3, <1>4, <1>5, <1>6, <1>7, <1>8, <1>9, <1>10, <1>11, <1>12,
      <1>13, <1>14, <1>15, <1>16, <1>17, <1>18, <1>19, <1>20, <1>21, <1>22, <1>23,
      <1>24, <1>25, <1>26, <1>27, <1>28, <1>29 DEF Next, Chat, DriverStep, RunnerStep,
      AnyAgentEnd

\* Who was told what.
LEMMA NotesStep ==
    ASSUME JobAssumption, Typed, Next
    PROVE  NotesTyped'
  <1>1. ASSUME WaitReturns PROVE NotesTyped'
    BY <1>1, TurnOf DEF WaitReturns, Typed, NotesTyped
  <1>2. ASSUME NEW d \in Attempts, WakeAccepted(d) PROVE NotesTyped'
    <2> DEFINE b == driver[d].about
               n == IF wakes[b] = 2 THEN 2 ELSE wakes[b] + 1
    <2>1. b \in Attempts
      BY <1>2, Bounds DEF WakeAccepted, Typed, AboutTyped, Attempts
    <2>2. n \in 0 .. 2
      BY <2>1 DEF Typed, NotesTyped
    <2>3. wakes' = [wakes EXCEPT ![b] = n] /\ told' = told \cup {b} /\ refused' = refused
      BY <1>2 DEF WakeAccepted
    <2> HIDE DEF n
    <2> QED BY <2>1, <2>2, <2>3 DEF Typed, NotesTyped
  <1>3. ASSUME NEW d \in Attempts, WakeRefused(d) PROVE NotesTyped'
    <2>1. driver[d].about \in Attempts
      BY <1>3, Bounds DEF WakeRefused, Typed, AboutTyped, Attempts
    <2> QED BY <2>1, <1>3 DEF WakeRefused, Typed, NotesTyped
  <1>4. ASSUME NEW p \in Procs, TurnBegins(p) \/ Cancel(p) \/ Reap(p) \/ Crash(p) \/
    Restart(p)
       PROVE  UNCHANGED <<told, refused, wakes>>
    BY <1>4 DEF TurnBegins, Cancel, Reap, Crash, Restart, ledger, sandbox, chat
  <1>5. ASSUME NEW wait \in BOOLEAN, Start(wait) \/ Resume(wait)
       PROVE  UNCHANGED <<told, refused, wakes>>
    BY <1>5 DEF Start, Resume, ledger, sandbox, chat
  <1>6. ASSUME TurnEnds \/ Launched \/ LaunchFails \/ TurnAborted \/ WaitTimer \/
    Detach \/ Silence
       PROVE  UNCHANGED <<told, refused, wakes>>
    BY <1>6 DEF TurnEnds, Launched, Begun, LaunchFails, TurnAborted, WaitTimer,
      Detach, Silence, ledger, sandbox, chat
  <1>7. ASSUME NEW d \in Attempts, PollTerminal(d) \/ Silent(d) \/ ProbeSent(d) \/
    ProbeAnswered(d) \/ ProgressWake(d) \/ WallClock(d)
       PROVE  UNCHANGED <<told, refused, wakes>>
    BY <1>7 DEF PollTerminal, Silent, ProbeSent, ProbeAnswered, ProgressWake,
      WallClock, ledger, sandbox, chat
  <1>8. ASSUME NEW a \in Attempts, ReportRunning(a) \/ Fetch(a) \/ ScriptEnds(a) \/
    ReportEnd(a) \/ FencedExit(a) \/ ReportLost(a) \/ RunnerKilled(a) \/ Hang(a)
       PROVE  UNCHANGED <<told, refused, wakes>>
    BY <1>8 DEF ReportRunning, Fetch, ScriptEnds, ReportEnd, Gone, FencedExit,
      ReportLost, RunnerKilled, Hang, ledger, sandbox, chat
  <1>9. ASSUME NEW a \in Attempts, NEW i \in Items, Book(a, i)
       PROVE  UNCHANGED <<told, refused, wakes>>
    BY <1>9 DEF Book, Work, ledger, sandbox, chat
  <1>10. ASSUME NEW a \in Attempts, NEW i \in Items, NEW p \in Procs, AgentBegin(a, i,
    p)
       PROVE  UNCHANGED <<told, refused, wakes>>
    BY <1>10 DEF AgentBegin, Calls, Work, ledger, sandbox, chat
  <1>11. ASSUME NEW c \in call, NEW ok \in BOOLEAN, AgentEnd(c, ok)
       PROVE  UNCHANGED <<told, refused, wakes>>
    BY <1>11 DEF AgentEnd, Work, ledger, sandbox, chat
  <1>12. ASSUME NEW c \in call, GiveUp(c)
       PROVE  UNCHANGED <<told, refused, wakes>>
    BY <1>12 DEF GiveUp, Work, ledger, sandbox, chat
  <1>13. ASSUME UNCHANGED <<told, refused, wakes>> PROVE NotesTyped'
    BY <1>13 DEF NotesTyped, Typed
  <1>14. QED
    BY <1>1, <1>2, <1>3, <1>4, <1>5, <1>6, <1>7, <1>8, <1>9, <1>10, <1>11, <1>12,
      <1>13 DEF Next, Chat, DriverStep, RunnerStep, AnyAgentEnd

\* The clocks of the reaper and of the silent job.
LEMMA ClocksStep ==
    ASSUME JobAssumption, Typed, Next
    PROVE  ClocksTyped'
  <1>1. ASSUME NEW p \in Procs, Cancel(p) PROVE ClocksTyped'
    <2>1. quiet' = quiet \/ quiet' = FALSE
      BY <1>1 DEF Cancel
    <2>2. still' = still \/ still' = FALSE
      BY <1>1 DEF Cancel
    <2>3. crashes' = crashes
      BY <1>1 DEF Cancel
    <2> QED BY <2>1, <2>2, <2>3 DEF Typed, ClocksTyped
  <1>2. ASSUME NEW wait \in BOOLEAN, Start(wait) PROVE ClocksTyped'
    <2>1. quiet' = quiet \/ quiet' = FALSE
      BY <1>2 DEF Start
    <2>2. still' = still \/ still' = FALSE
      BY <1>2 DEF Start
    <2>3. crashes' = crashes
      BY <1>2 DEF Start
    <2> QED BY <2>1, <2>2, <2>3 DEF Typed, ClocksTyped
  <1>3. ASSUME NEW wait \in BOOLEAN, Resume(wait) PROVE ClocksTyped'
    <2>1. quiet' = quiet \/ quiet' = FALSE
      BY <1>3 DEF Resume
    <2>2. still' = still \/ still' = FALSE
      BY <1>3 DEF Resume
    <2>3. crashes' = crashes
      BY <1>3 DEF Resume
    <2> QED BY <2>1, <2>2, <2>3 DEF Typed, ClocksTyped
  <1>4. ASSUME Launched PROVE ClocksTyped'
    <2>1. quiet' = quiet \/ quiet' = FALSE
      BY <1>4 DEF Launched
    <2>2. still' = still \/ still' = FALSE
      BY <1>4 DEF Launched
    <2>3. crashes' = crashes
      BY <1>4 DEF Launched
    <2> QED BY <2>1, <2>2, <2>3 DEF Typed, ClocksTyped
  <1>5. ASSUME Detach PROVE ClocksTyped'
    <2>1. quiet' = quiet \/ quiet' = FALSE
      BY <1>5 DEF Detach
    <2>2. still' = still \/ still' = FALSE
      BY <1>5 DEF Detach
    <2>3. crashes' = crashes
      BY <1>5 DEF Detach
    <2> QED BY <2>1, <2>2, <2>3 DEF Typed, ClocksTyped
  <1>6. ASSUME NEW d \in Attempts, Silent(d) PROVE ClocksTyped'
    <2>1. quiet' = quiet \/ quiet' = FALSE
      BY <1>6 DEF Silent
    <2>2. still' = still \/ still' = FALSE
      BY <1>6 DEF Silent
    <2>3. crashes' = crashes
      BY <1>6 DEF Silent
    <2> QED BY <2>1, <2>2, <2>3 DEF Typed, ClocksTyped
  <1>7. ASSUME NEW d \in Attempts, ProbeAnswered(d) PROVE ClocksTyped'
    <2>1. quiet' = quiet \/ quiet' = FALSE
      BY <1>7 DEF ProbeAnswered
    <2>2. still' = still \/ still' = FALSE
      BY <1>7 DEF ProbeAnswered
    <2>3. crashes' = crashes
      BY <1>7 DEF ProbeAnswered
    <2> QED BY <2>1, <2>2, <2>3 DEF Typed, ClocksTyped
  <1>8. ASSUME NEW d \in Attempts, WallClock(d) PROVE ClocksTyped'
    <2>1. quiet' = quiet \/ quiet' = FALSE
      BY <1>8 DEF WallClock
    <2>2. still' = still \/ still' = FALSE
      BY <1>8 DEF WallClock
    <2>3. crashes' = crashes
      BY <1>8 DEF WallClock
    <2> QED BY <2>1, <2>2, <2>3 DEF Typed, ClocksTyped
  <1>9. ASSUME NEW p \in Procs, Reap(p) PROVE ClocksTyped'
    <2>1. quiet' = quiet \/ quiet' = FALSE
      BY <1>9 DEF Reap
    <2>2. still' = still \/ still' = FALSE
      BY <1>9 DEF Reap
    <2>3. crashes' = crashes
      BY <1>9 DEF Reap
    <2> QED BY <2>1, <2>2, <2>3 DEF Typed, ClocksTyped
  <1>10. ASSUME NEW p \in Procs, Crash(p) PROVE ClocksTyped'
    <2>1. UNCHANGED <<quiet, still>> /\ crashes < MaxCrashes /\ crashes' = crashes + 1
      BY <1>10 DEF Crash
    <2> QED BY <2>1, Bounds DEF Typed, ClocksTyped
  <1>11. ASSUME NEW p \in Procs, Restart(p) PROVE ClocksTyped'
    <2>1. quiet' = quiet \/ quiet' = FALSE
      BY <1>11 DEF Restart
    <2>2. still' = still \/ still' = FALSE
      BY <1>11 DEF Restart
    <2>3. crashes' = crashes
      BY <1>11 DEF Restart
    <2> QED BY <2>1, <2>2, <2>3 DEF Typed, ClocksTyped
  <1>12. ASSUME NEW a \in Attempts, ReportRunning(a) PROVE ClocksTyped'
    <2>1. quiet' = quiet \/ quiet' = FALSE
      BY <1>12 DEF ReportRunning
    <2>2. still' = still \/ still' = FALSE
      BY <1>12 DEF ReportRunning
    <2>3. crashes' = crashes
      BY <1>12 DEF ReportRunning
    <2> QED BY <2>1, <2>2, <2>3 DEF Typed, ClocksTyped
  <1>13. ASSUME NEW a \in Attempts, ReportEnd(a) PROVE ClocksTyped'
    <2>1. quiet' = quiet \/ quiet' = FALSE
      BY <1>13 DEF ReportEnd
    <2>2. still' = still \/ still' = FALSE
      BY <1>13 DEF ReportEnd
    <2>3. crashes' = crashes
      BY <1>13 DEF ReportEnd
    <2> QED BY <2>1, <2>2, <2>3 DEF Typed, ClocksTyped
  <1>14. ASSUME NEW a \in Attempts, NEW i \in Items, Book(a, i) PROVE ClocksTyped'
    <2>1. quiet' = quiet \/ quiet' = FALSE
      BY <1>14 DEF Book
    <2>2. still' = still \/ still' = FALSE
      BY <1>14 DEF Book
    <2>3. crashes' = crashes
      BY <1>14 DEF Book
    <2> QED BY <2>1, <2>2, <2>3 DEF Typed, ClocksTyped
  <1>15. ASSUME NEW c \in call, NEW ok \in BOOLEAN, AgentEnd(c, ok) PROVE ClocksTyped'
    <2>1. quiet' = quiet \/ quiet' = FALSE
      BY <1>15 DEF AgentEnd
    <2>2. still' = still \/ still' = FALSE
      BY <1>15 DEF AgentEnd
    <2>3. crashes' = crashes
      BY <1>15 DEF AgentEnd
    <2> QED BY <2>1, <2>2, <2>3 DEF Typed, ClocksTyped
  <1>16. ASSUME Silence PROVE ClocksTyped'
    BY <1>16 DEF Silence, Typed, ClocksTyped
  <1>17. ASSUME NEW p \in Procs, TurnBegins(p)
       PROVE  UNCHANGED <<quiet, still, crashes>>
    BY <1>17 DEF TurnBegins, ledger, sandbox, chat
  <1>18. ASSUME TurnEnds \/ LaunchFails \/ TurnAborted \/ WaitReturns \/ WaitTimer
       PROVE  UNCHANGED <<quiet, still, crashes>>
    BY <1>18 DEF TurnEnds, LaunchFails, TurnAborted, Begun, WaitReturns, WaitTimer,
      ledger, sandbox, chat
  <1>19. ASSUME NEW d \in Attempts, PollTerminal(d) \/ WakeAccepted(d) \/
    WakeRefused(d) \/ ProbeSent(d) \/ ProgressWake(d)
       PROVE  UNCHANGED <<quiet, still, crashes>>
    BY <1>19 DEF PollTerminal, WakeAccepted, WakeRefused, ProbeSent, ProgressWake,
      ledger, sandbox, chat
  <1>20. ASSUME NEW a \in Attempts, Fetch(a) \/ ScriptEnds(a) \/ FencedExit(a) \/
    ReportLost(a) \/ RunnerKilled(a) \/ Hang(a)
       PROVE  UNCHANGED <<quiet, still, crashes>>
    BY <1>20 DEF Fetch, ScriptEnds, FencedExit, Gone, ReportLost, RunnerKilled, Hang,
      ledger, sandbox, chat
  <1>21. ASSUME NEW a \in Attempts, NEW i \in Items, NEW p \in Procs, AgentBegin(a, i,
    p)
       PROVE  UNCHANGED <<quiet, still, crashes>>
    BY <1>21 DEF AgentBegin, Calls, Work, ledger, sandbox, chat
  <1>22. ASSUME NEW c \in call, GiveUp(c)
       PROVE  UNCHANGED <<quiet, still, crashes>>
    BY <1>22 DEF GiveUp, Work, ledger, sandbox, chat
  <1>23. ASSUME UNCHANGED <<quiet, still, crashes>> PROVE ClocksTyped'
    BY <1>23 DEF ClocksTyped, Typed
  <1>24. QED
    BY <1>1, <1>2, <1>3, <1>4, <1>5, <1>6, <1>7, <1>8, <1>9, <1>10, <1>11, <1>12,
      <1>13, <1>14, <1>15, <1>16, <1>17, <1>18, <1>19, <1>20, <1>21, <1>22, <1>23 DEF
      Next, Chat, DriverStep, RunnerStep, AnyAgentEnd


\* Nobody new is about to tell the chat.
WakersStay == \A e \in Attempts : driver'[e].pc = "wake" => driver'[e] = driver[e]

\* Driver d marks the row and is about to tell.
Marks(d) ==
    /\ driver[d].pc # "wake" /\ driver'[d].pc = "wake" /\ driver'[d].about = attempt
    /\ \A e \in Attempts : e # d => driver'[e] = driver[e]
    /\ ~row.woken /\ row'.woken
    /\ attempt \in Attempts /\ UNCHANGED <<attempt, wakes>>

\* Only a new attempt takes the mark of a wake-up off the row.
LEMMA MarkStays ==
    ASSUME JobAssumption, Typed, Next
    PROVE  (attempt' = attempt + 1 /\ ~row'.woken) \/ (attempt' = attempt /\ (row.woken => row'.woken))
  <1>1. ASSUME NEW p \in Procs, Cancel(p) PROVE (attempt' = attempt + 1 /\
    ~row'.woken) \/ (attempt' = attempt /\ (row.woken => row'.woken))
    <2>1. attempt # 0 /\ attempt' = attempt /\ row' = Finished("cancelled")
      BY <1>1, Bounds DEF Cancel, Typed
    <2> QED BY <2>1, FinishedOK DEF Typed, Verdicts
  <1>2. ASSUME NEW wait \in BOOLEAN, Start(wait) PROVE (attempt' = attempt + 1 /\
    ~row'.woken) \/ (attempt' = attempt /\ (row.woken => row'.woken))
    BY <1>2 DEF Start, Typed, RowTyped
  <1>3. ASSUME NEW wait \in BOOLEAN, Resume(wait) PROVE (attempt' = attempt + 1 /\
    ~row'.woken) \/ (attempt' = attempt /\ (row.woken => row'.woken))
    BY <1>3 DEF Resume, Reopened, Typed, RowTyped, RowFine, Rows
  <1>4. ASSUME Detach PROVE (attempt' = attempt + 1 /\ ~row'.woken) \/ (attempt' =
    attempt /\ (row.woken => row'.woken))
    BY <1>4 DEF Detach, Typed, RowTyped, RowFine, Rows
  <1>5. ASSUME NEW d \in Attempts, PollTerminal(d) PROVE (attempt' = attempt + 1 /\
    ~row'.woken) \/ (attempt' = attempt /\ (row.woken => row'.woken))
    <2>1. attempt' = attempt /\ WakeFrom(d, row)
      BY <1>5 DEF PollTerminal
    <2>2. RowFine(row, attempt) /\ row.woken = row.woken
      BY <2>1, FinishedOK DEF Typed, RowTyped, Verdicts
    <2> QED BY <2>1, <2>2, WakeFromOK DEF Typed
  <1>6. ASSUME NEW d \in Attempts, Silent(d) PROVE (attempt' = attempt + 1 /\
    ~row'.woken) \/ (attempt' = attempt /\ (row.woken => row'.woken))
    <2>1. attempt # 0 /\ attempt' = attempt /\ WakeFrom(d, Finished("failed"))
      BY <1>6, Bounds DEF Silent, Polls, Typed, DriversTyped
    <2>2. RowFine(Finished("failed"), attempt) /\ Finished("failed").woken = row.woken
      BY <2>1, FinishedOK DEF Typed, RowTyped, Verdicts
    <2> QED BY <2>1, <2>2, WakeFromOK DEF Typed
  <1>7. ASSUME NEW d \in Attempts, ProbeAnswered(d) PROVE (attempt' = attempt + 1 /\
    ~row'.woken) \/ (attempt' = attempt /\ (row.woken => row'.woken))
    <2>1. attempt # 0 /\ attempt' = attempt /\ WakeFrom(d, Finished(driver[d].seen))
          /\ driver[d].seen \in Verdicts
      BY <1>7, Bounds DEF ProbeAnswered, Typed, DriversTyped
    <2>2. RowFine(Finished(driver[d].seen), attempt) /\ Finished(driver[d].seen).woken = row.woken
      BY <2>1, FinishedOK DEF Typed, RowTyped, Verdicts
    <2> QED BY <2>1, <2>2, WakeFromOK DEF Typed
  <1>8. ASSUME NEW d \in Attempts, WallClock(d) PROVE (attempt' = attempt + 1 /\
    ~row'.woken) \/ (attempt' = attempt /\ (row.woken => row'.woken))
    <2>1. attempt # 0 /\ attempt' = attempt /\ row' = Finished("failed")
      BY <1>8, Bounds DEF WallClock, Polls, Typed, DriversTyped
    <2> QED BY <2>1, FinishedOK DEF Typed, Verdicts
  <1>9. ASSUME NEW p \in Procs, Reap(p) PROVE (attempt' = attempt + 1 /\ ~row'.woken)
    \/ (attempt' = attempt /\ (row.woken => row'.woken))
    BY <1>9 DEF Reap, Interrupted, Typed, RowTyped, RowFine, Rows
  <1>10. ASSUME NEW p \in Procs, Restart(p) PROVE (attempt' = attempt + 1 /\
    ~row'.woken) \/ (attempt' = attempt /\ (row.woken => row'.woken))
    BY <1>10 DEF Restart, Interrupted, Typed, RowTyped, RowFine, Rows
  <1>11. ASSUME NEW a \in Attempts, ReportRunning(a) PROVE (attempt' = attempt + 1 /\
    ~row'.woken) \/ (attempt' = attempt /\ (row.woken => row'.woken))
    BY <1>11 DEF ReportRunning, Typed, RowTyped, RowFine, Rows
  <1>12. ASSUME NEW a \in Attempts, ReportEnd(a) PROVE (attempt' = attempt + 1 /\
    ~row'.woken) \/ (attempt' = attempt /\ (row.woken => row'.woken))
    <2>1. attempt # 0 /\ attempt' = attempt /\ row' = Finished(runner[a].out)
      BY <1>12, Bounds DEF ReportEnd, Heard, Passes, Typed, RowTyped, RowFine
    <2>2. runner[a].out \in Verdicts
      BY <1>12 DEF ReportEnd, Typed, RunnersTyped, Runner, Verdicts
    <2> QED BY <2>1, <2>2, FinishedOK DEF Typed, Verdicts
  <1>13. ASSUME NEW p \in Procs, TurnBegins(p) \/ Crash(p)
       PROVE  UNCHANGED <<row, attempt>>
    BY <1>13 DEF TurnBegins, Crash, ledger, sandbox, chat
  <1>14. ASSUME TurnEnds \/ Launched \/ LaunchFails \/ TurnAborted \/ WaitReturns \/
    WaitTimer \/ Silence
       PROVE  UNCHANGED <<row, attempt>>
    BY <1>14 DEF TurnEnds, Launched, Begun, LaunchFails, TurnAborted, WaitReturns,
      WaitTimer, Silence, ledger, sandbox, chat
  <1>15. ASSUME NEW d \in Attempts, WakeAccepted(d) \/ WakeRefused(d) \/ ProbeSent(d)
    \/ ProgressWake(d)
       PROVE  UNCHANGED <<row, attempt>>
    BY <1>15 DEF WakeAccepted, WakeRefused, ProbeSent, ProgressWake, ledger, sandbox,
      chat
  <1>16. ASSUME NEW a \in Attempts, Fetch(a) \/ ScriptEnds(a) \/ FencedExit(a) \/
    ReportLost(a) \/ RunnerKilled(a) \/ Hang(a)
       PROVE  UNCHANGED <<row, attempt>>
    BY <1>16 DEF Fetch, ScriptEnds, FencedExit, Gone, ReportLost, RunnerKilled, Hang,
      ledger, sandbox, chat
  <1>17. ASSUME NEW a \in Attempts, NEW i \in Items, Book(a, i)
       PROVE  UNCHANGED <<row, attempt>>
    BY <1>17 DEF Book, Work, ledger, sandbox, chat
  <1>18. ASSUME NEW a \in Attempts, NEW i \in Items, NEW p \in Procs, AgentBegin(a, i,
    p)
       PROVE  UNCHANGED <<row, attempt>>
    BY <1>18 DEF AgentBegin, Calls, Work, ledger, sandbox, chat
  <1>19. ASSUME NEW c \in call, NEW ok \in BOOLEAN, AgentEnd(c, ok)
       PROVE  UNCHANGED <<row, attempt>>
    BY <1>19 DEF AgentEnd, Work, ledger, sandbox, chat
  <1>20. ASSUME NEW c \in call, GiveUp(c)
       PROVE  UNCHANGED <<row, attempt>>
    BY <1>20 DEF GiveUp, Work, ledger, sandbox, chat
  <1>21. ASSUME UNCHANGED <<row, attempt>> PROVE (attempt' = attempt + 1 /\ ~row'.woken) \/ (attempt' = attempt /\ (row.woken => row'.woken))
    BY <1>21 DEF Typed
  <1>22. QED
    BY <1>1, <1>2, <1>3, <1>4, <1>5, <1>6, <1>7, <1>8, <1>9, <1>10, <1>11, <1>12,
      <1>13, <1>14, <1>15, <1>16, <1>17, <1>18, <1>19, <1>20, <1>21 DEF Next, Chat,
      DriverStep, RunnerStep, AnyAgentEnd

\* A driver starts to tell the chat only by marking the row.
LEMMA WakersStep ==
    ASSUME JobAssumption, Typed, Next
    PROVE  WakersStay \/ \E e \in Attempts : Marks(e)
  <1>1. ASSUME NEW p \in Procs, Cancel(p)
        PROVE  WakersStay \/ \E e \in Attempts : Marks(e)
    BY <1>1 DEF Cancel, NoDriver, WakersStay, Typed, DriversTyped
  <1>2. ASSUME Launched
        PROVE  WakersStay \/ \E e \in Attempts : Marks(e)
    <2>1. \/ driver' = driver
          \/ driver' = [driver EXCEPT ![turn.of] = Driving(turn.at)]
      BY <1>2 DEF Launched
    <2>2. Driving(turn.at).pc = "poll"
      BY DEF Driving, NoDriver
    <2> QED BY <2>1, <2>2 DEF WakersStay, Typed, DriversTyped
  <1>3. ASSUME NEW d \in Attempts, PollTerminal(d)
        PROVE  WakersStay \/ \E e \in Attempts : Marks(e)
    <2>1. attempt' = attempt /\ WakeFrom(d, row)
      BY <1>3 DEF PollTerminal
    <2>2. RowFine(row, attempt) /\ row.woken = row.woken
      BY <2>1, FinishedOK DEF Typed, RowTyped, Verdicts
    <2>3. driver[d].pc # "off" /\ driver[d].pc # "wake" /\ UNCHANGED <<attempt, wakes, up>>
      BY <1>3 DEF PollTerminal, Polls, chat
    <2>4. CASE EndOf(d)
      BY <2>3, <2>4, EndOfOK DEF Typed, WakersStay
    <2>5. CASE /\ ~row.woken /\ row'.woken /\ active' = active
               /\ driver' = [driver EXCEPT ![d].pc = "wake", ![d].seen = None, ![d].about = attempt]
      <3>1. /\ driver'[d].pc = "wake" /\ driver'[d].about = attempt
            /\ \A e \in Attempts : e # d => driver'[e] = driver[e]
        BY <2>3, <2>5, GoesWakingOK DEF Typed
      <3>2. attempt \in Attempts
        BY <2>3, Bounds DEF Typed, DriversTyped
      <3> QED BY <2>2, <2>3, <2>5, <3>1, <3>2 DEF Marks
    <2> QED BY <2>1, <2>2, <2>4, <2>5, WakeFromOK DEF Typed
  <1>4. ASSUME NEW d \in Attempts, WakeAccepted(d)
        PROVE  WakersStay \/ \E e \in Attempts : Marks(e)
    BY <1>4 DEF WakeAccepted, EndOf, NoDriver, WakersStay, Typed, DriversTyped
  <1>5. ASSUME NEW d \in Attempts, WakeRefused(d)
        PROVE  WakersStay \/ \E e \in Attempts : Marks(e)
    BY <1>5 DEF WakeRefused, EndOf, NoDriver, WakersStay, Typed, DriversTyped
  <1>6. ASSUME NEW d \in Attempts, Silent(d)
        PROVE  WakersStay \/ \E e \in Attempts : Marks(e)
    <2>1. attempt # 0 /\ attempt' = attempt /\ WakeFrom(d, Finished("failed"))
      BY <1>6, Bounds DEF Silent, Polls, Typed, DriversTyped
    <2>2. RowFine(Finished("failed"), attempt) /\ Finished("failed").woken = row.woken
      BY <2>1, FinishedOK DEF Typed, RowTyped, Verdicts
    <2>3. driver[d].pc # "off" /\ driver[d].pc # "wake" /\ UNCHANGED <<attempt, wakes, up>>
      BY <1>6 DEF Silent, Polls, chat
    <2>4. CASE EndOf(d)
      BY <2>3, <2>4, EndOfOK DEF Typed, WakersStay
    <2>5. CASE /\ ~Finished("failed").woken /\ row'.woken /\ active' = active
               /\ driver' = [driver EXCEPT ![d].pc = "wake", ![d].seen = None, ![d].about = attempt]
      <3>1. /\ driver'[d].pc = "wake" /\ driver'[d].about = attempt
            /\ \A e \in Attempts : e # d => driver'[e] = driver[e]
        BY <2>3, <2>5, GoesWakingOK DEF Typed
      <3>2. attempt \in Attempts
        BY <2>3, Bounds DEF Typed, DriversTyped
      <3> QED BY <2>2, <2>3, <2>5, <3>1, <3>2 DEF Marks
    <2> QED BY <2>1, <2>2, <2>4, <2>5, WakeFromOK DEF Typed
  <1>7. ASSUME NEW d \in Attempts, ProbeSent(d)
        PROVE  WakersStay \/ \E e \in Attempts : Marks(e)
    BY <1>7 DEF ProbeSent, WakersStay, Typed, DriversTyped
  <1>8. ASSUME NEW d \in Attempts, ProbeAnswered(d)
        PROVE  WakersStay \/ \E e \in Attempts : Marks(e)
    <2>1. attempt # 0 /\ attempt' = attempt /\ WakeFrom(d, Finished(driver[d].seen))
          /\ driver[d].seen \in Verdicts
      BY <1>8, Bounds DEF ProbeAnswered, Typed, DriversTyped
    <2>2. RowFine(Finished(driver[d].seen), attempt) /\ Finished(driver[d].seen).woken = row.woken
      BY <2>1, FinishedOK DEF Typed, RowTyped, Verdicts
    <2>3. driver[d].pc # "off" /\ driver[d].pc # "wake" /\ UNCHANGED <<attempt, wakes, up>>
      BY <1>8 DEF ProbeAnswered, Polls, chat
    <2>4. CASE EndOf(d)
      BY <2>3, <2>4, EndOfOK DEF Typed, WakersStay
    <2>5. CASE /\ ~Finished(driver[d].seen).woken /\ row'.woken /\ active' = active
               /\ driver' = [driver EXCEPT ![d].pc = "wake", ![d].seen = None, ![d].about = attempt]
      <3>1. /\ driver'[d].pc = "wake" /\ driver'[d].about = attempt
            /\ \A e \in Attempts : e # d => driver'[e] = driver[e]
        BY <2>3, <2>5, GoesWakingOK DEF Typed
      <3>2. attempt \in Attempts
        BY <2>3, Bounds DEF Typed, DriversTyped
      <3> QED BY <2>2, <2>3, <2>5, <3>1, <3>2 DEF Marks
    <2> QED BY <2>1, <2>2, <2>4, <2>5, WakeFromOK DEF Typed
  <1>9. ASSUME NEW d \in Attempts, WallClock(d)
        PROVE  WakersStay \/ \E e \in Attempts : Marks(e)
    BY <1>9 DEF WallClock, EndOf, NoDriver, WakersStay, Typed, DriversTyped
  <1>10. ASSUME NEW p \in Procs, Crash(p)
        PROVE  WakersStay \/ \E e \in Attempts : Marks(e)
    BY <1>10 DEF Crash, NoDriver, WakersStay, Typed, DriversTyped
  <1>11. ASSUME NEW p \in Procs, TurnBegins(p) \/ Reap(p) \/ Restart(p)
       PROVE  UNCHANGED <<driver>>
    BY <1>11 DEF TurnBegins, Reap, Restart, ledger, sandbox, chat
  <1>12. ASSUME NEW wait \in BOOLEAN, Start(wait) \/ Resume(wait)
       PROVE  UNCHANGED <<driver>>
    BY <1>12 DEF Start, Resume, ledger, sandbox, chat
  <1>13. ASSUME TurnEnds \/ LaunchFails \/ TurnAborted \/ WaitReturns \/ WaitTimer \/
    Detach \/ Silence
       PROVE  UNCHANGED <<driver>>
    BY <1>13 DEF TurnEnds, LaunchFails, TurnAborted, Begun, WaitReturns, WaitTimer,
      Detach, Silence, ledger, sandbox, chat
  <1>14. ASSUME NEW d \in Attempts, ProgressWake(d)
       PROVE  UNCHANGED <<driver>>
    BY <1>14 DEF ProgressWake, ledger, sandbox, chat
  <1>15. ASSUME NEW a \in Attempts, ReportRunning(a) \/ Fetch(a) \/ ScriptEnds(a) \/
    ReportEnd(a) \/ FencedExit(a) \/ ReportLost(a) \/ RunnerKilled(a) \/ Hang(a)
       PROVE  UNCHANGED <<driver>>
    BY <1>15 DEF ReportRunning, Fetch, ScriptEnds, ReportEnd, Gone, FencedExit,
      ReportLost, RunnerKilled, Hang, ledger, sandbox, chat
  <1>16. ASSUME NEW a \in Attempts, NEW i \in Items, Book(a, i)
       PROVE  UNCHANGED <<driver>>
    BY <1>16 DEF Book, Work, ledger, sandbox, chat
  <1>17. ASSUME NEW a \in Attempts, NEW i \in Items, NEW p \in Procs, AgentBegin(a, i,
    p)
       PROVE  UNCHANGED <<driver>>
    BY <1>17 DEF AgentBegin, Calls, Work, ledger, sandbox, chat
  <1>18. ASSUME NEW c \in call, NEW ok \in BOOLEAN, AgentEnd(c, ok)
       PROVE  UNCHANGED <<driver>>
    BY <1>18 DEF AgentEnd, Work, ledger, sandbox, chat
  <1>19. ASSUME NEW c \in call, GiveUp(c)
       PROVE  UNCHANGED <<driver>>
    BY <1>19 DEF GiveUp, Work, ledger, sandbox, chat
  <1>20. ASSUME UNCHANGED <<driver>>
        PROVE  WakersStay \/ \E e \in Attempts : Marks(e)
    BY <1>20 DEF WakersStay
  <1>21. QED
    BY <1>1, <1>2, <1>3, <1>4, <1>5, <1>6, <1>7, <1>8, <1>9, <1>10, <1>11, <1>12,
      <1>13, <1>14, <1>15, <1>16, <1>17, <1>18, <1>19, <1>20 DEF Next, Chat,
      DriverStep, RunnerStep, AnyAgentEnd

\* A wake-up is counted when the chat accepts it.
LEMMA WakesStep ==
    ASSUME JobAssumption, Typed, Next
    PROVE  wakes' = wakes \/ \E d \in Attempts : WakeAccepted(d)
  <1>1. ASSUME NEW d \in Attempts, WakeAccepted(d)
        PROVE  wakes' = wakes \/ \E e \in Attempts : WakeAccepted(e)
    BY <1>1 DEF WakeAccepted, EndOf
  <1>2. ASSUME NEW p \in Procs, TurnBegins(p) \/ Cancel(p) \/ Reap(p) \/ Crash(p) \/
    Restart(p)
       PROVE  UNCHANGED <<wakes>>
    BY <1>2 DEF TurnBegins, Cancel, Reap, Crash, Restart, ledger, sandbox, chat
  <1>3. ASSUME NEW wait \in BOOLEAN, Start(wait) \/ Resume(wait)
       PROVE  UNCHANGED <<wakes>>
    BY <1>3 DEF Start, Resume, ledger, sandbox, chat
  <1>4. ASSUME TurnEnds \/ Launched \/ LaunchFails \/ TurnAborted \/ WaitReturns \/
    WaitTimer \/ Detach \/ Silence
       PROVE  UNCHANGED <<wakes>>
    BY <1>4 DEF TurnEnds, Launched, Begun, LaunchFails, TurnAborted, WaitReturns,
      WaitTimer, Detach, Silence, ledger, sandbox, chat
  <1>5. ASSUME NEW d \in Attempts, PollTerminal(d) \/ WakeRefused(d) \/ Silent(d) \/
    ProbeSent(d) \/ ProbeAnswered(d) \/ ProgressWake(d) \/ WallClock(d)
       PROVE  UNCHANGED <<wakes>>
    BY <1>5 DEF PollTerminal, WakeRefused, Silent, ProbeSent, ProbeAnswered,
      ProgressWake, WallClock, ledger, sandbox, chat
  <1>6. ASSUME NEW a \in Attempts, ReportRunning(a) \/ Fetch(a) \/ ScriptEnds(a) \/
    ReportEnd(a) \/ FencedExit(a) \/ ReportLost(a) \/ RunnerKilled(a) \/ Hang(a)
       PROVE  UNCHANGED <<wakes>>
    BY <1>6 DEF ReportRunning, Fetch, ScriptEnds, ReportEnd, Gone, FencedExit,
      ReportLost, RunnerKilled, Hang, ledger, sandbox, chat
  <1>7. ASSUME NEW a \in Attempts, NEW i \in Items, Book(a, i)
       PROVE  UNCHANGED <<wakes>>
    BY <1>7 DEF Book, Work, ledger, sandbox, chat
  <1>8. ASSUME NEW a \in Attempts, NEW i \in Items, NEW p \in Procs, AgentBegin(a, i,
    p)
       PROVE  UNCHANGED <<wakes>>
    BY <1>8 DEF AgentBegin, Calls, Work, ledger, sandbox, chat
  <1>9. ASSUME NEW c \in call, NEW ok \in BOOLEAN, AgentEnd(c, ok)
       PROVE  UNCHANGED <<wakes>>
    BY <1>9 DEF AgentEnd, Work, ledger, sandbox, chat
  <1>10. ASSUME NEW c \in call, GiveUp(c)
       PROVE  UNCHANGED <<wakes>>
    BY <1>10 DEF GiveUp, Work, ledger, sandbox, chat
  <1>11. ASSUME UNCHANGED <<wakes>> PROVE wakes' = wakes \/ \E d \in Attempts : WakeAccepted(d)
    BY <1>11 DEF Typed
  <1>12. QED
    BY <1>1, <1>2, <1>3, <1>4, <1>5, <1>6, <1>7, <1>8, <1>9, <1>10, <1>11 DEF Next,
      Chat, DriverStep, RunnerStep, AnyAgentEnd


\* Every step keeps the types of what is known about the job.
LEMMA AboutStep ==
    ASSUME JobAssumption, Typed, Next
    PROVE  AboutTyped'
  <1>1. attempt' = attempt \/ attempt' = attempt + 1
    BY MarkStays
  <1>2. attempt \in Nat /\ \A d \in Attempts : d \in Nat
    BY Bounds DEF Typed
  <1>3. CASE WakersStay
    BY <1>1, <1>2, <1>3 DEF WakersStay, Typed, AboutTyped
  <1>4. ASSUME NEW d \in Attempts, Marks(d) PROVE AboutTyped'
    BY <1>2, <1>4, Bounds DEF Marks, Typed, AboutTyped, Attempts
  <1> QED BY <1>3, <1>4, WakersStep

\* Every step keeps the types.
LEMMA TypedStep == JobAssumption /\ Typed /\ [Next]_vars => Typed'
  <1> SUFFICES ASSUME JobAssumption, Typed, [Next]_vars PROVE Typed'
    OBVIOUS
  <1>1. CASE Next
    BY <1>1, RowStep, RunnersStep, LedgerStep, DriversStep, TurnStep, NotesStep, ClocksStep,
       AboutStep DEF Typed
  <1>2. CASE UNCHANGED vars
    BY <1>2 DEF vars, ledger, sandbox, chat, Typed, RowTyped, RunnersTyped, LedgerTyped,
                DriversTyped, TurnTyped, NotesTyped, ClocksTyped, AboutTyped
  <1> QED BY <1>1, <1>2

\* The types hold along every behaviour.
LEMMA TypedAlways == Spec => []Typed
  <1>1. Init => Typed
    BY JobAssumption, TypedInit
  <1>2. Typed /\ [Next]_vars => Typed'
    BY JobAssumption, TypedStep
  <1> QED BY <1>1, <1>2, PTL DEF Spec

\* JobTypeOK: a token lives with its job, a driver and the turn of the chat with their process, and
\* an entry of _active_jobs belongs to a driver of its process.
THEOREM JobTypeCorrect == Spec => []JobTypeOK
  <1>1. Typed => JobTypeOK
    BY JobAssumption, TypedIsTypeOK
  <1> QED BY TypedAlways, <1>1, PTL

-----------------------------------------------------------------------------
(* The end of an attempt is announced at most once.  WokenOnce says nothing of *)
(* the announcements that are on their way, so it is not inductive.            *)

\* Attempts to come are not announced.
NotAhead == \A a \in Attempts : a > attempt => wakes[a] = 0

\* Who is about to announce the end of an attempt is the first and the only one, and if it is that
\* of the last attempt the row says so.
OneTeller ==
    /\ \A d \in Attempts : driver[d].pc = "wake" =>
          /\ wakes[driver[d].about] = 0
          /\ driver[d].about = attempt => row.woken
    /\ \A d, e \in Attempts :
          driver[d].pc = "wake" /\ driver[e].pc = "wake" /\ driver[d].about = driver[e].about
              => d = e

\* The row remembers that the end of the last attempt was announced.
MarkKept == attempt # 0 /\ wakes[attempt] > 0 => row.woken

WokenInv == Typed /\ NotAhead /\ OneTeller /\ MarkKept /\ WokenOnce

\* A job that is enqueued has not woken anybody.
LEMMA WokenInit == JobAssumption /\ Init => WokenInv
  <1> SUFFICES ASSUME JobAssumption, Init PROVE WokenInv
    OBVIOUS
  <1>1. Typed
    BY TypedInit
  <1>2. \A a \in Attempts : wakes[a] = 0 /\ driver[a].pc # "wake"
    BY DEF Init, NoDriver
  <1>3. attempt = 0
    BY DEF Init
  <1> QED BY <1>1, <1>2, <1>3 DEF WokenInv, NotAhead, OneTeller, MarkKept, WokenOnce

\* Nobody is told: drivers may mark the row, stop, or a new attempt may begin.
LEMMA UntoldStep ==
    ASSUME JobAssumption, WokenInv, Next, Typed', wakes' = wakes
    PROVE  WokenInv'
  <1>1. (attempt' = attempt + 1 /\ ~row'.woken) \/ (attempt' = attempt /\ (row.woken => row'.woken))
    BY MarkStays DEF WokenInv
  <1>2. attempt \in Nat /\ \A a \in Attempts : a \in Nat /\ a # 0
    BY Bounds DEF WokenInv, Typed
  <1>3. NotAhead' /\ WokenOnce'
    BY <1>1, <1>2 DEF WokenInv, NotAhead, WokenOnce
  <1>4. MarkKept'
    <2>1. CASE attempt' = attempt
      BY <1>1, <2>1, <1>2 DEF WokenInv, MarkKept
    <2>2. CASE attempt' = attempt + 1
      <3>1. attempt' \in Attempts
        BY <2>2, <1>2, Bounds DEF Typed, RowTyped, Attempts, JobAssumption
      <3>2. wakes[attempt'] = 0
        BY <3>1, <2>2, <1>2 DEF WokenInv, NotAhead
      <3> QED BY <3>2 DEF MarkKept
    <2> QED BY <1>1, <2>1, <2>2
  <1>5. CASE WakersStay
    <2>1. \A d \in Attempts : driver[d].pc = "wake" => driver[d].about <= attempt /\ driver[d].about \in Nat
      BY <1>2 DEF WokenInv, Typed, AboutTyped
    <2>2. \A d \in Attempts : driver'[d].pc = "wake" => driver[d].pc = "wake" /\ driver'[d].about = driver[d].about
      BY <1>5 DEF WakersStay
    <2>3. OneTeller'
      BY <1>1, <1>2, <2>1, <2>2 DEF WokenInv, OneTeller
    <2> QED BY <1>3, <1>4, <2>3 DEF WokenInv
  <1>6. ASSUME NEW d \in Attempts, Marks(d) PROVE WokenInv'
    <2>1. wakes[attempt] = 0
      BY <1>6 DEF Marks, WokenInv, MarkKept, Typed, NotesTyped, Attempts
    <2>2. \A e \in Attempts : driver[e].pc = "wake" => driver[e].about # attempt
      BY <1>6 DEF Marks, WokenInv, OneTeller
    <2>3. OneTeller'
      BY <1>6, <2>1, <2>2 DEF Marks, WokenInv, OneTeller
    <2> QED BY <1>3, <1>4, <2>3 DEF WokenInv
  <1> QED BY <1>5, <1>6, WakersStep DEF WokenInv

\* The chat is told: by the only driver that was about to.
LEMMA ToldStep ==
    ASSUME JobAssumption, WokenInv, Typed', NEW d \in Attempts, WakeAccepted(d)
    PROVE  WokenInv'
  <1> DEFINE a == driver[d].about
  <1>1. /\ driver[d].pc = "wake" /\ EndOf(d) /\ UNCHANGED <<row, attempt, up>>
        /\ wakes' = [wakes EXCEPT ![a] = IF @ = 2 THEN 2 ELSE @ + 1]
    BY DEF WakeAccepted
  <1>2. a \in Attempts /\ a <= attempt /\ wakes[a] = 0
    BY <1>1, Bounds DEF WokenInv, Typed, AboutTyped, OneTeller, Attempts
  <1>3. wakes'[a] = 1 /\ \A b \in Attempts : b # a => wakes'[b] = wakes[b]
    BY <1>1, <1>2 DEF WokenInv, Typed, NotesTyped
  <1>4. driver'[d].pc = "off" /\ \A e \in Attempts : e # d => driver'[e] = driver[e]
    BY <1>1, EndOfOK DEF WokenInv, Typed
  <1>5. OneTeller'
    BY <1>1, <1>3, <1>4 DEF WokenInv, OneTeller, Typed, AboutTyped, Attempts
  <1>6. attempt \in Nat /\ \A b \in Attempts : b \in Nat
    BY Bounds DEF WokenInv, Typed
  <1>7. NotAhead' /\ WokenOnce'
    BY <1>1, <1>2, <1>3, <1>6 DEF WokenInv, NotAhead, WokenOnce
  <1>8. MarkKept'
    <2>1. a = attempt => row.woken
      BY <1>1 DEF WokenInv, OneTeller
    <2>2. attempt # 0 => attempt \in Attempts
      BY Bounds DEF WokenInv, Typed
    <2> QED BY <1>1, <1>3, <2>1, <2>2 DEF WokenInv, MarkKept
  <1> QED BY <1>5, <1>7, <1>8 DEF WokenInv

\* The invariant of the wakes holds along every behaviour.
LEMMA WokenAlways == Spec => []WokenInv
  <1>1. Init => WokenInv
    BY JobAssumption, WokenInit
  <1>2. WokenInv /\ [Next]_vars => WokenInv'
    <2> SUFFICES ASSUME WokenInv, [Next]_vars PROVE WokenInv'
      OBVIOUS
    <2>1. Typed'
      BY JobAssumption, TypedStep DEF WokenInv
    <2>2. CASE Next
      BY <2>1, <2>2, JobAssumption, UntoldStep, ToldStep, WakesStep DEF WokenInv
    <2>3. CASE UNCHANGED vars
      BY <2>1, <2>3 DEF vars, chat, WokenInv, NotAhead, OneTeller, MarkKept, WokenOnce
    <2> QED BY <2>2, <2>3
  <1> QED BY <1>1, <1>2, PTL DEF Spec

\* jobs.metadata.woken_at: whoever drives, cancels, probes or resumes, the end of an attempt starts
\* at most one run that tells of it.
THEOREM WokenOnceAlways == Spec => []WokenOnce
  <1>1. WokenInv => WokenOnce
    BY DEF WokenInv
  <1> QED BY WokenAlways, <1>1, PTL

-----------------------------------------------------------------------------
(* An item is in one hand, if no script gives up on a call it has made: the    *)
(* requests of such a script go on, and the next call is a second hand.        *)

\* What is asked for is marked.
CallsRun == \A c \in call : item[c.item] = "running"

\* What the last script may still ask for, or has the answer of, nobody works on; what it has not
\* asked for yet is pending, and what it got no answer for is no result.
Held(i) ==
    attempt # 0 /\ runner[attempt].pc = "mapping" =>
        LET w == runner[attempt].work[i] IN
        /\ w \in {"todo", "again", "ok", "bad"} => \A c \in call : c.item # i
        /\ w = "todo" => item[i] = "pending"
        /\ w \in {"again", "bad"} => item[i] # "done"

OneHolder == \A i \in Items : Held(i)

Hand == ItemInOneHand /\ CallsRun /\ OneHolder

\* No script begins to map, and no call or item changes.
LEMMA MappingStays ==
    ASSUME JobAssumption, Typed, Hand, UNCHANGED <<item, call, attempt>>,
           \A b \in Attempts : runner'[b].pc = "mapping" => runner'[b] = runner[b]
    PROVE  Hand'
  <1>1. attempt # 0 => attempt \in Attempts
    BY Bounds DEF Typed
  <1> QED BY <1>1 DEF Hand, ItemInOneHand, CallsRun, OneHolder, Held

\* One field of the work of one runner.
LEMMA WorkDone ==
    ASSUME Typed, NEW a \in Attempts, NEW i \in Items, NEW w \in Works, Work(a, i, w)
    PROVE  /\ \A b \in Attempts : runner'[b].pc = runner[b].pc
           /\ \A b \in Attempts, j \in Items : b # a \/ j # i => runner'[b].work[j] = runner[b].work[j]
           /\ runner'[a].work[i] = w
  <1> DEFINE W == [runner[a].work EXCEPT ![i] = w]
             R == [runner[a] EXCEPT !.work = W]
  <1>1. \A b \in Attempts : runner[b] \in Runner /\ runner[b].work \in [Items -> Works]
    BY DEF Typed, RunnersTyped, Runner
  <1>2. runner' = [runner EXCEPT ![a] = R]
    BY DEF Work
  <1>3. W[i] = w /\ \A j \in Items : j # i => W[j] = runner[a].work[j]
    BY <1>1
  <1> HIDE DEF W
  <1>4. R.pc = runner[a].pc /\ R.work = W
    BY <1>1 DEF Runner
  <1> QED BY <1>2, <1>3, <1>4 DEF Typed, RunnersTyped

\* Whoever waited for a process that died tries again, or has got no answer.
LEMMA DroppedWork ==
    ASSUME Typed, NEW p \in Procs, NEW a \in Attempts, NEW i \in Items
    PROVE  \/ Dropped(p)[a].work[i] = runner[a].work[i]
           \/ /\ Dropped(p)[a].work[i] \in {"again", "bad"}
              /\ \E c \in call : c.item = i /\ c.at = p
  <1> DEFINE lost == {c.item : c \in {e \in call : e.at = p /\ e.heard /\ e.by = a}}
             W == [j \in Items |-> IF j \in lost THEN Retried(runner[a].work[j]) ELSE runner[a].work[j]]
  <1>1. Dropped(p)[a] = [runner[a] EXCEPT !.work = W]
    BY DEF Dropped
  <1>2. Dropped(p)[a].work = W
    BY <1>1 DEF Typed, RunnersTyped, Runner
  <1> QED BY <1>2 DEF Retried


\* A call is answered, taken back or lost; an item is fetched, called for or booked.
LEMMA HandStep ==
    ASSUME JobAssumption, Typed, Hand, "slow" \notin Disturbances, Next
    PROVE  Hand'
  <1>1. ASSUME NEW wait \in BOOLEAN, Start(wait) PROVE Hand'
    <2>1. UNCHANGED <<item, call, runner>> /\ attempt' \in Attempts /\ attempt' = attempt + 1
      BY <1>1, Bounds DEF Start, ledger, sandbox, Typed, JobAssumption, Attempts
    <2>2. runner'[attempt'].pc = "none"
      BY <2>1, Bounds DEF Typed, Hand, RunnersTyped
    <2> QED BY <2>1, <2>2 DEF Hand, ItemInOneHand, CallsRun, OneHolder, Held
  <1>2. ASSUME NEW wait \in BOOLEAN, Resume(wait) PROVE Hand'
    <2>1. UNCHANGED <<item, call, runner>> /\ attempt' \in Attempts /\ attempt' = attempt + 1
      BY <1>2, Bounds DEF Resume, ledger, sandbox, Typed, JobAssumption, Attempts
    <2>2. runner'[attempt'].pc = "none"
      BY <2>1, Bounds DEF Typed, Hand, RunnersTyped
    <2> QED BY <2>1, <2>2 DEF Hand, ItemInOneHand, CallsRun, OneHolder, Held
  <1>3. ASSUME Launched PROVE Hand'
    <2>1. UNCHANGED <<item, call, attempt>>
      BY <1>3 DEF Launched, ledger
    <2>2. \A b \in Attempts : runner'[b].pc = "mapping" => runner'[b] = runner[b]
      BY <1>3, TurnOf DEF Launched, Begun, Typed, Hand, RunnersTyped, Runner
    <2> QED BY <2>1, <2>2, MappingStays
  <1>4. ASSUME TurnAborted PROVE Hand'
    <2>1. UNCHANGED <<item, call, attempt>>
      BY <1>4 DEF TurnAborted, ledger
    <2>2. \A b \in Attempts : runner'[b].pc = "mapping" => runner'[b] = runner[b]
      BY <1>4, TurnOf DEF TurnAborted, Begun, Typed, Hand, RunnersTyped, Runner
    <2> QED BY <2>1, <2>2, MappingStays
  <1>5. ASSUME NEW p \in Procs, Crash(p) PROVE Hand'
    <2>1. UNCHANGED <<attempt, item>> /\ call' = {c \in call : c.at # p}
      BY <1>5 DEF Crash
    <2>2. ItemInOneHand' /\ CallsRun'
      BY <2>1 DEF Hand, ItemInOneHand, CallsRun
    <2>3. ASSUME attempt # 0, runner'[attempt].pc = "mapping" PROVE runner'[attempt] = Dropped(p)[attempt]
      <3>1. attempt \in Attempts
        BY <2>3, Bounds DEF Typed, Hand
      <3>2. turn.pc = "launching" => turn.of \in Attempts
        BY TurnOf DEF Hand
      <3> QED BY <2>3, <3>1, <3>2, <1>5, DroppedOK DEF Crash, Typed, Hand, Runner
    <2>4. ASSUME attempt # 0, runner'[attempt].pc = "mapping", NEW i \in Items
          PROVE  \/ runner'[attempt].work[i] = runner[attempt].work[i]
                 \/ /\ runner'[attempt].work[i] \in {"again", "bad"}
                    /\ \E c \in call : c.item = i /\ c.at = p
      <3>1. attempt \in Attempts
        BY <2>4, Bounds DEF Typed, Hand
      <3> QED BY <2>3, <2>4, <3>1, DroppedWork DEF Typed, Hand
    <2>5. attempt # 0 /\ runner'[attempt].pc = "mapping" => runner[attempt].pc = "mapping"
      BY <2>3, Bounds, DroppedOK DEF Typed, Hand
    <2>6. OneHolder'
      <3> SUFFICES ASSUME attempt # 0, runner'[attempt].pc = "mapping", NEW i \in Items
                   PROVE  Held(i)'
        BY <2>1 DEF OneHolder, Held
      <3>1. \A c \in call' : c \in call /\ c.at # p
        BY <2>1
      <3>2. \A c \in call : item[c.item] = "running" /\ \A e \in call : e.item = c.item => e = c
        BY DEF Hand, CallsRun, ItemInOneHand
      <3> QED BY <2>1, <2>4, <2>5, <3>1, <3>2 DEF Hand, OneHolder, Held
    <2> QED BY <2>2, <2>6 DEF Hand
  <1>6. ASSUME NEW a \in Attempts, ReportRunning(a) PROVE Hand'
    <2>1. UNCHANGED <<item, call, attempt>>
      BY <1>6 DEF ReportRunning, ledger
    <2>2. \A b \in Attempts : runner'[b].pc = "mapping" => runner'[b] = runner[b]
      BY <1>6 DEF ReportRunning, Typed, Hand, RunnersTyped, Runner
    <2> QED BY <2>1, <2>2, MappingStays
  <1>7. ASSUME NEW a \in Attempts, Fetch(a) PROVE Hand'
    <2>1. a = attempt /\ attempt' = attempt
      BY <1>7, Bounds DEF Fetch, Heard, Passes, Typed, Hand, RowTyped, RowFine
    <2>2. call' = call /\ \A i \in Items : item'[i] = IF item[i] = "absent" THEN "pending" ELSE item[i]
      BY <1>7 DEF Fetch
    <2>3. \A i \in Items : runner'[a].work[i] = IF item'[i] = "pending" THEN "todo" ELSE "no"
      BY <1>7 DEF Fetch, Typed, Hand, RunnersTyped, Runner
    <2>4. \A c \in call : c.item \in Items
      BY DEF Typed, Hand, LedgerTyped, Request
    <2> QED BY <2>1, <2>2, <2>3, <2>4 DEF Hand, ItemInOneHand, CallsRun, OneHolder, Held
  <1>8. ASSUME NEW a \in Attempts, ScriptEnds(a) PROVE Hand'
    <2>1. UNCHANGED <<item, call, attempt>>
      BY <1>8 DEF ScriptEnds, ledger
    <2>2. \A b \in Attempts : runner'[b].pc = "mapping" => runner'[b] = runner[b]
      BY <1>8 DEF ScriptEnds, Typed, Hand, RunnersTyped, Runner
    <2> QED BY <2>1, <2>2, MappingStays
  <1>9. ASSUME NEW a \in Attempts, ReportEnd(a) PROVE Hand'
    <2>1. UNCHANGED <<item, call, attempt>>
      BY <1>9 DEF ReportEnd, ledger
    <2>2. \A b \in Attempts : runner'[b].pc = "mapping" => runner'[b] = runner[b]
      BY <1>9 DEF ReportEnd, Gone, Typed, Hand, RunnersTyped, Runner
    <2> QED BY <2>1, <2>2, MappingStays
  <1>10. ASSUME NEW a \in Attempts, FencedExit(a) PROVE Hand'
    <2>1. UNCHANGED <<item, call, attempt>>
      BY <1>10 DEF FencedExit, ledger
    <2>2. \A b \in Attempts : runner'[b].pc = "mapping" => runner'[b] = runner[b]
      BY <1>10 DEF FencedExit, Gone, Typed, Hand, RunnersTyped, Runner
    <2> QED BY <2>1, <2>2, MappingStays
  <1>11. ASSUME NEW a \in Attempts, ReportLost(a) PROVE Hand'
    <2>1. UNCHANGED <<item, call, attempt>>
      BY <1>11 DEF ReportLost, ledger
    <2>2. \A b \in Attempts : runner'[b].pc = "mapping" => runner'[b] = runner[b]
      BY <1>11 DEF ReportLost, Gone, Typed, Hand, RunnersTyped, Runner
    <2> QED BY <2>1, <2>2, MappingStays
  <1>12. ASSUME NEW a \in Attempts, RunnerKilled(a) PROVE Hand'
    <2>1. UNCHANGED <<item, call, attempt>>
      BY <1>12 DEF RunnerKilled, ledger
    <2>2. \A b \in Attempts : runner'[b].pc = "mapping" => runner'[b] = runner[b]
      BY <1>12 DEF RunnerKilled, Gone, Typed, Hand, RunnersTyped, Runner
    <2> QED BY <2>1, <2>2, MappingStays
  <1>13. ASSUME NEW a \in Attempts, Hang(a) PROVE Hand'
    <2>1. UNCHANGED <<item, call, attempt>>
      BY <1>13 DEF Hang, ledger
    <2>2. \A b \in Attempts : runner'[b].pc = "mapping" => runner'[b] = runner[b]
      BY <1>13 DEF Hang, Typed, Hand, RunnersTyped, Runner
    <2> QED BY <2>1, <2>2, MappingStays
  <1>14. ASSUME NEW a \in Attempts, NEW i \in Items, Book(a, i) PROVE Hand'
    <2>1. a = attempt /\ attempt' = attempt
      BY <1>14, Bounds DEF Book, Heard, Passes, Typed, Hand, RowTyped, RowFine
    <2>2. call' = call /\ runner[a].pc = "mapping" /\ runner[a].work[i] \in {"ok", "bad"}
          /\ Work(a, i, "booked") /\ \A j \in Items : j # i => item'[j] = item[j]
      BY <1>14 DEF Book, Typed, Hand, LedgerTyped
    <2>3. \A c \in call : c.item \in Items /\ c.item # i
      BY <2>1, <2>2, Bounds DEF Hand, OneHolder, Held, Typed, LedgerTyped, Request
    <2>4. runner'[a].pc = "mapping" /\ runner'[a].work[i] = "booked"
          /\ \A j \in Items : j # i => runner'[a].work[j] = runner[a].work[j]
      BY <2>2, WorkDone DEF Typed, Hand, Works
    <2> QED BY <2>1, <2>2, <2>3, <2>4 DEF Hand, ItemInOneHand, CallsRun, OneHolder, Held
  <1>15. ASSUME NEW a \in Attempts, NEW i \in Items, NEW p \in Procs, AgentBegin(a, i,
    p) PROVE Hand'
    <2>1. a = attempt /\ attempt' = attempt
      BY <1>15, Bounds DEF AgentBegin, Calls, Passes, Typed, Hand, RowTyped, RowFine
    <2> DEFINE n == [by |-> a, item |-> i, at |-> p, heard |-> TRUE]
    <2>2. call' = call \cup {n} /\ n.item = i /\ runner[a].pc = "mapping" /\ runner[a].work[i] \in {"todo", "again"}
          /\ item'[i] = "running" /\ \A j \in Items : j # i => item'[j] = item[j]
      BY <1>15 DEF AgentBegin, Calls, Typed, Hand, LedgerTyped
    <2>3. PICK w \in {"calling", "recalling"} : Work(a, i, w)
      BY <1>15 DEF AgentBegin, Calls
    <2>4. \A c \in call : c.item \in Items /\ c.item # i
      BY <2>1, <2>2, Bounds DEF Hand, OneHolder, Held, Typed, LedgerTyped, Request
    <2>5. runner'[a].pc = "mapping" /\ runner'[a].work[i] = w
          /\ \A j \in Items : j # i => runner'[a].work[j] = runner[a].work[j]
      BY <2>2, <2>3, WorkDone DEF Typed, Hand, Works
    <2> HIDE DEF n
    <2> QED BY <2>1, <2>2, <2>4, <2>5 DEF Hand, ItemInOneHand, CallsRun, OneHolder, Held
  <1>16. ASSUME NEW c \in call, NEW ok \in BOOLEAN, AgentEnd(c, ok) PROVE Hand'
    <2> DEFINE i == c.item
    <2>1. /\ i \in Items /\ c.by \in Attempts /\ attempt' = attempt /\ call' = call \ {c}
          /\ \A e \in call : e.item \in Items /\ (e.item = i => e = c)
          /\ item'[i] = (IF ok THEN "done" ELSE "failed") /\ \A j \in Items : j # i => item'[j] = item[j]
      BY <1>16 DEF AgentEnd, Hand, ItemInOneHand, Typed, LedgerTyped, Request
    <2>2. ItemInOneHand' /\ CallsRun'
      BY <2>1 DEF Hand, ItemInOneHand, CallsRun
    <2>3. runner' = runner \/ \E w \in {"ok", "bad", "again"} : (ok <=> w = "ok") /\ Work(c.by, i, w)
      BY <1>16 DEF AgentEnd, Retried
    <2>4. CASE runner' = runner
      BY <2>1, <2>2, <2>4, Bounds DEF Hand, CallsRun, OneHolder, Held, Typed
    <2>5. ASSUME NEW w \in {"ok", "bad", "again"}, ok <=> w = "ok", Work(c.by, i, w) PROVE Hand'
      <3>1. attempt # 0 /\ runner[attempt].pc = "mapping" => runner[attempt].work[i] \notin {"todo", "again", "ok", "bad"}
        BY <2>1, <1>16 DEF AgentEnd, Hand, OneHolder, Held
      <3> HIDE DEF i
      <3>2. /\ \A b \in Attempts : runner'[b].pc = runner[b].pc
            /\ \A b \in Attempts, j \in Items : b # c.by \/ j # i => runner'[b].work[j] = runner[b].work[j]
            /\ runner'[c.by].work[i] = w
        BY <2>1, <2>5, WorkDone DEF Typed, Hand, Works
      <3>3. attempt # 0 => attempt \in Attempts
        BY Bounds DEF Typed, Hand
      <3>4. OneHolder'
        BY <2>1, <2>5, <3>1, <3>2, <3>3 DEF Hand, OneHolder, Held
      <3> QED BY <2>2, <3>4 DEF Hand
    <2> QED BY <2>3, <2>4, <2>5
  <1>17. ASSUME NEW c \in call, GiveUp(c) PROVE Hand'
    BY <1>17 DEF GiveUp
  <1>18. ASSUME NEW p \in Procs, TurnBegins(p) \/ Cancel(p) \/ Reap(p) \/ Restart(p)
       PROVE  UNCHANGED <<item, call, runner, attempt>>
    BY <1>18 DEF TurnBegins, Cancel, Reap, Restart, ledger, sandbox, chat
  <1>19. ASSUME TurnEnds \/ LaunchFails \/ WaitReturns \/ WaitTimer \/ Detach \/
    Silence
       PROVE  UNCHANGED <<item, call, runner, attempt>>
    BY <1>19 DEF TurnEnds, LaunchFails, WaitReturns, WaitTimer, Detach, Silence,
      ledger, sandbox, chat
  <1>20. ASSUME NEW d \in Attempts, PollTerminal(d) \/ WakeAccepted(d) \/
    WakeRefused(d) \/ Silent(d) \/ ProbeSent(d) \/ ProbeAnswered(d) \/ ProgressWake(d)
    \/ WallClock(d)
       PROVE  UNCHANGED <<item, call, runner, attempt>>
    BY <1>20 DEF PollTerminal, WakeAccepted, WakeRefused, Silent, ProbeSent,
      ProbeAnswered, ProgressWake, WallClock, ledger, sandbox, chat
  <1>21. ASSUME UNCHANGED <<item, call, runner, attempt>> PROVE Hand'
    BY <1>21 DEF Hand, ItemInOneHand, CallsRun, OneHolder, Held
  <1>22. QED
    BY <1>1, <1>2, <1>3, <1>4, <1>5, <1>6, <1>7, <1>8, <1>9, <1>10, <1>11, <1>12,
      <1>13, <1>14, <1>15, <1>16, <1>17, <1>18, <1>19, <1>20, <1>21 DEF Next, Chat,
      DriverStep, RunnerStep, AnyAgentEnd


HandInv == Typed /\ Hand

\* So does that of the items in hand, if no heartbeat is slow.
LEMMA HandAlways ==
    ASSUME "slow" \notin Disturbances
    PROVE  Spec => []HandInv
  <1>1. Init => HandInv
    BY JobAssumption, TypedInit DEF Init, HandInv, Hand, ItemInOneHand, CallsRun, OneHolder, Held
  <1>2. HandInv /\ [Next]_vars => HandInv'
    <2> SUFFICES ASSUME HandInv, [Next]_vars PROVE HandInv'
      OBVIOUS
    <2>1. Typed'
      BY JobAssumption, TypedStep DEF HandInv
    <2>2. CASE Next
      BY <2>1, <2>2, JobAssumption, HandStep DEF HandInv
    <2>3. CASE UNCHANGED vars
      BY <2>1, <2>3 DEF vars, ledger, sandbox, HandInv, Hand, ItemInOneHand, CallsRun, OneHolder, Held
    <2> QED BY <2>2, <2>3
  <1> QED BY <1>1, <1>2, PTL DEF Spec

\* job_agent marks an item before it waits and ledger.pending hands out none that is marked: at most
\* one sub-agent works on an item, whatever is resumed, killed or lost, as long as no call times out.
THEOREM ItemInOneHandAlways ==
    ASSUME "slow" \notin Disturbances
    PROVE  Spec => []ItemInOneHand
  <1>1. HandInv => ItemInOneHand
    BY DEF HandInv, Hand
  <1> QED BY HandAlways, <1>1, PTL


-----------------------------------------------------------------------------
(* A job completes only on the word of a script that came to its end.          *)

\* Scripts that came to their end seeded the ledger; a verdict "completed" is the word of one,
\* wherever it is: with the runner, in the file it left, with a driver that has read the file.
Present == \A i \in Items : item[i] # "absent"

Words ==
    /\ clean # {} => Present
    /\ \A a \in Attempts :
          /\ runner[a].pc = "mapping" => Present
          /\ runner[a].pc = "ended" /\ runner[a].out = "completed" => a \in clean
    /\ marker = "completed" => clean # {}
    /\ \A d \in Attempts : driver[d].pc = "probe" /\ driver[d].seen = "completed" => clean # {}

\* Only what fetch, judgement and booking do to items.
ItemsKept == \A i \in Items : item[i] # "absent" => item'[i] # "absent"

\* The verdict of a finished job is the one it was given, and counts the ledger.
LEMMA FinishedEarned ==
    ASSUME NEW v, Finished(v).st = "completed", row.st # "completed", row \in Rows
    PROVE  v = "completed" /\ ((\E i \in Items : item[i] # "absent") => \E i \in Items : item[i] = "done")
  <1>1. Finished(v).st = Outcome(v)
    BY DEF Finished, Rows, Terminal
  <1> QED BY <1>1 DEF Outcome

\* No verdict is new, and none is forgotten.
LEMMA WordsStay ==
    ASSUME Words, ItemsKept, UNCHANGED <<marker, clean>>,
           \A b \in Attempts : runner'[b].pc \in {"mapping", "ended"}
                                  => runner'[b].pc = runner[b].pc /\ runner'[b].out = runner[b].out,
           \A d \in Attempts : driver'[d].pc = "probe" => driver'[d] = driver[d]
    PROVE  Words'
  BY DEF Words, ItemsKept, Present

\* Working on an item writes down the outcome of no attempt.
LEMMA WorkOut ==
    ASSUME Typed, NEW a \in Attempts, NEW i \in Items, NEW w, Work(a, i, w)
    PROVE  \A b \in Attempts : runner'[b].out = runner[b].out
  BY DEF Work, Typed, RunnersTyped, Runner

Earned == row.st # "completed" /\ row'.st = "completed"
             => clean # {} /\ Present /\ \E i \in Items : item[i] = "done"

\* Verdicts move from the runner to the file and to the driver; scripts end after they fetched.
LEMMA WordsStep ==
    ASSUME JobAssumption, Typed, Words, Next
    PROVE  Words'
  <1>1. ASSUME NEW p \in Procs, Cancel(p) PROVE Words'
    <2>1. ItemsKept /\ UNCHANGED <<marker, clean>>
      BY <1>1 DEF Cancel, ItemsKept, ledger, sandbox, Typed, LedgerTyped
    <2>2. \A b \in Attempts : runner'[b].pc \in {"mapping", "ended"}
                              => runner'[b].pc = runner[b].pc /\ runner'[b].out = runner[b].out
      BY <1>1 DEF Cancel, ledger, sandbox, Typed, RunnersTyped, Runner
    <2>3. \A e \in Attempts : driver'[e].pc = "probe" => driver'[e] = driver[e]
      BY <1>1 DEF Cancel, NoDriver, Typed, DriversTyped
    <2> QED BY <2>1, <2>2, <2>3, WordsStay
  <1>2. ASSUME NEW wait \in BOOLEAN, Start(wait) PROVE Words'
    <2>1. ItemsKept /\ UNCHANGED <<marker, clean>>
      BY <1>2 DEF Start, ItemsKept, ledger, sandbox, Typed, LedgerTyped
    <2>2. \A b \in Attempts : runner'[b].pc \in {"mapping", "ended"}
                              => runner'[b].pc = runner[b].pc /\ runner'[b].out = runner[b].out
      BY <1>2 DEF Start, ledger, sandbox, Typed, RunnersTyped, Runner
    <2>3. \A e \in Attempts : driver'[e].pc = "probe" => driver'[e] = driver[e]
      BY <1>2 DEF Start, Typed, DriversTyped
    <2> QED BY <2>1, <2>2, <2>3, WordsStay
  <1>3. ASSUME NEW wait \in BOOLEAN, Resume(wait) PROVE Words'
    <2>1. ItemsKept /\ UNCHANGED <<marker, clean>>
      BY <1>3 DEF Resume, ItemsKept, ledger, sandbox, Typed, LedgerTyped
    <2>2. \A b \in Attempts : runner'[b].pc \in {"mapping", "ended"}
                              => runner'[b].pc = runner[b].pc /\ runner'[b].out = runner[b].out
      BY <1>3 DEF Resume, ledger, sandbox, Typed, RunnersTyped, Runner
    <2>3. \A e \in Attempts : driver'[e].pc = "probe" => driver'[e] = driver[e]
      BY <1>3 DEF Resume, Typed, DriversTyped
    <2> QED BY <2>1, <2>2, <2>3, WordsStay
  <1>4. ASSUME Launched PROVE Words'
    <2>1. ItemsKept /\ UNCHANGED <<marker, clean>>
      BY <1>4 DEF Launched, ItemsKept, ledger, sandbox, Typed, LedgerTyped
    <2>2. \A b \in Attempts : runner'[b].pc \in {"mapping", "ended"}
                              => runner'[b].pc = runner[b].pc /\ runner'[b].out = runner[b].out
      BY <1>4, TurnOf DEF Launched, Begun, ledger, sandbox, Typed, RunnersTyped, Runner
    <2>3. \A e \in Attempts : driver'[e].pc = "probe" => driver'[e] = driver[e]
      <3>1. \/ driver' = driver
            \/ driver' = [driver EXCEPT ![turn.of] = Driving(turn.at)]
        BY <1>4 DEF Launched
      <3>2. Driving(turn.at).pc = "poll"
        BY DEF Driving, NoDriver
      <3> QED BY <3>1, <3>2 DEF Typed, DriversTyped
    <2> QED BY <2>1, <2>2, <2>3, WordsStay
  <1>5. ASSUME TurnAborted PROVE Words'
    <2>1. ItemsKept /\ UNCHANGED <<marker, clean>>
      BY <1>5 DEF TurnAborted, ItemsKept, ledger, sandbox, Typed, LedgerTyped
    <2>2. \A b \in Attempts : runner'[b].pc \in {"mapping", "ended"}
                              => runner'[b].pc = runner[b].pc /\ runner'[b].out = runner[b].out
      <3>1. CASE runner' = runner
        BY <3>1
      <3>2. CASE turn.pc = "launching" /\ Begun(turn.of)
        <4>1. turn.of \in Attempts /\ runner' = [runner EXCEPT ![turn.of].pc = "started"]
          BY <3>2, TurnOf DEF Begun
        <4> QED BY <4>1 DEF Typed, RunnersTyped, Runner
      <3> QED BY <1>5, <3>1, <3>2 DEF TurnAborted
    <2>3. \A e \in Attempts : driver'[e].pc = "probe" => driver'[e] = driver[e]
      BY <1>5 DEF TurnAborted, Typed, DriversTyped
    <2> QED BY <2>1, <2>2, <2>3, WordsStay
  <1>6. ASSUME NEW d \in Attempts, PollTerminal(d) PROVE Words'
    <2>1. ItemsKept /\ UNCHANGED <<marker, clean>>
      BY <1>6 DEF PollTerminal, ItemsKept, ledger, sandbox, Typed, LedgerTyped
    <2>2. \A b \in Attempts : runner'[b].pc \in {"mapping", "ended"}
                              => runner'[b].pc = runner[b].pc /\ runner'[b].out = runner[b].out
      BY <1>6 DEF PollTerminal, ledger, sandbox, Typed, RunnersTyped, Runner
    <2>3. \A e \in Attempts : driver'[e].pc = "probe" => driver'[e] = driver[e]
      <3>1. WakeFrom(d, row)
        BY <1>6 DEF PollTerminal
      <3> QED BY <3>1 DEF WakeFrom, EndOf, NoDriver, Typed, DriversTyped, Driver
    <2> QED BY <2>1, <2>2, <2>3, WordsStay
  <1>7. ASSUME NEW d \in Attempts, WakeAccepted(d) PROVE Words'
    <2>1. ItemsKept /\ UNCHANGED <<marker, clean>>
      BY <1>7 DEF WakeAccepted, ItemsKept, ledger, sandbox, Typed, LedgerTyped
    <2>2. \A b \in Attempts : runner'[b].pc \in {"mapping", "ended"}
                              => runner'[b].pc = runner[b].pc /\ runner'[b].out = runner[b].out
      BY <1>7 DEF WakeAccepted, ledger, sandbox, Typed, RunnersTyped, Runner
    <2>3. \A e \in Attempts : driver'[e].pc = "probe" => driver'[e] = driver[e]
      BY <1>7 DEF WakeAccepted, EndOf, NoDriver, Typed, DriversTyped
    <2> QED BY <2>1, <2>2, <2>3, WordsStay
  <1>8. ASSUME NEW d \in Attempts, WakeRefused(d) PROVE Words'
    <2>1. ItemsKept /\ UNCHANGED <<marker, clean>>
      BY <1>8 DEF WakeRefused, ItemsKept, ledger, sandbox, Typed, LedgerTyped
    <2>2. \A b \in Attempts : runner'[b].pc \in {"mapping", "ended"}
                              => runner'[b].pc = runner[b].pc /\ runner'[b].out = runner[b].out
      BY <1>8 DEF WakeRefused, ledger, sandbox, Typed, RunnersTyped, Runner
    <2>3. \A e \in Attempts : driver'[e].pc = "probe" => driver'[e] = driver[e]
      BY <1>8 DEF WakeRefused, EndOf, NoDriver, Typed, DriversTyped
    <2> QED BY <2>1, <2>2, <2>3, WordsStay
  <1>9. ASSUME NEW d \in Attempts, Silent(d) PROVE Words'
    <2>1. ItemsKept /\ UNCHANGED <<marker, clean>>
      BY <1>9 DEF Silent, ItemsKept, ledger, sandbox, Typed, LedgerTyped
    <2>2. \A b \in Attempts : runner'[b].pc \in {"mapping", "ended"}
                              => runner'[b].pc = runner[b].pc /\ runner'[b].out = runner[b].out
      BY <1>9 DEF Silent, ledger, sandbox, Typed, RunnersTyped, Runner
    <2>3. \A e \in Attempts : driver'[e].pc = "probe" => driver'[e] = driver[e]
      <3>1. WakeFrom(d, Finished("failed"))
        BY <1>9 DEF Silent
      <3> QED BY <3>1 DEF WakeFrom, EndOf, NoDriver, Typed, DriversTyped, Driver
    <2> QED BY <2>1, <2>2, <2>3, WordsStay
  <1>10. ASSUME NEW d \in Attempts, ProbeSent(d) PROVE Words'
    <2>1. UNCHANGED <<item, runner, marker, clean>>
      BY <1>10 DEF ProbeSent, ledger, sandbox
    <2>2. PICK v \in MarkerRead : driver' = [driver EXCEPT ![d].pc = "probe", ![d].seen = v]
      BY <1>10 DEF ProbeSent
    <2>3. driver'[d].seen = v /\ \A e \in Attempts : e # d => driver'[e] = driver[e]
      BY <2>2 DEF Typed, DriversTyped, Driver
    <2>4. v = "completed" => clean # {}
      BY <2>2 DEF MarkerRead, Words
    <2> QED BY <2>1, <2>3, <2>4 DEF Words, Present
  <1>11. ASSUME NEW d \in Attempts, ProbeAnswered(d) PROVE Words'
    <2>1. ItemsKept /\ UNCHANGED <<marker, clean>>
      BY <1>11 DEF ProbeAnswered, ItemsKept, ledger, sandbox, Typed, LedgerTyped
    <2>2. \A b \in Attempts : runner'[b].pc \in {"mapping", "ended"}
                              => runner'[b].pc = runner[b].pc /\ runner'[b].out = runner[b].out
      BY <1>11 DEF ProbeAnswered, ledger, sandbox, Typed, RunnersTyped, Runner
    <2>3. \A e \in Attempts : driver'[e].pc = "probe" => driver'[e] = driver[e]
      <3>1. WakeFrom(d, Finished(driver[d].seen))
        BY <1>11 DEF ProbeAnswered
      <3> QED BY <3>1 DEF WakeFrom, EndOf, NoDriver, Typed, DriversTyped, Driver
    <2> QED BY <2>1, <2>2, <2>3, WordsStay
  <1>12. ASSUME NEW d \in Attempts, WallClock(d) PROVE Words'
    <2>1. ItemsKept /\ UNCHANGED <<marker, clean>>
      BY <1>12 DEF WallClock, ItemsKept, ledger, sandbox, Typed, LedgerTyped
    <2>2. \A b \in Attempts : runner'[b].pc \in {"mapping", "ended"}
                              => runner'[b].pc = runner[b].pc /\ runner'[b].out = runner[b].out
      BY <1>12 DEF WallClock, ledger, sandbox, Typed, RunnersTyped, Runner
    <2>3. \A e \in Attempts : driver'[e].pc = "probe" => driver'[e] = driver[e]
      BY <1>12 DEF WallClock, EndOf, NoDriver, Typed, DriversTyped
    <2> QED BY <2>1, <2>2, <2>3, WordsStay
  <1>13. ASSUME NEW p \in Procs, Crash(p) PROVE Words'
    <2>1. ItemsKept /\ UNCHANGED <<marker, clean>>
      BY <1>13 DEF Crash, ItemsKept, ledger, sandbox, Typed, LedgerTyped
    <2>2. \A b \in Attempts : runner'[b].pc \in {"mapping", "ended"}
                              => runner'[b].pc = runner[b].pc /\ runner'[b].out = runner[b].out
      <3>1. turn.pc = "launching" => turn.of \in Attempts
        BY TurnOf
      <3> QED BY <3>1, <1>13, DroppedOK DEF Crash, Typed, Runner
    <2>3. \A e \in Attempts : driver'[e].pc = "probe" => driver'[e] = driver[e]
      BY <1>13 DEF Crash, NoDriver, Typed, DriversTyped
    <2> QED BY <2>1, <2>2, <2>3, WordsStay
  <1>14. ASSUME NEW a \in Attempts, ReportRunning(a) PROVE Words'
    <2>1. ItemsKept /\ UNCHANGED <<marker, clean>>
      BY <1>14 DEF ReportRunning, ItemsKept, ledger, sandbox, Typed, LedgerTyped
    <2>2. \A b \in Attempts : runner'[b].pc \in {"mapping", "ended"}
                              => runner'[b].pc = runner[b].pc /\ runner'[b].out = runner[b].out
      BY <1>14 DEF ReportRunning, ledger, sandbox, Typed, RunnersTyped, Runner
    <2>3. \A e \in Attempts : driver'[e].pc = "probe" => driver'[e] = driver[e]
      BY <1>14 DEF ReportRunning, Typed, DriversTyped
    <2> QED BY <2>1, <2>2, <2>3, WordsStay
  <1>15. ASSUME NEW a \in Attempts, Fetch(a) PROVE Words'
    <2>1. ItemsKept /\ Present' /\ UNCHANGED <<marker, clean, driver>>
      BY <1>15 DEF Fetch, ItemsKept, Present, Typed, LedgerTyped
    <2>2. \A b \in Attempts : runner'[b].pc = "ended" => runner'[b].pc = runner[b].pc /\ runner'[b].out = runner[b].out
      BY <1>15 DEF Fetch, Typed, RunnersTyped, Runner
    <2> QED BY <2>1, <2>2 DEF Words
  <1>16. ASSUME NEW a \in Attempts, ScriptEnds(a) PROVE Words'
    <2>1. UNCHANGED <<item, driver, marker>> /\ Present /\ clean \subseteq clean'
      BY <1>16 DEF ScriptEnds, ledger, Words
    <2>2. \A b \in Attempts : b # a => runner'[b] = runner[b]
      BY <1>16 DEF ScriptEnds, Typed, RunnersTyped
    <2>3. runner'[a].pc = "ended" /\ (runner'[a].out = "completed" => a \in clean')
      BY <1>16 DEF ScriptEnds, Typed, RunnersTyped, Runner
    <2> QED BY <2>1, <2>2, <2>3 DEF Words, Present
  <1>17. ASSUME NEW a \in Attempts, ReportEnd(a) PROVE Words'
    <2>1. ItemsKept /\ UNCHANGED <<marker, clean>>
      BY <1>17 DEF ReportEnd, ItemsKept, ledger, sandbox, Typed, LedgerTyped
    <2>2. \A b \in Attempts : runner'[b].pc \in {"mapping", "ended"}
                              => runner'[b].pc = runner[b].pc /\ runner'[b].out = runner[b].out
      BY <1>17 DEF ReportEnd, Gone, ledger, sandbox, Typed, RunnersTyped, Runner
    <2>3. \A e \in Attempts : driver'[e].pc = "probe" => driver'[e] = driver[e]
      BY <1>17 DEF ReportEnd, Typed, DriversTyped
    <2> QED BY <2>1, <2>2, <2>3, WordsStay
  <1>18. ASSUME NEW a \in Attempts, FencedExit(a) PROVE Words'
    <2>1. UNCHANGED <<item, driver>> /\ clean \subseteq clean' /\ Gone(a)
      BY <1>18 DEF FencedExit, ledger
    <2>2. \A b \in Attempts : b # a => runner'[b] = runner[b]
      BY <2>1 DEF Gone, Typed, RunnersTyped
    <2>3. runner'[a].pc = "gone"
      BY <2>1 DEF Gone, Typed, RunnersTyped, Runner
    <2>4. (clean' # {} => Present) /\ (marker' = "completed" => clean' # {})
      BY <1>18 DEF FencedExit, Words
    <2> QED BY <2>1, <2>2, <2>3, <2>4 DEF Words, Present
  <1>19. ASSUME NEW a \in Attempts, ReportLost(a) PROVE Words'
    <2>1. UNCHANGED <<item, driver>> /\ clean \subseteq clean' /\ Gone(a)
      BY <1>19 DEF ReportLost, ledger
    <2>2. \A b \in Attempts : b # a => runner'[b] = runner[b]
      BY <2>1 DEF Gone, Typed, RunnersTyped
    <2>3. runner'[a].pc = "gone"
      BY <2>1 DEF Gone, Typed, RunnersTyped, Runner
    <2>4. (clean' # {} => Present) /\ (marker' = "completed" => clean' # {})
      BY <1>19 DEF ReportLost, Words
    <2> QED BY <2>1, <2>2, <2>3, <2>4 DEF Words, Present
  <1>20. ASSUME NEW a \in Attempts, RunnerKilled(a) PROVE Words'
    <2>1. ItemsKept /\ UNCHANGED <<marker, clean>>
      BY <1>20 DEF RunnerKilled, ItemsKept, ledger, sandbox, Typed, LedgerTyped
    <2>2. \A b \in Attempts : runner'[b].pc \in {"mapping", "ended"}
                              => runner'[b].pc = runner[b].pc /\ runner'[b].out = runner[b].out
      BY <1>20 DEF RunnerKilled, Gone, ledger, sandbox, Typed, RunnersTyped, Runner
    <2>3. \A e \in Attempts : driver'[e].pc = "probe" => driver'[e] = driver[e]
      BY <1>20 DEF RunnerKilled, Typed, DriversTyped
    <2> QED BY <2>1, <2>2, <2>3, WordsStay
  <1>21. ASSUME NEW a \in Attempts, Hang(a) PROVE Words'
    <2>1. ItemsKept /\ UNCHANGED <<marker, clean>>
      BY <1>21 DEF Hang, ItemsKept, ledger, sandbox, Typed, LedgerTyped
    <2>2. \A b \in Attempts : runner'[b].pc \in {"mapping", "ended"}
                              => runner'[b].pc = runner[b].pc /\ runner'[b].out = runner[b].out
      BY <1>21 DEF Hang, ledger, sandbox, Typed, RunnersTyped, Runner
    <2>3. \A e \in Attempts : driver'[e].pc = "probe" => driver'[e] = driver[e]
      BY <1>21 DEF Hang, Typed, DriversTyped
    <2> QED BY <2>1, <2>2, <2>3, WordsStay
  <1>22. ASSUME NEW a \in Attempts, NEW i \in Items, Book(a, i) PROVE Words'
    <2>1. ItemsKept /\ UNCHANGED <<marker, clean>>
      BY <1>22 DEF Book, ItemsKept, ledger, sandbox, Typed, LedgerTyped
    <2>2. \A b \in Attempts : runner'[b].pc \in {"mapping", "ended"}
                              => runner'[b].pc = runner[b].pc /\ runner'[b].out = runner[b].out
      <3>1. runner' = runner \/ \E b \in Attempts, j \in Items, w \in Works : Work(b, j, w)
        BY <1>22 DEF Book, Calls, Works, Retried, Typed, LedgerTyped, Request
      <3> QED BY <3>1, WorkDone, WorkOut DEF Typed
    <2>3. \A e \in Attempts : driver'[e].pc = "probe" => driver'[e] = driver[e]
      BY <1>22 DEF Book, Typed, DriversTyped
    <2> QED BY <2>1, <2>2, <2>3, WordsStay
  <1>23. ASSUME NEW a \in Attempts, NEW i \in Items, NEW p \in Procs, AgentBegin(a, i,
    p) PROVE Words'
    <2>1. ItemsKept /\ UNCHANGED <<marker, clean>>
      BY <1>23 DEF AgentBegin, Calls, ItemsKept, ledger, sandbox, Typed, LedgerTyped
    <2>2. \A b \in Attempts : runner'[b].pc \in {"mapping", "ended"}
                              => runner'[b].pc = runner[b].pc /\ runner'[b].out = runner[b].out
      <3>1. runner' = runner \/ \E b \in Attempts, j \in Items, w \in Works : Work(b, j, w)
        BY <1>23 DEF AgentBegin, Calls, Works, Retried, Typed, LedgerTyped, Request
      <3> QED BY <3>1, WorkDone, WorkOut DEF Typed
    <2>3. \A e \in Attempts : driver'[e].pc = "probe" => driver'[e] = driver[e]
      BY <1>23 DEF AgentBegin, Calls, Typed, DriversTyped
    <2> QED BY <2>1, <2>2, <2>3, WordsStay
  <1>24. ASSUME NEW c \in call, NEW ok \in BOOLEAN, AgentEnd(c, ok) PROVE Words'
    <2>1. ItemsKept /\ UNCHANGED <<marker, clean>>
      BY <1>24 DEF AgentEnd, ItemsKept, ledger, sandbox, Typed, LedgerTyped
    <2>2. \A b \in Attempts : runner'[b].pc \in {"mapping", "ended"}
                              => runner'[b].pc = runner[b].pc /\ runner'[b].out = runner[b].out
      <3>1. runner' = runner \/ \E b \in Attempts, j \in Items, w \in Works : Work(b, j, w)
        BY <1>24 DEF AgentEnd, Calls, Works, Retried, Typed, LedgerTyped, Request
      <3> QED BY <3>1, WorkDone, WorkOut DEF Typed
    <2>3. \A e \in Attempts : driver'[e].pc = "probe" => driver'[e] = driver[e]
      BY <1>24 DEF AgentEnd, Typed, DriversTyped
    <2> QED BY <2>1, <2>2, <2>3, WordsStay
  <1>25. ASSUME NEW c \in call, GiveUp(c) PROVE Words'
    <2>1. ItemsKept /\ UNCHANGED <<marker, clean>>
      BY <1>25 DEF GiveUp, ItemsKept, ledger, sandbox, Typed, LedgerTyped
    <2>2. \A b \in Attempts : runner'[b].pc \in {"mapping", "ended"}
                              => runner'[b].pc = runner[b].pc /\ runner'[b].out = runner[b].out
      <3>1. runner' = runner \/ \E b \in Attempts, j \in Items, w \in Works : Work(b, j, w)
        BY <1>25 DEF GiveUp, Calls, Works, Retried, Typed, LedgerTyped, Request
      <3> QED BY <3>1, WorkDone, WorkOut DEF Typed
    <2>3. \A e \in Attempts : driver'[e].pc = "probe" => driver'[e] = driver[e]
      BY <1>25 DEF GiveUp, Typed, DriversTyped
    <2> QED BY <2>1, <2>2, <2>3, WordsStay
  <1>26. ASSUME NEW p \in Procs, TurnBegins(p) \/ Reap(p) \/ Restart(p)
       PROVE  UNCHANGED <<item, runner, marker, clean, driver>>
    BY <1>26 DEF TurnBegins, Reap, Restart, ledger, sandbox, chat
  <1>27. ASSUME TurnEnds \/ LaunchFails \/ WaitReturns \/ WaitTimer \/ Detach \/
    Silence
       PROVE  UNCHANGED <<item, runner, marker, clean, driver>>
    BY <1>27 DEF TurnEnds, LaunchFails, WaitReturns, WaitTimer, Detach, Silence,
      ledger, sandbox, chat
  <1>28. ASSUME NEW d \in Attempts, ProgressWake(d)
       PROVE  UNCHANGED <<item, runner, marker, clean, driver>>
    BY <1>28 DEF ProgressWake, ledger, sandbox, chat
  <1>29. ASSUME UNCHANGED <<item, runner, marker, clean, driver>> PROVE Words'
    BY <1>29 DEF Words, Present
  <1>30. QED
    BY <1>1, <1>2, <1>3, <1>4, <1>5, <1>6, <1>7, <1>8, <1>9, <1>10, <1>11, <1>12,
      <1>13, <1>14, <1>15, <1>16, <1>17, <1>18, <1>19, <1>20, <1>21, <1>22, <1>23,
      <1>24, <1>25, <1>26, <1>27, <1>28, <1>29 DEF Next, Chat, DriverStep, RunnerStep,
      AnyAgentEnd

\* Whoever ends the job, a report or a driver, has the word of a script for a completion.
LEMMA VerdictStep ==
    ASSUME JobAssumption, Typed, Words, Items # {}, Next
    PROVE  Earned
  <1>1. ASSUME NEW p \in Procs, Cancel(p) PROVE Earned
    <2>3. row'.st = Finished("cancelled").st
      BY <1>1 DEF Cancel
    <2>4. ASSUME Finished("cancelled").st = "completed", row.st # "completed" PROVE clean # {} /\ Present
      BY <2>4, <1>1, FinishedEarned DEF Cancel, Typed, RowTyped, RowFine, Words
    <2> QED BY <2>3, <2>4, FinishedEarned DEF Earned, Present, Typed, RowTyped, RowFine
  <1>2. ASSUME NEW wait \in BOOLEAN, Start(wait) PROVE Earned
    BY <1>2 DEF Start, Earned, Typed, RowTyped, RowFine, Rows
  <1>3. ASSUME NEW wait \in BOOLEAN, Resume(wait) PROVE Earned
    BY <1>3 DEF Resume, Reopened, Earned, Typed, RowTyped, RowFine, Rows
  <1>4. ASSUME Detach PROVE Earned
    BY <1>4 DEF Detach, Earned, Typed, RowTyped, RowFine, Rows
  <1>5. ASSUME NEW d \in Attempts, PollTerminal(d) PROVE Earned
    BY <1>5, WakeFromOK DEF PollTerminal, Typed, RowTyped, Earned
  <1>6. ASSUME NEW d \in Attempts, Silent(d) PROVE Earned
    <2>1. attempt # 0 /\ attempt' = attempt /\ WakeFrom(d, Finished("failed"))
      BY <1>6, Bounds DEF Silent, Polls, Typed, DriversTyped
    <2>2. RowFine(Finished("failed"), attempt) /\ Finished("failed").woken = row.woken
      BY <2>1, FinishedOK DEF Typed, RowTyped, Verdicts
    <2>3. row'.st = Finished("failed").st
      BY <2>1, <2>2, WakeFromOK DEF Typed
    <2>4. ASSUME Finished("failed").st = "completed", row.st # "completed" PROVE clean # {} /\ Present
      BY <2>4, <1>6, FinishedEarned DEF Silent, Typed, RowTyped, RowFine, Words
    <2> QED BY <2>3, <2>4, FinishedEarned DEF Earned, Present, Typed, RowTyped, RowFine
  <1>7. ASSUME NEW d \in Attempts, ProbeAnswered(d) PROVE Earned
    <2>1. attempt # 0 /\ attempt' = attempt /\ WakeFrom(d, Finished(driver[d].seen))
          /\ driver[d].seen \in Verdicts
      BY <1>7, Bounds DEF ProbeAnswered, Typed, DriversTyped
    <2>2. RowFine(Finished(driver[d].seen), attempt) /\ Finished(driver[d].seen).woken = row.woken
      BY <2>1, FinishedOK DEF Typed, RowTyped, Verdicts
    <2>3. row'.st = Finished(driver[d].seen).st
      BY <2>1, <2>2, WakeFromOK DEF Typed
    <2>4. ASSUME Finished(driver[d].seen).st = "completed", row.st # "completed" PROVE clean # {} /\ Present
      BY <2>4, <1>7, FinishedEarned DEF ProbeAnswered, Typed, RowTyped, RowFine, Words
    <2> QED BY <2>3, <2>4, FinishedEarned DEF Earned, Present, Typed, RowTyped, RowFine
  <1>8. ASSUME NEW d \in Attempts, WallClock(d) PROVE Earned
    <2>3. row'.st = Finished("failed").st
      BY <1>8 DEF WallClock
    <2>4. ASSUME Finished("failed").st = "completed", row.st # "completed" PROVE clean # {} /\ Present
      BY <2>4, <1>8, FinishedEarned DEF WallClock, Typed, RowTyped, RowFine, Words
    <2> QED BY <2>3, <2>4, FinishedEarned DEF Earned, Present, Typed, RowTyped, RowFine
  <1>9. ASSUME NEW p \in Procs, Reap(p) PROVE Earned
    BY <1>9 DEF Reap, Interrupted, Earned, Typed, RowTyped, RowFine, Rows
  <1>10. ASSUME NEW p \in Procs, Restart(p) PROVE Earned
    BY <1>10 DEF Restart, Interrupted, Earned, Typed, RowTyped, RowFine, Rows
  <1>11. ASSUME NEW a \in Attempts, ReportRunning(a) PROVE Earned
    BY <1>11 DEF ReportRunning, Earned, Typed, RowTyped, RowFine, Rows
  <1>12. ASSUME NEW a \in Attempts, ReportEnd(a) PROVE Earned
    <2>3. row'.st = Finished(runner[a].out).st
      BY <1>12 DEF ReportEnd
    <2>4. ASSUME Finished(runner[a].out).st = "completed", row.st # "completed" PROVE clean # {} /\ Present
      BY <2>4, <1>12, FinishedEarned DEF ReportEnd, Typed, RowTyped, RowFine, Words
    <2> QED BY <2>3, <2>4, FinishedEarned DEF Earned, Present, Typed, RowTyped, RowFine
  <1>13. ASSUME NEW p \in Procs, TurnBegins(p) \/ Crash(p)
       PROVE  UNCHANGED <<row>>
    BY <1>13 DEF TurnBegins, Crash, ledger, sandbox, chat
  <1>14. ASSUME TurnEnds \/ Launched \/ LaunchFails \/ TurnAborted \/ WaitReturns \/
    WaitTimer \/ Silence
       PROVE  UNCHANGED <<row>>
    BY <1>14 DEF TurnEnds, Launched, Begun, LaunchFails, TurnAborted, WaitReturns,
      WaitTimer, Silence, ledger, sandbox, chat
  <1>15. ASSUME NEW d \in Attempts, WakeAccepted(d) \/ WakeRefused(d) \/ ProbeSent(d)
    \/ ProgressWake(d)
       PROVE  UNCHANGED <<row>>
    BY <1>15 DEF WakeAccepted, WakeRefused, ProbeSent, ProgressWake, ledger, sandbox,
      chat
  <1>16. ASSUME NEW a \in Attempts, Fetch(a) \/ ScriptEnds(a) \/ FencedExit(a) \/
    ReportLost(a) \/ RunnerKilled(a) \/ Hang(a)
       PROVE  UNCHANGED <<row>>
    BY <1>16 DEF Fetch, ScriptEnds, FencedExit, Gone, ReportLost, RunnerKilled, Hang,
      ledger, sandbox, chat
  <1>17. ASSUME NEW a \in Attempts, NEW i \in Items, Book(a, i)
       PROVE  UNCHANGED <<row>>
    BY <1>17 DEF Book, Work, ledger, sandbox, chat
  <1>18. ASSUME NEW a \in Attempts, NEW i \in Items, NEW p \in Procs, AgentBegin(a, i,
    p)
       PROVE  UNCHANGED <<row>>
    BY <1>18 DEF AgentBegin, Calls, Work, ledger, sandbox, chat
  <1>19. ASSUME NEW c \in call, NEW ok \in BOOLEAN, AgentEnd(c, ok)
       PROVE  UNCHANGED <<row>>
    BY <1>19 DEF AgentEnd, Work, ledger, sandbox, chat
  <1>20. ASSUME NEW c \in call, GiveUp(c)
       PROVE  UNCHANGED <<row>>
    BY <1>20 DEF GiveUp, Work, ledger, sandbox, chat
  <1>21. ASSUME UNCHANGED <<row>> PROVE Earned
    BY <1>21 DEF Earned
  <1>22. QED
    BY <1>1, <1>2, <1>3, <1>4, <1>5, <1>6, <1>7, <1>8, <1>9, <1>10, <1>11, <1>12,
      <1>13, <1>14, <1>15, <1>16, <1>17, <1>18, <1>19, <1>20, <1>21 DEF Next, Chat,
      DriverStep, RunnerStep, AnyAgentEnd


EarnedInv == Typed /\ Words

\* Along every behaviour an outcome is earned by the attempt that reports it.
LEMMA EarnedAlways == Spec => []EarnedInv
  <1>1. Init => EarnedInv
    <2> SUFFICES ASSUME Init PROVE EarnedInv
      OBVIOUS
    <2>1. Typed
      BY JobAssumption, TypedInit
    <2>2. /\ \A a \in Attempts : runner[a].pc = "none" /\ driver[a].pc = "off"
          /\ marker # "completed" /\ clean = {}
      BY JobAssumption DEF Init, NoDriver, JobAssumption, Verdicts
    <2> QED BY <2>1, <2>2 DEF EarnedInv, Words
  <1>2. EarnedInv /\ [Next]_vars => EarnedInv'
    <2> SUFFICES ASSUME EarnedInv, [Next]_vars PROVE EarnedInv'
      OBVIOUS
    <2>1. Typed'
      BY JobAssumption, TypedStep DEF EarnedInv
    <2>2. CASE Next
      BY <2>1, <2>2, JobAssumption, WordsStep DEF EarnedInv
    <2>3. CASE UNCHANGED vars
      BY <2>1, <2>3 DEF vars, ledger, sandbox, EarnedInv, Words, Present
    <2> QED BY <2>2, <2>3
  <1> QED BY <1>1, <1>2, PTL DEF Spec

\* A job completes only if a script came to its end and the ledger has a result: through the report,
\* and through the file the driver finds when the report is lost.  A script that seeds nothing
\* completes without a result, hence the hypothesis.
THEOREM CompletedWasEarnedAlways ==
    ASSUME Items # {}
    PROVE  Spec => CompletedWasEarned
  <1>1. EarnedInv /\ [Next]_vars
           => [row.st # "completed" /\ row'.st = "completed"
                  => clean # {} /\ \E i \in Items : item[i] = "done"]_vars
    <2>1. EarnedInv /\ Next /\ row.st # "completed" /\ row'.st = "completed" => clean # {} /\ Present
                                /\ \E i \in Items : item[i] = "done"
      BY JobAssumption, VerdictStep DEF EarnedInv, Earned
    <2>2. UNCHANGED vars => row' = row
      BY DEF vars
    <2> QED BY <2>1, <2>2
  <1> QED BY <1>1, EarnedAlways, PTL DEF Spec, CompletedWasEarned



-----------------------------------------------------------------------------
(* JobPromise.  A step of the runtime changes the phase of the attempt, tells  *)
(* or loses an announcement, adds a result, or is none of the chat's business. *)

\* The phase of the attempt, by the status of the row.
PhaseWords ==
    /\ row.st = "absent" => Phase = "none"
    /\ row.st \in Live => Phase = "live"
    /\ row.st = "interrupted" => Phase = "stopped"
    /\ row.st \in Terminal => Phase \in {"completed", "failed"}
    /\ Phase = "completed" <=> row.st = "completed"
    /\ row.st \in {"absent", "interrupted"} \cup Live \cup Terminal

\* What the phase of the abstract job says of the row ...
LEMMA PhaseOf == ASSUME RowTyped PROVE PhaseWords
  BY DEF RowTyped, RowFine, Rows, Phase, PhaseWords, Live, Terminal

\* ... before a step and after it.
LEMMA PhaseOfNext == ASSUME RowTyped' PROVE PhaseWords'
  BY DEF RowTyped, RowFine, Rows, Phase, PhaseWords, Live, Terminal

\* Drivers that do not announce come and go unseen.
LEMMA DueStays ==
    ASSUME \A e \in Attempts : driver[e].pc = "wake" \/ driver'[e].pc = "wake" => driver'[e] = driver[e]
    PROVE  Due' = Due
  BY DEF Due

\* A step that shows none of it is a stutter of the abstract job.
LEMMA Unseen ==
    ASSUME UNCHANGED <<attempt, wakes>>, Phase' = Phase, row'.woken = row.woken, Due' = Due,
           Results' = Results
    PROVE  [J!JobNext]_J!jvars
  BY DEF J!jvars

\* The job ends, or has ended before, and nobody is called.
LEMMA EndsUnannounced ==
    ASSUME JobAssumption, Typed, Typed', Earned, attempt # 0, NEW v \in Verdicts,
           row' = Finished(v), Due' = Due, UNCHANGED <<attempt, wakes, item>>
    PROVE  [J!JobNext]_J!jvars
  <1>1. PhaseWords /\ PhaseWords' /\ row.st # "absent"
    BY PhaseOf, PhaseOfNext DEF Typed, RowTyped, RowFine
  <1>2. Results' = Results /\ row'.woken = row.woken /\ row'.st \in Terminal
    BY FinishedOK DEF Results, Typed
  <1>3. CASE row.st \in Terminal
    <2>1. row' = row
      BY <1>3, FinishedOK DEF Typed
    <2> QED BY <1>2, <2>1, Unseen DEF Phase
  <1>4. CASE row.st \notin Terminal
    <2>1. Phase \in {"live", "stopped"} /\ Phase' \in J!Over
      BY <1>1, <1>2, <1>4 DEF PhaseWords, J!Over
    <2>2. Phase' = "completed" => Results # {}
      BY <1>1, <1>4 DEF PhaseWords, Terminal, Earned, Results
    <2>3. J!Ended(Phase')
      BY <1>2, <2>1, <2>2 DEF J!Ended
    <2> QED BY <1>2, <2>1, <2>3 DEF J!JobNext
  <1> QED BY <1>3, <1>4

\* A driver that has not announced anything yet marks the row.
LEMMA DueGrows ==
    ASSUME JobAssumption, Typed, NEW d \in Attempts, driver[d].pc # "wake",
           driver'[d].pc = "wake", driver'[d].about = attempt,
           \A e \in Attempts : e # d => driver'[e] = driver[e]
    PROVE  Due' = Due \cup {attempt}
  BY DEF Due

\* A driver that has seen the end, or made it, calls the chat if it is to be called.
LEMMA EndsAnnounced ==
    ASSUME JobAssumption, Typed, Typed', Earned, attempt # 0, NEW v \in Verdicts,
           NEW d \in Attempts, driver[d].pc \in {"poll", "probe"}, WakeFrom(d, Finished(v)),
           UNCHANGED <<attempt, wakes, item, up>>
    PROVE  [J!JobNext]_J!jvars
  <1>1. PhaseWords /\ PhaseWords' /\ row.st # "absent"
    BY PhaseOf, PhaseOfNext DEF Typed, RowTyped, RowFine
  <1>2. /\ RowFine(Finished(v), attempt) /\ Finished(v).st \in Terminal
        /\ Finished(v).woken = row.woken /\ (row.st \in Terminal => Finished(v) = row)
    BY FinishedOK DEF Typed
  <1>3. row'.st = Finished(v).st
    BY <1>2, WakeFromOK DEF Typed
  <1>4. CASE row' = Finished(v) /\ EndOf(d)
    <2>1. Due' = Due
      BY <1>4, EndOfOK, DueStays DEF Typed
    <2> QED BY <1>4, <2>1, EndsUnannounced
  <1>5. ASSUME ~row.woken, row'.woken,
               driver' = [driver EXCEPT ![d].pc = "wake", ![d].seen = None, ![d].about = attempt],
               active' = active
        PROVE  [J!JobNext]_J!jvars
    <2>1. Due' = Due \cup {attempt}
      BY <1>5, GoesWakingOK, DueGrows DEF Typed
    <2>2. Phase' \in J!Over /\ Results' = Results /\ row.woken = FALSE /\ row'.woken = TRUE
      BY <1>1, <1>2, <1>3, <1>5 DEF PhaseWords, J!Over, Results, Typed, RowTyped, RowFine, Rows
    <2>3. J!FallsDue
      BY <2>1, <2>2 DEF J!FallsDue
    <2>4. CASE row.st \in Terminal
      <3>1. Phase' = Phase
        BY <1>2, <1>3, <2>4 DEF Phase
      <3> QED BY <2>2, <2>3, <3>1 DEF J!JobNext
    <2>5. CASE row.st \notin Terminal
      <3>1. Phase \in {"live", "stopped"}
        BY <1>1, <2>5 DEF PhaseWords
      <3>2. Phase' = "completed" => Results # {}
        BY <1>1, <2>5 DEF PhaseWords, Terminal, Earned, Results
      <3>3. J!Ended(Phase')
        BY <2>2, <3>1, <3>2 DEF J!Ended
      <3> QED BY <2>2, <2>3, <3>3 DEF J!JobNext
    <2> QED BY <2>4, <2>5
  <1> QED BY <1>2, <1>4, <1>5, WakeFromOK DEF Typed

\* The only driver that announces the end of an attempt has done so, or is refused.
LEMMA DueShrinks ==
    ASSUME JobAssumption, WokenInv, NEW d \in Attempts, driver[d].pc = "wake", EndOf(d),
           UNCHANGED <<attempt, up>>
    PROVE  driver[d].about \in Due /\ Due' = Due \ {driver[d].about}
  <1>1. driver'[d].pc = "off" /\ \A e \in Attempts : e # d => driver'[e] = driver[e]
    BY EndOfOK DEF WokenInv, Typed
  <1>2. \A e \in Attempts : driver[e].pc = "wake" /\ driver[e].about = driver[d].about => e = d
    BY DEF WokenInv, OneTeller
  <1> QED BY <1>1, <1>2 DEF Due

\* The reaper, or the server that is back, stops the job.
LEMMA StopsStep ==
    ASSUME Typed, Typed', row.st \in Live, row' = Interrupted, UNCHANGED <<driver, attempt, wakes, item>>
    PROVE  [J!JobNext]_J!jvars
  <1>1. row'.st = "interrupted" /\ row'.woken = row.woken
    BY DEF Interrupted, Typed, RowTyped, RowFine, Rows
  <1>2. Phase = "live" /\ Phase' = "stopped" /\ Due' = Due /\ Results' = Results
    BY <1>1, PhaseOf, PhaseOfNext DEF PhaseWords, Typed, Due, Results
  <1> QED BY <1>1, <1>2 DEF J!JobNext, J!Stopped

\* An item is settled, or marked: no result is lost.
LEMMA ItemSettled ==
    ASSUME Typed, NEW i \in Items, NEW s, item' = [item EXCEPT ![i] = s], s = "done" \/ item[i] # "done",
           UNCHANGED <<row, attempt, driver, wakes>>
    PROVE  [J!JobNext]_J!jvars
  <1>1. item'[i] = s /\ \A j \in Items : j # i => item'[j] = item[j]
    BY DEF Typed, LedgerTyped
  <1>2. Phase' = Phase /\ Due' = Due
    BY DEF Phase, Due
  <1>3. CASE s = "done"
    <2>1. Results' = Results \cup {i}
      BY <1>1, <1>3 DEF Results
    <2>2. J!ResultAdded(i)
      BY <1>2, <2>1 DEF J!ResultAdded
    <2> QED BY <2>2 DEF J!JobNext
  <1>4. CASE s # "done"
    <2>1. Results' = Results
      BY <1>1, <1>4 DEF Results
    <2> QED BY <1>2, <2>1, Unseen
  <1> QED BY <1>3, <1>4

\* Every step of the runtime is one of the promise, or changes nothing of it.
LEMMA PromiseStep ==
    ASSUME JobAssumption, WokenInv, Typed, Typed', Hand, Earned,
           "slow" \notin Disturbances, "script" \notin Disturbances, Next
    PROVE  [J!JobNext]_J!jvars
  <1>1. ASSUME NEW p \in Procs, Cancel(p) PROVE [J!JobNext]_J!jvars
    <2>1. \A e \in Attempts : driver[e].pc = "wake" \/ driver'[e].pc = "wake" => driver'[e] = driver[e]
      <3>1. CASE active[p] = 0
        BY <1>1, <3>1 DEF Cancel
      <3>2. CASE active[p] # 0
        <4>1. active[p] \in Attempts /\ driver[active[p]].at = p
          BY <3>2, Bounds DEF Typed, DriversTyped, Attempts
        <4> QED BY <1>1, <3>2, <4>1 DEF Cancel, Idle, NoDriver, Typed, DriversTyped
      <3> QED BY <3>1, <3>2
    <2>2. attempt # 0 /\ row' = Finished("cancelled") /\ UNCHANGED <<attempt, wakes, item>>
      BY <1>1, Bounds DEF Cancel, Typed, ledger
    <2> QED BY <2>1, <2>2, DueStays, EndsUnannounced DEF Verdicts
  <1>2. ASSUME NEW wait \in BOOLEAN, Start(wait) PROVE [J!JobNext]_J!jvars
    <2>1. attempt' = attempt + 1 /\ attempt' \in Attempts /\ row'.st = "pending" /\ row'.woken = FALSE
          /\ UNCHANGED <<driver, wakes, item>>
      BY <1>2, Bounds DEF Start, ledger, Typed, JobAssumption, Attempts
    <2>2. Phase' = "live" /\ Due' = Due /\ Results' = Results
      BY <2>1, PhaseOfNext DEF PhaseWords, Due, Results, Typed, Live
    <2> QED BY <2>1, <2>2 DEF J!JobNext, J!Begun
  <1>3. ASSUME NEW wait \in BOOLEAN, Resume(wait) PROVE [J!JobNext]_J!jvars
    <2>1. attempt' = attempt + 1 /\ attempt' \in Attempts /\ row' = Reopened(row, attempt + 1)
          /\ UNCHANGED <<driver, wakes, item>>
      BY <1>3, Bounds DEF Resume, ledger, Typed, JobAssumption, Attempts
    <2>2. row'.st = "pending" /\ row'.woken = FALSE
      BY <2>1 DEF Reopened, Typed, RowTyped, RowFine, Rows
    <2>3. Phase' = "live" /\ Due' = Due /\ Results' = Results
      BY <2>1, <2>2, PhaseOfNext DEF PhaseWords, Due, Results, Typed, Live
    <2> QED BY <2>1, <2>2, <2>3 DEF J!JobNext, J!Begun
  <1>4. ASSUME Launched PROVE [J!JobNext]_J!jvars
    <2>1. \/ driver' = driver
          \/ driver' = [driver EXCEPT ![turn.of] = Driving(turn.at)]
      BY <1>4 DEF Launched
    <2>2. turn.of \in Attempts /\ driver[turn.of].pc = "off" /\ Driving(turn.at).pc = "poll"
      BY <1>4, TurnOf DEF Launched, Typed, TurnTyped, Driving, NoDriver
    <2>3. \A e \in Attempts : driver[e].pc = "wake" \/ driver'[e].pc = "wake" => driver'[e] = driver[e]
      BY <2>1, <2>2 DEF Typed, DriversTyped
    <2>4. UNCHANGED <<row, attempt, wakes, item>>
      BY <1>4 DEF Launched, ledger
    <2> QED BY <2>3, <2>4, DueStays, Unseen DEF Phase, Results
  <1>5. ASSUME Detach PROVE [J!JobNext]_J!jvars
    <2>1. row' = [row EXCEPT !.wake = TRUE] /\ UNCHANGED <<driver, attempt, wakes, item>>
      BY <1>5 DEF Detach, ledger
    <2>2. row'.st = row.st /\ row'.woken = row.woken
      BY <2>1 DEF Typed, RowTyped, RowFine, Rows
    <2> QED BY <2>1, <2>2, Unseen DEF Phase, Results, Due
  <1>6. ASSUME NEW d \in Attempts, PollTerminal(d) PROVE [J!JobNext]_J!jvars
    <2>1. row.st \in Terminal /\ WakeFrom(d, row) /\ driver[d].pc = "poll" /\ UNCHANGED <<attempt, wakes, item, up>>
      BY <1>6 DEF PollTerminal, Polls, ledger, chat
    <2>2. attempt # 0 /\ Finished("failed") = row
      BY <2>1 DEF Finished, Typed, RowTyped, RowFine, Terminal
    <2> QED BY <2>1, <2>2, EndsAnnounced DEF Verdicts
  <1>7. ASSUME NEW d \in Attempts, WakeAccepted(d) PROVE [J!JobNext]_J!jvars
    <2> DEFINE b == driver[d].about
    <2>1. /\ driver[d].pc = "wake" /\ EndOf(d) /\ UNCHANGED <<row, attempt, up, item>>
          /\ wakes' = [wakes EXCEPT ![b] = IF @ = 2 THEN 2 ELSE @ + 1]
      BY <1>7 DEF WakeAccepted, ledger
    <2>2. wakes[b] = 0
      BY <2>1 DEF WokenInv, OneTeller
    <2>3. wakes' = [wakes EXCEPT ![b] = 1]
      BY <2>1, <2>2
    <2>4. b \in Due /\ Due' = Due \ {b}
      BY <2>1, DueShrinks
    <2>5. Phase' = Phase /\ Results' = Results
      BY <2>1 DEF Phase, Results
    <2> HIDE DEF b
    <2>6. J!Announced(b)
      BY <2>1, <2>2, <2>3, <2>4, <2>5 DEF J!Announced
    <2> QED BY <2>4, <2>6 DEF J!JobNext
  <1>8. ASSUME NEW d \in Attempts, WakeRefused(d) PROVE [J!JobNext]_J!jvars
    <2> DEFINE b == driver[d].about
    <2>1. driver[d].pc = "wake" /\ EndOf(d) /\ UNCHANGED <<row, attempt, up, item, wakes>>
      BY <1>8 DEF WakeRefused, ledger
    <2>2. {b} \in SUBSET Due /\ Due' = Due \ {b}
      BY <2>1, DueShrinks
    <2>3. Phase' = Phase /\ Results' = Results
      BY <2>1 DEF Phase, Results
    <2> HIDE DEF b
    <2>4. J!Lost({b})
      BY <2>1, <2>2, <2>3 DEF J!Lost
    <2> QED BY <2>2, <2>4 DEF J!JobNext
  <1>9. ASSUME NEW d \in Attempts, Silent(d) PROVE [J!JobNext]_J!jvars
    <2>1. WakeFrom(d, Finished("failed")) /\ driver[d].pc = "poll" /\ UNCHANGED <<attempt, wakes, item, up>>
      BY <1>9 DEF Silent, Polls, ledger, chat
    <2>2. attempt # 0
      BY <2>1, Bounds DEF Typed, DriversTyped
    <2> QED BY <2>1, <2>2, EndsAnnounced DEF Verdicts
  <1>10. ASSUME NEW d \in Attempts, ProbeSent(d) PROVE [J!JobNext]_J!jvars
    <2>1. driver[d].pc = "poll" /\ UNCHANGED <<row, attempt, wakes, item>>
      BY <1>10 DEF ProbeSent, Polls, ledger, chat
    <2>2. \A e \in Attempts : driver[e].pc = "wake" \/ driver'[e].pc = "wake" => driver'[e] = driver[e]
      BY <1>10, <2>1 DEF ProbeSent, Typed, DriversTyped, Driver
    <2> QED BY <2>1, <2>2, DueStays, Unseen DEF Phase, Results
  <1>11. ASSUME NEW d \in Attempts, ProbeAnswered(d) PROVE [J!JobNext]_J!jvars
    <2>1. WakeFrom(d, Finished(driver[d].seen)) /\ driver[d].pc = "probe" /\ UNCHANGED <<attempt, wakes, item, up>>
      BY <1>11 DEF ProbeAnswered, ledger, chat
    <2>2. attempt # 0 /\ driver[d].seen \in Verdicts
      BY <2>1, Bounds DEF Typed, DriversTyped
    <2> QED BY <2>1, <2>2, EndsAnnounced
  <1>12. ASSUME NEW d \in Attempts, WallClock(d) PROVE [J!JobNext]_J!jvars
    <2>1. row' = Finished("failed") /\ EndOf(d) /\ driver[d].pc = "poll" /\ UNCHANGED <<attempt, wakes, item, up>>
      BY <1>12 DEF WallClock, Polls, ledger, chat
    <2>2. attempt # 0
      BY <2>1, Bounds DEF Typed, DriversTyped
    <2>3. Due' = Due
      BY <2>1, EndOfOK, DueStays DEF Typed
    <2> QED BY <2>1, <2>2, <2>3, EndsUnannounced DEF Verdicts
  <1>13. ASSUME NEW p \in Procs, Reap(p) PROVE [J!JobNext]_J!jvars
    <2>1. row' = Interrupted /\ row.st \in Live /\ UNCHANGED <<driver, attempt, wakes, item>>
      BY <1>13 DEF Reap, ledger, chat
    <2> QED BY <2>1, StopsStep
  <1>14. ASSUME NEW p \in Procs, Crash(p) PROVE [J!JobNext]_J!jvars
    <2> DEFINE lost == Due \ Due'
    <2>1. /\ driver' = [e \in Attempts |-> IF driver[e].at = p THEN [NoDriver EXCEPT !.at = p] ELSE driver[e]]
          /\ UNCHANGED <<row, attempt, item, wakes>>
      BY <1>14 DEF Crash
    <2>2. \A e \in Attempts : driver'[e].pc = "wake" => driver'[e] = driver[e]
      BY <2>1 DEF NoDriver
    <2>3. Due' \subseteq Due
      BY <2>2 DEF Due
    <2>4. lost \in SUBSET Due /\ Due' = Due \ lost
      BY <2>3
    <2>5. Phase' = Phase /\ Results' = Results
      BY <2>1 DEF Phase, Results
    <2> HIDE DEF lost
    <2>6. J!Lost(lost)
      BY <2>1, <2>4, <2>5 DEF J!Lost
    <2> QED BY <2>4, <2>6 DEF J!JobNext
  <1>15. ASSUME NEW p \in Procs, Restart(p) PROVE [J!JobNext]_J!jvars
    <2>1. UNCHANGED <<driver, attempt, wakes, item>>
      BY <1>15 DEF Restart, ledger, chat
    <2>2. CASE row.st \in Live
      BY <1>15, <2>1, <2>2, StopsStep DEF Restart
    <2>3. CASE row.st \notin Live
      BY <1>15, <2>1, <2>3, Unseen DEF Restart, Phase, Results, Due
    <2> QED BY <2>2, <2>3
  <1>16. ASSUME NEW a \in Attempts, ReportRunning(a) PROVE [J!JobNext]_J!jvars
    <2>1. row' = [row EXCEPT !.st = "running"] /\ UNCHANGED <<driver, attempt, wakes, item>>
      BY <1>16 DEF ReportRunning, ledger, chat
    <2>2. row.st \in Live /\ row'.st \in Live /\ row'.woken = row.woken
      BY <1>16, <2>1, Bounds DEF ReportRunning, Heard, Passes, Typed, RowTyped, RowFine, Rows, Live
    <2>3. Phase = "live" /\ Phase' = "live"
      BY <2>2, PhaseOf, PhaseOfNext DEF PhaseWords, Typed
    <2> QED BY <2>1, <2>2, <2>3, Unseen DEF Results, Due
  <1>17. ASSUME NEW a \in Attempts, Fetch(a) PROVE [J!JobNext]_J!jvars
    <2>1. UNCHANGED <<row, attempt, driver, wakes>>
          /\ item' = [i \in Items |-> IF item[i] = "absent" THEN "pending" ELSE item[i]]
      BY <1>17 DEF Fetch, chat
    <2>2. Results' = Results
      BY <2>1 DEF Results
    <2> QED BY <2>1, <2>2, Unseen DEF Phase, Due
  <1>18. ASSUME NEW a \in Attempts, ReportEnd(a) PROVE [J!JobNext]_J!jvars
    <2>1. row' = Finished(runner[a].out) /\ UNCHANGED <<driver, attempt, wakes, item>>
      BY <1>18 DEF ReportEnd, ledger, chat
    <2>2. attempt # 0
      BY <1>18, Bounds DEF ReportEnd, Heard, Passes, Typed, RowTyped, RowFine
    <2>3. runner[a].out \in Verdicts
      BY <1>18 DEF ReportEnd, Typed, RunnersTyped, Verdicts
    <2> QED BY <2>1, <2>2, <2>3, EndsUnannounced DEF Due
  <1>19. ASSUME NEW a \in Attempts, NEW i \in Items, Book(a, i) PROVE
    [J!JobNext]_J!jvars
    <2>1. /\ UNCHANGED <<row, attempt, driver, wakes>> /\ a = attempt /\ runner[a].pc = "mapping"
          /\ \/ item' = [item EXCEPT ![i] = "done"]
             \/ runner[a].work[i] = "bad" /\ item' = [item EXCEPT ![i] = "failed"]
      BY <1>19 DEF Book, Heard, Passes, chat, Typed, RowTyped, RowFine, Attempts
    <2>2. runner[a].work[i] = "bad" => item[i] # "done"
      BY <2>1, Bounds DEF Hand, OneHolder, Held, Typed
    <2> QED BY <2>1, <2>2, ItemSettled
  <1>20. ASSUME NEW a \in Attempts, NEW i \in Items, NEW p \in Procs, AgentBegin(a, i,
    p) PROVE [J!JobNext]_J!jvars
    <2>1. /\ UNCHANGED <<row, attempt, driver, wakes>> /\ a = attempt /\ runner[a].pc = "mapping"
          /\ runner[a].work[i] \in {"todo", "again"} /\ item' = [item EXCEPT ![i] = "running"]
      BY <1>20 DEF AgentBegin, Calls, Passes, chat, Typed, RowTyped, RowFine, Attempts
    <2>2. item[i] # "done"
      BY <2>1, Bounds DEF Hand, OneHolder, Held, Typed
    <2> QED BY <2>1, <2>2, ItemSettled
  <1>21. ASSUME NEW c \in call, NEW ok \in BOOLEAN, AgentEnd(c, ok) PROVE
    [J!JobNext]_J!jvars
    <2>1. /\ UNCHANGED <<row, attempt, driver, wakes>> /\ c.item \in Items
          /\ item' = [item EXCEPT ![c.item] = IF ok THEN "done" ELSE "failed"]
      BY <1>21 DEF AgentEnd, chat, Typed, LedgerTyped, Request
    <2>2. item[c.item] # "done"
      BY DEF Hand, CallsRun
    <2> QED BY <2>1, <2>2, ItemSettled
  <1>22. ASSUME NEW c \in call, GiveUp(c) PROVE [J!JobNext]_J!jvars
    BY <1>22 DEF GiveUp
  <1>23. ASSUME NEW p \in Procs, TurnBegins(p)
       PROVE  UNCHANGED <<row, attempt, driver, wakes, item>>
    BY <1>23 DEF TurnBegins, ledger, sandbox, chat
  <1>24. ASSUME TurnEnds \/ LaunchFails \/ TurnAborted \/ WaitReturns \/ WaitTimer \/
    Silence
       PROVE  UNCHANGED <<row, attempt, driver, wakes, item>>
    BY <1>24 DEF TurnEnds, LaunchFails, TurnAborted, Begun, WaitReturns, WaitTimer,
      Silence, ledger, sandbox, chat
  <1>25. ASSUME NEW d \in Attempts, ProgressWake(d)
       PROVE  UNCHANGED <<row, attempt, driver, wakes, item>>
    BY <1>25 DEF ProgressWake, ledger, sandbox, chat
  <1>26. ASSUME NEW a \in Attempts, ScriptEnds(a) \/ FencedExit(a) \/ ReportLost(a) \/
    RunnerKilled(a) \/ Hang(a)
       PROVE  UNCHANGED <<row, attempt, driver, wakes, item>>
    BY <1>26 DEF ScriptEnds, FencedExit, Gone, ReportLost, RunnerKilled, Hang, ledger,
      sandbox, chat
  <1>27. ASSUME UNCHANGED <<row, attempt, driver, wakes, item>> PROVE [J!JobNext]_J!jvars
    BY <1>27, Unseen DEF Phase, Due, Results
  <1>28. QED
    BY <1>1, <1>2, <1>3, <1>4, <1>5, <1>6, <1>7, <1>8, <1>9, <1>10, <1>11, <1>12,
      <1>13, <1>14, <1>15, <1>16, <1>17, <1>18, <1>19, <1>20, <1>21, <1>22, <1>23,
      <1>24, <1>25, <1>26, <1>27 DEF Next, Chat, DriverStep, RunnerStep, AnyAgentEnd

\* job_service.py, job_runtime.py, job_wakeup.py: whatever is resumed, cancelled, killed or lost, the
\* runtime keeps JobPromise.  A script that gives up on a call, or that fails an item of its own
\* accord, may take a result back, and one that seeds nothing completes without any.
THEOREM RuntimeImplementsJob ==
    ASSUME "slow" \notin Disturbances, "script" \notin Disturbances, Items # {}
    PROVE  Spec => ImplementsJob
  <1>1. Init => J!JobInit
    <2> SUFFICES ASSUME Init PROVE J!JobInit
      OBVIOUS
    <2>1. Phase = "none" /\ row.woken = FALSE /\ attempt = 0
      <3>1. row = [st |-> "absent", token |-> 0, woken |-> FALSE, wake |-> FALSE] /\ attempt = 0
        BY DEF Init
      <3>2. row.st = "absent"
        BY <3>1
      <3>3. row.woken = FALSE
        BY <3>1, Zenon
      <3>4. Phase = "none"
        BY <3>2, JobAssumption, TypedInit, PhaseOf DEF PhaseWords, Typed
      <3> QED BY <3>1, <3>3, <3>4
    <2>2. Due = {}
      BY DEF Init, NoDriver, Due
    <2>3. Results = {}
      BY DEF Init, Results
    <2>4. wakes = [a \in Attempts |-> 0]
      BY DEF Init
    <2> QED BY <2>1, <2>2, <2>3, <2>4 DEF J!JobInit
  <1>2. WokenInv /\ HandInv /\ EarnedInv /\ WokenInv' /\ [Next]_vars => [J!JobNext]_J!jvars
    <2>1. WokenInv /\ HandInv /\ EarnedInv /\ WokenInv' /\ Next => [J!JobNext]_J!jvars
      BY JobAssumption, VerdictStep, PromiseStep DEF WokenInv, HandInv, EarnedInv
    <2>2. UNCHANGED vars => UNCHANGED J!jvars
      BY DEF vars, ledger, chat, J!jvars, Phase, Due, Results
    <2> QED BY <2>1, <2>2
  <1>3. Spec => []HandInv
    BY HandAlways
  <1> QED BY <1>1, <1>2, <1>3, WokenAlways, EarnedAlways, PTL DEF Spec, ImplementsJob, J!JobSpec

=============================================================================
