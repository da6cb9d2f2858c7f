----------------------------- MODULE JobRuntime -----------------------------
(***************************************************************************)
(* A batch job: a script the agent has written runs detached in a sandbox   *)
(* and calls back, with a token, for its ledger of work items and for       *)
(* judgements by sub-agents.                                                *)
(*                                                                         *)
(*   orchestration/job_runtime.py        drivers, cancel, resume, reaper;   *)
(*                                       the SDK and the runner it injects  *)
(*   core/services/job_service.py        the row, its token, the ledger     *)
(*   orchestration/job_wakeup.py         the run that tells the chat        *)
(*   api/routes/v1/internal_jobs.py      the callbacks                      *)
(*   core/llm/tools/job_tool.py          run_job, the tool                  *)
(*                                                                         *)
(* One job, of one chat.  An attempt is a launch of the script, with a token *)
(* of its own; the driver an attempt brought along has its number.  A driver *)
(* is an asyncio task of one process, and only that process knows of it.    *)
(* What a process does without an await is one action, except for the       *)
(* wake-up, which commits twice.                                            *)
(***************************************************************************)
EXTENDS Naturals, FiniteSets

CONSTANTS
    Items,        \* the work items the script seeds
    Procs,        \* server processes
    None,
    Disturbances, \* the kinds of fault and outside event that may happen
    MaxAttempts,  \* bound on launches
    MaxCrashes    \* bound on crashes

Kinds == {"abort", "cancel", "clock", "crash", "hang", "infra", "kill", "launch",
          "probe", "report", "script", "slow", "tick"}

Attempts == 1 .. MaxAttempts
Terminal == {"completed", "failed", "cancelled"}
Live     == {"pending", "running"}
Verdicts == {"completed", "failed", "cancelled"}

ASSUME JobAssumption ==
    /\ Disturbances \subseteq Kinds
    /\ MaxAttempts \in Nat /\ MaxCrashes \in Nat
    /\ None \notin Procs \cup Verdicts

VARIABLES
    row,      \* jobs: status, token (its attempt, 0 for none), woken_at, wake_on_finish
    attempt,  \* tokens minted so far
    item,     \* job_items
    runner,   \* the process of each attempt in the sandbox, and its work
    marker,   \* lifecycle.final, in the one directory of the job
    call,     \* requests to /agent that a process is working on
    driver,   \* the driving task that each attempt brought along
    active,   \* _active_jobs of each process: the entry of this job
    turn,     \* the chat run that holds the writer slot of the chat
    up,       \* live processes
    quiet,    \* updated_at is older than the limits of the reaper
    still,    \* calls and settled items have not changed for _SILENT_TIMEOUT_S
    clean,    \* attempts whose script ran to its end
    told,     \* attempts whose end the chat was told
    refused,  \* attempts whose wake-up the chat refused
    wakes,    \* runs that announce the end of each attempt, up to 2
    crashes

ledger == <<item, call>>
sandbox == <<runner, marker, clean>>
chat == <<turn, told, refused, wakes>>
vars == <<row, attempt, ledger, sandbox, driver, active, chat, up, quiet, still, crashes>>

RunnerUp == {"started", "running", "mapping", "ended", "hung"}

Rows == [st: {"absent", "interrupted"} \cup Live \cup Terminal,
         token: 0 .. MaxAttempts, woken: BOOLEAN, wake: BOOLEAN]

RowOK ==
    /\ row \in Rows
    /\ row.token # 0 <=> row.st \in Live
    /\ row.token \in {0, attempt}
    /\ attempt \in 0 .. MaxAttempts

SandboxOK ==
    /\ item \in [Items -> {"absent", "pending", "running", "done", "failed"}]
    /\ runner \in [Attempts -> [pc: {"none", "gone"} \cup RunnerUp,
                                out: {None, "completed", "failed"},
                                work: [Items -> {"no", "todo", "calling", "again",
                                                 "recalling", "ok", "bad", "booked"}]]]
    /\ marker \in {None, "completed", "failed"}
    /\ call \subseteq [by: Attempts, item: Items, at: Procs, heard: BOOLEAN]
    /\ clean \subseteq Attempts

DriversOK ==
    /\ driver \in [Attempts -> [pc: {"off", "poll", "probe", "wake"},
                                at: Procs \cup {None},
                                seen: {None} \cup Verdicts, about: 0 .. MaxAttempts]]
    /\ active \in [Procs -> 0 .. MaxAttempts]
    /\ \A p \in Procs : active[p] # 0 => up[p] /\ driver[active[p]].at = p

ChatOK ==
    /\ turn \in [pc: {"none", "talking", "launching", "waiting", "timeout"},
                 at: Procs \cup {None}, wait: BOOLEAN, of: 0 .. MaxAttempts]
    /\ turn.pc # "none" => turn.at \in Procs /\ up[turn.at]
    /\ told \subseteq Attempts /\ refused \subseteq Attempts
    /\ wakes \in [Attempts -> 0 .. 2]

JobTypeOK ==
    /\ RowOK /\ SandboxOK /\ DriversOK /\ ChatOK
    /\ up \in [Procs -> BOOLEAN]
    /\ quiet \in BOOLEAN /\ still \in BOOLEAN
    /\ crashes \in 0 .. MaxCrashes

NoTurn   == [pc |-> "none", at |-> None, wait |-> FALSE, of |-> 0]
Talks(p) == [pc |-> "talking", at |-> p, wait |-> FALSE, of |-> 0]
NoDriver == [pc |-> "off", at |-> None, seen |-> None, about |-> 0]
Driving(p) == [NoDriver EXCEPT !.pc = "poll", !.at = p]

Init ==
    /\ row = [st |-> "absent", token |-> 0, woken |-> FALSE, wake |-> FALSE]
    /\ attempt = 0
    /\ item = [i \in Items |-> "absent"]
    /\ runner = [a \in Attempts |-> [pc |-> "none", out |-> None,
                                     work |-> [i \in Items |-> "no"]]]
    /\ marker = None
    /\ call = {}
    /\ driver = [a \in Attempts |-> NoDriver]
    /\ active = [p \in Procs |-> 0]
    /\ turn = NoTurn
    /\ up = [p \in Procs |-> TRUE]
    /\ quiet = FALSE /\ still = FALSE
    /\ clean = {} /\ told = {} /\ refused = {}
    /\ wakes = [a \in Attempts |-> 0]
    /\ crashes = 0

-----------------------------------------------------------------------------
(* The row. *)

\* Not between the two transactions of a wake-up: no await lies there.
Idle(p) == up[p] /\ \A a \in Attempts : driver[a].at = p => driver[a].pc # "wake"

\* A script that exits with 0 but leaves a ledger without any result has failed.
Outcome(v) ==
    IF v = "completed" /\ (\E i \in Items : item[i] # "absent")
                       /\ (\A i \in Items : item[i] # "done")
    THEN "failed" ELSE v

\* Deviation: the token outlives the job.
FinishedKeepsToken(v) ==
    IF row.st \in Terminal THEN row ELSE [row EXCEPT !.st = Outcome(v)]

\* Deviation: a verdict that comes late replaces the one there is.
FinishedAgain(v) == [row EXCEPT !.st = Outcome(v), !.token = 0]

\* JobService.finish
Finished(v) ==
    IF row.st \in Terminal THEN row ELSE [row EXCEPT !.st = Outcome(v), !.token = 0]

\* Deviation: the mark is left to whoever is told.
WakeableAgain(r) == r.st \in Terminal /\ r.wake

\* The checks of wake_on_job_finish.
Wakeable(r) == r.st \in Terminal /\ r.wake /\ ~r.woken

EndOf(d) == /\ driver' = [driver EXCEPT ![d] = [NoDriver EXCEPT !.at = driver[d].at]]
            /\ active' = [active EXCEPT ![driver[d].at] = 0]

\* _maybe_wake, on the row r the driver has just left: first the mark.
WakeFrom(d, r) ==
    IF Wakeable(r)
    THEN /\ row' = [r EXCEPT !.woken = TRUE]
         /\ driver' = [driver EXCEPT ![d].pc = "wake", ![d].seen = None,
                                     ![d].about = attempt]
         /\ UNCHANGED active
    ELSE row' = r /\ EndOf(d)

\* JobService.verify_token
Passes(a) == row.token = a /\ row.st \notin Terminal

-----------------------------------------------------------------------------
(* The conversation. *)

TurnBegins(p) ==
    /\ turn.pc = "none" /\ Idle(p)
    /\ turn' = Talks(p)
    /\ UNCHANGED <<row, attempt, ledger, sandbox, driver, active, told, refused, wakes, up,
                   quiet, still, crashes>>

TurnEnds ==
    /\ turn.pc = "talking"
    /\ turn' = NoTurn
    /\ UNCHANGED <<row, attempt, ledger, sandbox, driver, active, told, refused, wakes, up,
                   quiet, still, crashes>>

\* run_job(action="start"): the row is there before the script is launched.
Start(wait) ==
    /\ turn.pc = "talking" /\ Idle(turn.at)
    /\ attempt = 0 /\ MaxAttempts > 0
    /\ row' = [st |-> "pending", token |-> 1, woken |-> FALSE, wake |-> ~wait]
    /\ attempt' = 1
    /\ turn' = [turn EXCEPT !.pc = "launching", !.wait = wait, !.of = 1]
    /\ quiet' = FALSE /\ still' = FALSE
    /\ UNCHANGED <<ledger, sandbox, driver, active, told, refused, wakes, up, crashes>>

\* Deviation: the mark of the last wake-up stays.
ReopenedMarked(r, a) == [r EXCEPT !.st = "pending", !.token = a]

Reopened(r, a) == [r EXCEPT !.st = "pending", !.token = a, !.woken = FALSE]

\* run_job(action="resume"), resume_job: refused if it runs and this process drives it.
Resume(wait) ==
    /\ turn.pc = "talking" /\ Idle(turn.at)
    /\ attempt \in 1 .. MaxAttempts - 1
    /\ ~(row.st = "running" /\ active[turn.at] # 0)
    /\ "probe" \notin Disturbances => \A a \in Attempts : driver[a].pc # "probe"
    /\ row' = Reopened(row, attempt + 1)
    /\ attempt' = attempt + 1
    /\ turn' = [turn EXCEPT !.pc = "launching", !.wait = wait, !.of = attempt + 1]
    /\ quiet' = FALSE
    /\ UNCHANGED <<ledger, sandbox, driver, active, told, refused, wakes, up, still, crashes>>

Begun(a) == runner' = [runner EXCEPT ![a].pc = "started"]

\* prepare_and_launch has returned; then run_and_wait, whose task takes the entry
\* of _active_jobs, or spawn_background, which leaves a job that has one alone.
Launched ==
    LET p == turn.at  a == turn.of IN
    /\ turn.pc = "launching" /\ Idle(p)
    /\ Begun(a)
    /\ IF turn.wait \/ active[p] = 0
       THEN /\ driver' = [driver EXCEPT ![a] = Driving(p)]
            /\ active' = [active EXCEPT ![p] = a]
            /\ still' = FALSE
       ELSE UNCHANGED <<driver, active, still>>
    /\ turn' = IF turn.wait THEN [turn EXCEPT !.pc = "waiting"] ELSE Talks(p)
    /\ UNCHANGED <<row, attempt, ledger, marker, clean, told, refused, wakes, up, quiet, crashes>>

\* The probe of the callback address or the launch raises: the row stays as it is.
LaunchFails ==
    /\ turn.pc = "launching" /\ Idle(turn.at) /\ "launch" \in Disturbances
    /\ turn' = Talks(turn.at)
    /\ UNCHANGED <<row, attempt, ledger, sandbox, driver, active, told, refused, wakes, up,
                   quiet, still, crashes>>

\* The user stops the reply.  The driver is shielded; a launch may have begun.
TurnAborted ==
    /\ "abort" \in Disturbances
    /\ turn.pc \in {"launching", "waiting", "timeout"} /\ Idle(turn.at)
    /\ \/ UNCHANGED runner
       \/ turn.pc = "launching" /\ Begun(turn.of)
    /\ turn' = NoTurn
    /\ UNCHANGED <<row, attempt, ledger, marker, clean, driver, active, told, refused, wakes, up,
                   quiet, still, crashes>>

\* run_and_wait returns what the driver returned.
WaitReturns ==
    /\ turn.pc = "waiting" /\ Idle(turn.at) /\ driver[turn.of].pc = "off"
    /\ told' = told \cup {turn.of}
    /\ turn' = Talks(turn.at)
    /\ UNCHANGED <<row, attempt, ledger, sandbox, driver, active, refused, wakes, up, quiet,
                   still, crashes>>

\* _FOREGROUND_WAIT_CAP_S is over.  The timer of wait_for may fire in the very
\* turn of the event loop in which the driver looks at the row ("tick").
WaitTimer ==
    /\ "tick" \in Disturbances
    /\ turn.pc = "waiting" /\ Idle(turn.at) /\ driver[turn.of].pc # "off"
    /\ turn' = [turn EXCEPT !.pc = "timeout"]
    /\ UNCHANGED <<row, attempt, ledger, sandbox, driver, active, told, refused, wakes, up,
                   quiet, still, crashes>>

\* _detached_payload: from now on the job reports its end by a wake-up.
Detach ==
    /\ turn.pc \in {"waiting", "timeout"} /\ Idle(turn.at)
    /\ \/ turn.pc = "timeout"
       \/ turn.pc = "waiting" /\ driver[turn.of].pc # "off" /\ "tick" \notin Disturbances
    /\ row' = [row EXCEPT !.wake = TRUE]
    /\ turn' = Talks(turn.at)
    /\ quiet' = FALSE
    /\ UNCHANGED <<attempt, ledger, sandbox, driver, active, told, refused, wakes, up, still,
                   crashes>>

\* cancel_job, at any process.  Its pkill looks for the directory of the job in
\* command lines, and the runner's is "python3 _runner.py": nothing dies.
Cancel(p) ==
    LET d == active[p] IN
    /\ "cancel" \in Disturbances /\ Idle(p) /\ attempt > 0
    /\ row' = Finished("cancelled")
    /\ active' = [active EXCEPT ![p] = 0]
    /\ IF d = 0 THEN UNCHANGED <<driver, turn>>
       ELSE /\ driver' = [driver EXCEPT ![d] = [NoDriver EXCEPT !.at = p]]
            /\ turn' = IF turn.pc = "waiting" /\ turn.of = d THEN NoTurn ELSE turn
    /\ quiet' = FALSE
    /\ UNCHANGED <<attempt, ledger, sandbox, told, refused, wakes, up, still, crashes>>

-----------------------------------------------------------------------------
(* Drivers. *)

Polls(d) == driver[d].pc = "poll" /\ Idle(driver[d].at)

\* drive sees that the job has ended.
PollTerminal(d) ==
    /\ Polls(d) /\ row.st \in Terminal
    /\ WakeFrom(d, row)
    /\ UNCHANGED <<attempt, ledger, sandbox, chat, up, quiet, still, crashes>>

\* _enqueue_followup_run: the chat accepts a run that tells of the end ...
WakeAccepted(d) ==
    LET p == driver[d].at  a == driver[d].about IN
    /\ driver[d].pc = "wake" /\ turn.pc = "none"
    /\ turn' = Talks(p)
    /\ told' = told \cup {a}
    /\ wakes' = [wakes EXCEPT ![a] = IF @ = 2 THEN 2 ELSE @ + 1]
    /\ EndOf(d)
    /\ UNCHANGED <<row, attempt, ledger, sandbox, refused, up, quiet, still, crashes>>

\* ... or refuses it, since a run of the chat holds its writer slot.
WakeRefused(d) ==
    /\ driver[d].pc = "wake" /\ turn.pc # "none"
    /\ refused' = refused \cup {driver[d].about}
    /\ EndOf(d)
    /\ UNCHANGED <<row, attempt, ledger, sandbox, turn, told, wakes, up, quiet, still, crashes>>

\* wake_on_job_progress: only while the chat is free.
ProgressWake(d) ==
    /\ Polls(d) /\ row.st = "running" /\ row.wake /\ turn.pc = "none"
    /\ turn' = Talks(driver[d].at)
    /\ UNCHANGED <<row, attempt, ledger, sandbox, driver, active, told, refused, wakes, up,
                   quiet, still, crashes>>

\* max_seconds are over.  This ending calls nobody.
WallClock(d) ==
    /\ "clock" \in Disturbances
    /\ Polls(d) /\ row.st \notin Terminal
    /\ row' = Finished("failed") /\ EndOf(d)
    /\ quiet' = FALSE
    /\ UNCHANGED <<attempt, ledger, sandbox, chat, up, still, crashes>>

\* No call and no settled item for _SILENT_TIMEOUT_S.
Silent(d) ==
    /\ Polls(d) /\ row.st \notin Terminal /\ still
    /\ WakeFrom(d, Finished("failed"))
    /\ quiet' = FALSE
    /\ UNCHANGED <<attempt, ledger, sandbox, chat, up, still, crashes>>

\* Deviation: a runner that is gone without a verdict has completed.
MarkerReadAnyhow == {"completed"}

\* What _final_from_marker makes of the output of the probe: the marker has no end
\* of line, so that the log of the runner, if there is any, makes it unreadable.
MarkerRead == {"failed"} \cup (IF marker = None THEN {} ELSE {marker})

\* _runner_liveness: the shell looks for any runner in the sandbox.
ProbeSent(d) ==
    /\ Polls(d) /\ row.st \notin Terminal
    /\ \E a \in Attempts : runner[a].pc # "none"
    /\ \A a \in Attempts : runner[a].pc \notin RunnerUp
    /\ \E v \in MarkerRead :
           driver' = [driver EXCEPT ![d].pc = "probe", ![d].seen = v]
    /\ UNCHANGED <<row, attempt, ledger, sandbox, active, chat, up, quiet, still, crashes>>

\* The answer is there: what it says becomes the end of the job.
ProbeAnswered(d) ==
    /\ driver[d].pc = "probe" /\ Idle(driver[d].at)
    /\ WakeFrom(d, Finished(driver[d].seen))
    /\ quiet' = FALSE
    /\ UNCHANGED <<attempt, ledger, sandbox, chat, up, still, crashes>>

-----------------------------------------------------------------------------
(* Jobs without a driver; crashes. *)

Interrupted == [row EXCEPT !.st = "interrupted", !.token = 0]

\* Deviation: a job that never reported is left to its driver.
ReapRunning(p) ==
    /\ Idle(p) /\ active[p] = 0 /\ quiet /\ row.st = "running"
    /\ row' = Interrupted
    /\ quiet' = FALSE
    /\ UNCHANGED <<attempt, ledger, sandbox, driver, active, chat, up, still, crashes>>

\* reap_orphan_jobs.  Its _maybe_wake does nothing: the job has not ended.
Reap(p) ==
    /\ Idle(p) /\ active[p] = 0 /\ quiet /\ row.st \in Live
    /\ row' = Interrupted
    /\ quiet' = FALSE
    /\ UNCHANGED <<attempt, ledger, sandbox, driver, active, chat, up, still, crashes>>

\* The SDK tries again; here its six tries are two.
Retried(w) == IF w = "calling" THEN "again" ELSE "bad"

\* Requests die with their process; whoever still waits for one tries again.
Dropped(p) ==
    LET lost(a) == {c.item : c \in {e \in call : e.at = p /\ e.heard /\ e.by = a}}
    IN  [a \in Attempts |-> [runner[a] EXCEPT !.work =
            [i \in Items |-> IF i \in lost(a) THEN Retried(@[i]) ELSE @[i]]]]

Crash(p) ==
    /\ "crash" \in Disturbances /\ up[p] /\ crashes < MaxCrashes
    /\ up' = [up EXCEPT ![p] = FALSE]
    /\ crashes' = crashes + 1
    /\ driver' = [d \in Attempts |-> IF driver[d].at = p THEN [NoDriver EXCEPT !.at = p]
                                                         ELSE driver[d]]
    /\ active' = [active EXCEPT ![p] = 0]
    /\ turn' = IF turn.at = p THEN NoTurn ELSE turn
    /\ call' = {c \in call : c.at # p}
    /\ \/ runner' = Dropped(p)
       \/ /\ turn.pc = "launching" /\ turn.at = p
          /\ runner' = [Dropped(p) EXCEPT ![turn.of].pc = "started"]
    /\ UNCHANGED <<row, attempt, item, marker, clean, told, refused, wakes, quiet, still>>

\* resume_running_jobs: whatever is live counts as an orphan.
Restart(p) ==
    /\ ~up[p]
    /\ up' = [up EXCEPT ![p] = TRUE]
    /\ IF row.st \in Live THEN row' = Interrupted /\ quiet' = FALSE
       ELSE UNCHANGED <<row, quiet>>
    /\ UNCHANGED <<attempt, ledger, sandbox, driver, active, chat, still, crashes>>

-----------------------------------------------------------------------------
(* The runner of attempt a, and the callbacks it makes. *)

\* A callback of a that some process answers, and accepts.
Heard(a) == Passes(a) /\ \E p \in Procs : Idle(p)

Work(a, i, w) == runner' = [runner EXCEPT ![a].work[i] = w]

\* The runner's first report: mark_running.
ReportRunning(a) ==
    /\ runner[a].pc = "started" /\ Heard(a)
    /\ runner' = [runner EXCEPT ![a].pc = "running"]
    /\ row' = [row EXCEPT !.st = "running"]
    /\ quiet' = FALSE
    /\ UNCHANGED <<attempt, ledger, marker, clean, driver, active, chat, up, still, crashes>>

\* Deviation: items that are being worked on, and failed ones, are fetched too.
FetchUnsettled(a) ==
    /\ runner[a].pc = "running" /\ Heard(a)
    /\ item' = [i \in Items |-> IF item[i] = "absent" THEN "pending" ELSE item[i]]
    /\ runner' = [runner EXCEPT ![a].pc = "mapping",
                      ![a].work = [i \in Items |-> IF item[i] # "done" THEN "todo" ELSE "no"]]
    /\ UNCHANGED <<row, attempt, marker, call, clean, driver, active, chat, up, quiet, still,
                   crashes>>

\* ledger.seed, which leaves the items that exist alone, and ledger.pending.
Fetch(a) ==
    /\ runner[a].pc = "running" /\ Heard(a)
    /\ item' = [i \in Items |-> IF item[i] = "absent" THEN "pending" ELSE item[i]]
    /\ runner' = [runner EXCEPT ![a].pc = "mapping",
                      ![a].work = [i \in Items |-> IF item'[i] = "pending" THEN "todo" ELSE "no"]]
    /\ UNCHANGED <<row, attempt, marker, call, clean, driver, active, chat, up, quiet, still,
                   crashes>>

Calls(a, i, p) ==
    /\ runner[a].pc = "mapping" /\ runner[a].work[i] \in {"todo", "again"}
    /\ Passes(a) /\ Idle(p)
    /\ call' = call \cup {[by |-> a, item |-> i, at |-> p, heard |-> TRUE]}
    /\ Work(a, i, IF runner[a].work[i] = "todo" THEN "calling" ELSE "recalling")

\* job_agent up to its first await.
AgentBegin(a, i, p) ==
    /\ Calls(a, i, p)
    /\ item' = [item EXCEPT ![i] = "running"]
    /\ UNCHANGED <<row, attempt, marker, clean, driver, active, chat, up, quiet, still, crashes>>

\* The sub-agent has ended: usage and item are written whatever became of the job.
\* Tools that all failed or an answer that fits no schema ("infra") are no result: the
\* item is failed, and of the two the SDK tries the first again.
AgentEnd(c, ok) ==
    /\ c \in call /\ Idle(c.at)
    /\ ok \/ "infra" \in Disturbances
    /\ call' = call \ {c}
    /\ item' = [item EXCEPT ![c.item] = IF ok THEN "done" ELSE "failed"]
    /\ IF c.heard /\ runner[c.by].pc = "mapping"
       THEN \E w \in IF ok THEN {"ok"} ELSE {"bad", Retried(runner[c.by].work[c.item])} :
                Work(c.by, c.item, w)
       ELSE UNCHANGED runner
    /\ quiet' = FALSE /\ still' = FALSE
    /\ UNCHANGED <<row, attempt, marker, clean, driver, active, chat, up, crashes>>

\* The SDK's time-out: it tries again, and the first request goes on unheard.
GiveUp(c) ==
    /\ "slow" \in Disturbances
    /\ c \in call /\ c.heard /\ runner[c.by].pc = "mapping"
    /\ call' = (call \ {c}) \cup {[c EXCEPT !.heard = FALSE]}
    /\ Work(c.by, c.item, Retried(runner[c.by].work[c.item]))
    /\ UNCHANGED <<row, attempt, item, marker, clean, driver, active, chat, up, quiet, still,
                   crashes>>

\* job.map books the item at once; what the script makes of an answer may be an
\* exception of its own ("script").
Book(a, i) ==
    /\ runner[a].pc = "mapping" /\ Heard(a)
    /\ runner[a].work[i] \in {"ok", "bad"}
    /\ \/ runner[a].work[i] = "ok" /\ item' = [item EXCEPT ![i] = "done"]
       \/ /\ runner[a].work[i] = "bad" \/ "script" \in Disturbances
          /\ item' = [item EXCEPT ![i] = "failed"]
    /\ Work(a, i, "booked")
    /\ still' = FALSE
    /\ UNCHANGED <<row, attempt, marker, call, clean, driver, active, chat, up, quiet, crashes>>

\* The script returns, or raises ("script").
ScriptEnds(a) ==
    /\ runner[a].pc = "mapping"
    /\ \A i \in Items : runner[a].work[i] \in {"no", "booked"}
    /\ \/ /\ runner' = [runner EXCEPT ![a].pc = "ended", ![a].out = "completed"]
          /\ clean' = clean \cup {a}
       \/ /\ "script" \in Disturbances
          /\ runner' = [runner EXCEPT ![a].pc = "ended", ![a].out = "failed"]
          /\ UNCHANGED clean
    /\ UNCHANGED <<row, attempt, ledger, marker, driver, active, chat, up, quiet, still, crashes>>

Gone(a) == runner' = [runner EXCEPT ![a].pc = "gone"]

\* _report.
ReportEnd(a) ==
    /\ runner[a].pc = "ended" /\ Heard(a)
    /\ row' = Finished(runner[a].out)
    /\ Gone(a)
    /\ quiet' = FALSE
    /\ UNCHANGED <<attempt, ledger, marker, clean, driver, active, chat, up, still, crashes>>

\* No try gets through ("report"): the verdict goes to a file.  A runner that
\* cannot report that it runs dies at once.
ReportLost(a) ==
    /\ "report" \in Disturbances
    /\ \/ runner[a].pc = "ended" /\ marker' = runner[a].out
       \/ runner[a].pc = "started" /\ UNCHANGED marker
    /\ Gone(a)
    /\ UNCHANGED <<row, attempt, ledger, clean, driver, active, chat, up, quiet, still, crashes>>

\* The callbacks of a are refused: it ends on its own.  A script that is mapping
\* takes every refusal for a failed item and comes to its end.
FencedExit(a) ==
    /\ ~Passes(a)
    /\ \/ runner[a].pc = "started" /\ UNCHANGED <<marker, clean>>
       \/ runner[a].pc = "running" /\ marker' = "failed" /\ UNCHANGED clean
       \/ /\ runner[a].pc = "mapping" /\ \A c \in call : c.by = a => ~c.heard
          /\ \/ marker' = "failed" /\ UNCHANGED clean
             \/ marker' = "completed" /\ clean' = clean \cup {a}
       \/ runner[a].pc = "ended" /\ marker' = runner[a].out /\ UNCHANGED clean
    /\ Gone(a)
    /\ UNCHANGED <<row, attempt, ledger, driver, active, chat, up, quiet, still, crashes>>

\* The sandbox takes the process away.
RunnerKilled(a) ==
    /\ "kill" \in Disturbances /\ runner[a].pc \in RunnerUp
    /\ Gone(a)
    /\ UNCHANGED <<row, attempt, ledger, marker, clean, driver, active, chat, up, quiet, still,
                   crashes>>

\* The script stops calling, and lives.
Hang(a) ==
    /\ "hang" \in Disturbances /\ runner[a].pc \in {"started", "running", "mapping"}
    /\ runner' = [runner EXCEPT ![a].pc = "hung"]
    /\ UNCHANGED <<row, attempt, ledger, marker, clean, driver, active, chat, up, quiet, still,
                   crashes>>

\* Time passes, and nobody has anything to write.
Silence ==
    /\ row.st \notin Terminal \cup {"absent"}
    /\ call = {} /\ turn.pc # "launching"
    /\ runner[attempt].pc \in {"none", "gone", "hung"}
    /\ ~(quiet /\ still)
    /\ quiet' = TRUE /\ still' = TRUE
    /\ UNCHANGED <<row, attempt, ledger, sandbox, driver, active, chat, up, crashes>>

-----------------------------------------------------------------------------
DriverStep(d) == PollTerminal(d) \/ WakeAccepted(d) \/ WakeRefused(d) \/ Silent(d)
                 \/ ProbeSent(d) \/ ProbeAnswered(d)

RunnerStep(a) ==
    \/ ReportRunning(a) \/ Fetch(a) \/ ScriptEnds(a) \/ ReportEnd(a) \/ FencedExit(a)
    \/ \E i \in Items : Book(a, i) \/ \E p \in Procs : AgentBegin(a, i, p)

AnyAgentEnd == \E c \in call, ok \in BOOLEAN : AgentEnd(c, ok)

Chat == \/ \E p \in Procs : TurnBegins(p) \/ Cancel(p)
        \/ \E wait \in BOOLEAN : Start(wait) \/ Resume(wait)
        \/ TurnEnds \/ Launched \/ LaunchFails \/ TurnAborted
        \/ WaitReturns \/ WaitTimer \/ Detach

Next ==
    \/ Chat
    \/ \E d \in Attempts : DriverStep(d) \/ ProgressWake(d) \/ WallClock(d)
    \/ \E p \in Procs : Reap(p) \/ Crash(p) \/ Restart(p)
    \/ \E a \in Attempts : RunnerStep(a) \/ ReportLost(a) \/ RunnerKilled(a) \/ Hang(a)
    \/ AnyAgentEnd
    \/ \E c \in call : GiveUp(c)
    \/ Silence

Spec == Init /\ [][Next]_vars

\* The event loops go round, drivers poll, the reaper comes by, a process that died is
\* started again, requests are answered and time passes.  Nobody has to ask for
\* anything, nor does a fault have to happen.
Fairness ==
    /\ \A d \in Attempts : WF_vars(DriverStep(d))
    /\ \A p \in Procs : WF_vars(Reap(p)) /\ WF_vars(Restart(p))
    /\ \A a \in Attempts : WF_vars(RunnerStep(a))
    /\ WF_vars(AnyAgentEnd) /\ WF_vars(Silence)
    /\ WF_vars(Launched \/ LaunchFails) /\ WF_vars(WaitReturns) /\ WF_vars(Detach)

FairSpec == Spec /\ Fairness

-----------------------------------------------------------------------------
(* Properties. *)

\* The end of an attempt starts at most one run that tells of it, whoever drives,
\* cancels, probes or resumes: jobs.metadata.woken_at.
WokenOnce == \A a \in Attempts : wakes[a] <= 1

\* At most one sub-agent works on an item, although a resumed script and the calls
\* of the one before it overlap: job_agent marks an item before it waits, and
\* ledger.pending hands out none that is marked.
ItemInOneHand == \A c, e \in call : c.item = e.item => c = e

\* A job completes only if a script came to its end and the ledger has a result,
\* through the report, and through the file the driver finds when it is lost.
CompletedWasEarned ==
    [][row.st # "completed" /\ row'.st = "completed"
           => clean # {} /\ \E i \in Items : item[i] = "done"]_vars

\* Whatever dies, a job does not stay pending or running.
JobEnds == row.st \in Live ~> row.st \notin Live

\* The session learns of the end of a background job, or refused to be told, or has
\* resumed it, as long as no process dies.
FinishedIsAnnounced ==
    \A a \in Attempts :
        attempt = a /\ row.st \in Terminal /\ row.wake
            ~> a \in told \cup refused \/ attempt # a \/ crashes > 0

\* core/llm/tools/job_tool.py:174-175, of wait = false: the session is woken when the
\* job has ended.  A job first run with wait = true and resumed with wait = false has
\* no wake_on_finish.
BackgroundIsAnnounced ==
    \A a \in Attempts :
        turn.pc = "launching" /\ turn.of = a /\ ~turn.wait
            ~> a \in told \cup refused \/ attempt # a

\* orchestration/job_runtime.py:662: the file a runner leaves is the last truth about
\* it.  A resume does not remove it, and the next runner may be judged by it.
VerdictIsCurrent ==
    [][row.st # "completed" /\ row'.st = "completed" => attempt \in clean]_vars

-----------------------------------------------------------------------------
(* What the chat sees of it: JobPromise. *)

Phase == CASE row.st = "absent"      -> "none"
           [] row.st \in Live        -> "live"
           [] row.st = "interrupted" -> "stopped"
           [] row.st = "cancelled"   -> "failed"
           [] OTHER                  -> row.st

Due == {driver[d].about : d \in {e \in Attempts : driver[e].pc = "wake"}}

Results == {i \in Items : item[i] = "done"}

J == INSTANCE JobPromise WITH
        epoch     <- attempt,
        phase     <- Phase,
        marked    <- row.woken,
        due       <- Due,
        announced <- wakes,
        results   <- Results

\* job_service.py, job_runtime.py, job_wakeup.py: over all its attempts a job ends
\* once each time, falls due for its announcement once each time, and keeps its results.
ImplementsJob == J!JobSpec
=============================================================================
