---------------------------- MODULE RunLifecycle ----------------------------
(***************************************************************************)
(* The life of a run (backend/app/orchestrator/runner.py): the row in      *)
(* Postgres, the asyncio task that executes it, the registry of running    *)
(* tasks each replica keeps (RUNNING_TASKS), and everything that may write *)
(* the row's status while the task runs: Stop on the same or another       *)
(* replica, the wall clock, the shutdown drain, a crash and the restart    *)
(* that follows, the dead-owner reaper and the stalled-run reaper.         *)
(*                                                                         *)
(* One step is one database transaction together with the code that runs   *)
(* without an await before and after it; a task can be cancelled between   *)
(* any two steps.  What a run computes is abstracted to its outcome.       *)
(***************************************************************************)
EXTENDS Naturals, FiniteSets

CONSTANTS
  Replica,        \* processes, by replica_id()
  Run,            \* rows of the runs table
  Task,           \* asyncio task slots; a finished slot is used again
  NoRun, NoTask, NoReplica,
  MaxConcurrent,  \* setting run_max_concurrent
  WallClockOn,    \* the run may outlive run_wall_clock_s
  AmbientOn,      \* setting ambient_enabled: the stalled-run reaper ticks
  MaxSpare,       \* bounds on how often a pause is answered once more,
  MaxCrash, MaxDrain, MaxCancel, MaxPause, \* on how often these happen,
  MaxEvents       \* and on how often they happen altogether

ASSUME ConstantsAssumption ==
  /\ NoRun \notin Run /\ NoTask \notin Task /\ NoReplica \notin Replica
  /\ MaxConcurrent \in Nat \ {0}
  /\ {WallClockOn, AmbientOn} \subseteq BOOLEAN
  /\ {MaxSpare, MaxCrash, MaxDrain, MaxCancel, MaxPause, MaxEvents} \subseteq Nat

VARIABLES
  status,     \* runs.status; "none" before the insert, "deleted" after the delete
  owner,      \* runs.owner_replica
  cancelReq,  \* runs.cancel_requested_at is set
  stale,      \* runs.last_heartbeat_at is older than run_stall_after_s
  answered,   \* now: a decision was posted for the current pause; spare: how many
              \* were posted, over all pauses, when one had been posted already
  pc,         \* where each task is in bounded_execute / _execute
  job,        \* what it was started with: the run, the replica, resume or not
  beating,    \* tasks whose _heartbeat still runs
  awaiting,   \* tasks a cancel_local call waits for
  silent,     \* runs one of whose tasks ended with its outcome unwritten (history)
  reg,        \* RUNNING_TASKS of each replica
  phase,      \* up, draining, cancelling (grace is over), down
  lapsed,     \* replicas whose row in `replicas` is gone or too old
  snapshot,   \* the tasks drain_running_tasks took from RUNNING_TASKS
  toStart,    \* create_run returned, start_run_task not called yet
  finalizing, \* cancel_run is past its checks, its write is still to come
  reaping,    \* rows reap_stalled_runs has selected, not written yet
  notices,    \* cancel notifications still to be delivered, by replica
  spent       \* what the bounds have used up

row  == <<status, owner, cancelReq, stale, answered>>
proc == <<phase, lapsed, snapshot>>
work == <<toStart, finalizing, reaping, notices>>
vars == <<row, pc, job, beating, awaiting, silent, reg, proc, work, spent>>

Terminal == {"completed", "failed", "cancelled", "stalled"}
Status   == Terminal \cup {"none", "queued", "running", "paused_hitl", "deleted"}
\* the places where a task holds its admission slot
Holding  == {"start", "pre", "body", "announce", "parked", "failing",
             "cancelling", "overrun", "timing"}
PC       == Holding \cup {"idle", "load", "wait", "qcancel", "ended"}
NoJob    == [run |-> NoRun, at |-> NoReplica, resume |-> FALSE]

Init ==
  /\ status = [r \in Run |-> "none"]
  /\ owner = [r \in Run |-> NoReplica]
  /\ cancelReq = [r \in Run |-> FALSE]
  /\ stale = [r \in Run |-> FALSE]
  /\ answered = [r \in Run |-> [now |-> FALSE, spare |-> 0]]
  /\ pc = [t \in Task |-> "idle"]
  /\ job = [t \in Task |-> NoJob]
  /\ beating = {} /\ awaiting = {} /\ silent = {}
  /\ reg = [p \in Replica |-> [r \in Run |-> NoTask]]
  /\ phase = [p \in Replica |-> "up"]
  /\ lapsed = {}
  /\ snapshot = [p \in Replica |-> {}]
  /\ toStart = {} /\ finalizing = {} /\ reaping = {} /\ notices = {}
  /\ spent = [crash |-> 0, drain |-> 0, cancel |-> 0, pause |-> 0, spare |-> 0]

Up(p)      == phase[p] = "up"
Alive(p)   == phase[p] # "down"
TasksOf(r) == {t \in Task : job[t].run = r}
Holders(p) == {t \in Task : job[t].at = p /\ pc[t] \in Holding}

\* The status set writes when a row is there to write; a deleted row stays so.
Written(r, s) == IF status[r] = "deleted" THEN status ELSE [status EXCEPT ![r] = s]

Spend(what, limit) == /\ spent[what] < limit
                      /\ spent.crash + spent.drain + spent.cancel + spent.pause + spent.spare
                           < MaxEvents
                      /\ spent' = [spent EXCEPT ![what] = @ + 1]

\* Where task.cancel() takes a task: CancelledError is raised at the await it
\* is in, and only some awaits have a handler that records the cancellation.
AfterCancel(at) ==
  CASE at = "wait"                           -> "qcancel"
    [] at \in {"body", "announce", "parked"} -> "cancelling"
    [] at = "idle"                           -> "idle"
    [] OTHER                                 -> "ended"

\* The places where a cancellation ends a task that still had something to write
Unheard == {"load", "qcancel", "start", "pre", "failing", "cancelling", "overrun", "timing"}

Cancel(T) == /\ pc' = [t \in Task |-> IF t \in T THEN AfterCancel(pc[t]) ELSE pc[t]]
             /\ beating' = {t \in beating : t \in T => AfterCancel(pc[t]) # "ended"}
             /\ silent' = silent \cup {job[t].run : t \in {u \in Task \cap T : pc[u] \in Unheard}}

-----------------------------------------------------------------------------
(* Requests *)

\* create_run: the row is inserted as queued, owned by the creating replica.
Create(p, r) ==
  /\ Up(p) /\ status[r] = "none"
  /\ status' = [status EXCEPT ![r] = "queued"]
  /\ owner' = [owner EXCEPT ![r] = p]
  /\ toStart' = toStart \cup {<<p, r>>}
  /\ UNCHANGED <<cancelReq, stale, answered, pc, job, beating, awaiting, silent, reg, proc,
                 finalizing, reaping, notices, spent>>

\* retry_run: a new run from a failed one; the failed row is left alone.
Retry(p, failedRun, r) == status[failedRun] = "failed" /\ Create(p, r)

\* start_run_task: the registry entry of the run is replaced, whatever it held.
Launch(p, r, resume) == \E t \in Task :
  /\ pc[t] = "idle"
  /\ pc' = [pc EXCEPT ![t] = "load"]
  /\ job' = [job EXCEPT ![t] = [run |-> r, at |-> p, resume |-> resume]]
  /\ reg' = [reg EXCEPT ![p][r] = t]

Start(p, r) ==
  /\ <<p, r>> \in toStart
  /\ Launch(p, r, FALSE)
  /\ toStart' = toStart \ {<<p, r>>}
  /\ UNCHANGED <<row, beating, awaiting, silent, proc, finalizing, reaping, notices, spent>>

\* A decision is posted for the pause, the first or, read before the task of
\* the first has written running, one more.
Answer(r) ==
  /\ answered' = [answered EXCEPT ![r] = [now |-> TRUE,
                                          spare |-> @.spare + (IF @.now THEN 1 ELSE 0)]]
  /\ IF answered[r].now THEN Spend("spare", MaxSpare) ELSE UNCHANGED spent

\* Mutant of Resume: the status of the run is not checked.
ResumeUnchecked(p, r) ==
  /\ Up(p) /\ status[r] # "none"
  /\ Answer(r)
  /\ Launch(p, r, TRUE)
  /\ UNCHANGED <<status, owner, cancelReq, stale, beating, awaiting, silent, proc, work>>

\* resume_run: checks the status, which the task it starts will only change
\* later.  owner_replica is not written: the run moves, its owner does not.
Resume(p, r) ==
  /\ Up(p) /\ status[r] = "paused_hitl"
  /\ Answer(r)
  /\ Launch(p, r, TRUE)
  /\ UNCHANGED <<status, owner, cancelReq, stale, beating, awaiting, silent, proc, work>>

\* cancel_run, the run has a task here: cancel it and wait for it.
CancelHere(p, r) ==
  /\ Up(p) /\ reg[p][r] # NoTask
  /\ Spend("cancel", MaxCancel)
  /\ Cancel({reg[p][r]})
  /\ awaiting' = awaiting \cup {reg[p][r]}
  /\ UNCHANGED <<row, job, reg, proc, work>>

\* cancel_run, no task here and the row is paused or ours: the handler goes on
\* to write the status itself, in a later transaction.
CancelRow(p, r) ==
  /\ Up(p) /\ reg[p][r] = NoTask
  /\ \/ status[r] = "paused_hitl"
     \/ status[r] \in {"running", "queued"} /\ owner[r] = p
  /\ Spend("cancel", MaxCancel)
  /\ finalizing' = finalizing \cup {<<p, r>>}
  /\ UNCHANGED <<row, pc, job, beating, awaiting, silent, reg, proc, toStart, reaping, notices>>

\* _finalize_failure called by cancel_run
FinalizeCancel(p, r) ==
  /\ <<p, r>> \in finalizing
  /\ status' = Written(r, "cancelled")
  /\ finalizing' = finalizing \ {<<p, r>>}
  /\ UNCHANGED <<owner, cancelReq, stale, answered, pc, job, beating, awaiting, silent, reg, proc,
                 toStart, reaping, notices, spent>>

\* cancel_run, the run belongs to another replica: the intent is recorded and
\* announced; the announcement reaches any subset of the replicas.
CancelElsewhere(p, r) ==
  /\ Up(p) /\ reg[p][r] = NoTask
  /\ status[r] \in {"running", "queued"} /\ owner[r] # p
  /\ Spend("cancel", MaxCancel)
  /\ cancelReq' = [cancelReq EXCEPT ![r] = TRUE]
  /\ \E Reached \in SUBSET {q \in Replica : Alive(q)} :
        notices' = notices \cup (Reached \X {r})
  /\ UNCHANGED <<status, owner, stale, answered, pc, job, beating, awaiting, silent, reg, proc,
                 toStart, finalizing, reaping>>

\* DELETE /runs/{id}: refused for a running row only.  (_execute and the
\* finalizers find no row afterwards and write nothing.)
Delete(p, r) ==
  /\ Up(p) /\ status[r] \notin {"none", "deleted", "running"}
  /\ status' = [status EXCEPT ![r] = "deleted"]
  /\ UNCHANGED <<owner, cancelReq, stale, answered, pc, job, beating, awaiting, silent, reg, proc,
                 work, spent>>

\* DELETE /runs: the whole history, whatever its status.
Purge(p) ==
  /\ Up(p)
  /\ status' = [r \in Run |-> IF status[r] = "none" THEN "none" ELSE "deleted"]
  /\ UNCHANGED <<owner, cancelReq, stale, answered, pc, job, beating, awaiting, silent, reg, proc,
                 work, spent>>

-----------------------------------------------------------------------------
(* The task: bounded_execute around _execute *)

Idle(t) == pc[t] = "idle"
Goto(t, at) == pc' = [pc EXCEPT ![t] = at]
Write(t, s) == status' = Written(job[t].run, s)

\* A step of t that changes nothing but its place and the row's status
Step(t, from, to) ==
  /\ pc[t] = from /\ Goto(t, to)
  /\ UNCHANGED <<owner, cancelReq, stale, job, awaiting, silent, reg, proc, work>>

\* Load the settings and the row; no row, no run.
Load(t) ==
  /\ Step(t, "load", IF status[job[t].run] = "deleted" THEN "ended" ELSE "wait")
  /\ UNCHANGED <<status, answered, beating, spent>>

\* admission.slot: the semaphore of the replica lets it through.
Acquire(t) ==
  /\ Cardinality(Holders(job[t].at)) < MaxConcurrent
  /\ Step(t, "wait", "start")
  /\ UNCHANGED <<status, answered, beating, spent>>

\* Cancelled before it had a slot: the handler of bounded_execute records it.
WriteQueuedCancel(t) ==
  /\ Step(t, "qcancel", "ended") /\ Write(t, "cancelled")
  /\ UNCHANGED <<answered, beating, spent>>

\* The slot is held: running, whatever the row says, and the heartbeat starts.
MarkRunning(t) ==
  /\ Step(t, "start", "pre") /\ Write(t, "running")
  /\ beating' = beating \cup {t}
  /\ UNCHANGED <<answered, spent>>

\* _execute up to its try; a resume writes running a second time.
Preamble(t) ==
  /\ LET gone == status[job[t].run] = "deleted" IN
     /\ Step(t, "pre", IF gone THEN "ended" ELSE "body")
     /\ beating' = IF gone THEN beating \ {t} ELSE beating
  /\ IF job[t].resume THEN Write(t, "running") ELSE UNCHANGED status
  /\ UNCHANGED <<answered, spent>>

\* The outcome: an answer, a gate, or an error.
Complete(t) ==
  /\ Step(t, "body", "announce") /\ Write(t, "completed")
  /\ UNCHANGED <<answered, beating, spent>>

Pause(t) ==
  /\ Step(t, "body", "parked") /\ Write(t, "paused_hitl")
  /\ answered' = [answered EXCEPT ![job[t].run].now = FALSE]
  /\ Spend("pause", MaxPause)
  /\ UNCHANGED beating

Fail(t) ==
  /\ Step(t, "body", "failing")
  /\ UNCHANGED <<status, answered, beating, spent>>

\* _finalize_failure in the handlers of _execute and of the wall clock
WriteFailed(t) ==
  /\ \E from \in {"failing", "timing"} : Step(t, from, "ended")
  /\ Write(t, "failed")
  /\ beating' = beating \ {t}
  /\ UNCHANGED <<answered, spent>>

WriteCancelled(t) ==
  /\ \/ Step(t, "cancelling", "ended") /\ beating' = beating \ {t}
     \/ Step(t, "overrun", "timing") /\ UNCHANGED beating
  /\ Write(t, "cancelled")
  /\ UNCHANGED <<answered, spent>>

\* After the commit of completed (control.notify is awaited) or of paused_hitl
Return(t) ==
  /\ \E from \in {"announce", "parked"} : Step(t, from, "ended")
  /\ beating' = beating \ {t}
  /\ UNCHANGED <<status, answered, spent>>

\* Mutant of Finish: start_run_task without the done callback.
FinishKeepsEntry(t) ==
  /\ pc[t] = "ended" /\ Goto(t, "idle")
  /\ job' = [job EXCEPT ![t] = NoJob]
  /\ awaiting' = awaiting \ {t}
  /\ snapshot' = [p \in Replica |-> snapshot[p] \ {t}]
  /\ UNCHANGED <<row, beating, silent, reg, phase, lapsed, work, spent>>

\* The done callback drops the registry entry of the run, not of the task.
Finish(t) ==
  /\ pc[t] = "ended" /\ Goto(t, "idle")
  /\ reg' = [reg EXCEPT ![job[t].at][job[t].run] = NoTask]
  /\ job' = [job EXCEPT ![t] = NoJob]
  /\ awaiting' = awaiting \ {t}
  /\ snapshot' = [p \in Replica |-> snapshot[p] \ {t}]
  /\ UNCHANGED <<row, beating, silent, phase, lapsed, work, spent>>

\* Mutant of WallClock: a resumed run is not put under the clock.
WallClockFirstHalf(t) ==
  /\ WallClockOn /\ ~job[t].resume
  /\ pc[t] \in {"pre", "body", "announce", "parked", "failing", "cancelling"}
  /\ Goto(t, CASE pc[t] \in {"pre", "failing"} -> "timing"
             [] pc[t] = "cancelling"         -> "ended"
             [] OTHER                        -> "overrun")
  /\ beating' = IF pc[t] = "cancelling" THEN beating \ {t} ELSE beating
  /\ silent' = IF pc[t] = "cancelling" THEN silent \cup {job[t].run} ELSE silent
  /\ UNCHANGED <<row, job, awaiting, reg, proc, work, spent>>

\* asyncio.wait_for over _execute runs out: _execute is cancelled, and when the
\* cancellation is not somebody else's the timeout is recorded as failed.
WallClock(t) ==
  /\ WallClockOn
  /\ pc[t] \in {"pre", "body", "announce", "parked", "failing", "cancelling"}
  /\ Goto(t, CASE pc[t] \in {"pre", "failing"} -> "timing"
             [] pc[t] = "cancelling"         -> "ended"
             [] OTHER                        -> "overrun")
  /\ beating' = IF pc[t] = "cancelling" THEN beating \ {t} ELSE beating
  /\ silent' = IF pc[t] = "cancelling" THEN silent \cup {job[t].run} ELSE silent
  /\ UNCHANGED <<row, job, awaiting, reg, proc, work, spent>>

\* cancel_local waits 10 s; asyncio.wait_for then cancels the task once more.
CancelAgain(t) ==
  /\ t \in awaiting /\ pc[t] \in {"qcancel", "cancelling", "overrun", "timing"}
  /\ Cancel({t})
  /\ UNCHANGED <<row, job, awaiting, reg, proc, work, spent>>

\* cancel_local on p, for a caller other than an HTTP request
CancelLocal(p, r) ==
  IF reg[p][r] = NoTask
    THEN UNCHANGED <<pc, awaiting, silent>>
    ELSE /\ pc' = [pc EXCEPT ![reg[p][r]] = AfterCancel(@)]
         /\ awaiting' = awaiting \cup {reg[p][r]}
         /\ silent' = IF pc[reg[p][r]] \in Unheard THEN silent \cup {r} ELSE silent

\* _heartbeat: one UPDATE of a running row refreshes it and reads the cancel
\* intent; having seen one it calls cancel_local and ends.
Beat(t) ==
  LET r == job[t].run IN
  /\ t \in beating /\ status[r] = "running"
  /\ stale' = [stale EXCEPT ![r] = FALSE]
  /\ IF cancelReq[r]
       THEN /\ CancelLocal(job[t].at, r)
            /\ beating' = {u \in beating \ {t} : pc'[u] # "ended"}
       ELSE UNCHANGED <<pc, awaiting, silent, beating>>
  /\ UNCHANGED <<status, owner, cancelReq, answered, job, reg, proc, work, spent>>

\* control.dispatch of a cancel: cancel_local where the run has a task.
Notice(p, r) ==
  /\ <<p, r>> \in notices
  /\ notices' = notices \ {<<p, r>>}
  /\ CancelLocal(p, r)
  /\ beating' = {u \in beating : pc'[u] # "ended"}
  /\ UNCHANGED <<row, job, reg, proc, toStart, finalizing, reaping, spent>>

-----------------------------------------------------------------------------
(* The processes and the reapers *)

\* What is left of a process that is gone: nothing but its rows.
Gone(p) ==
  /\ phase' = [phase EXCEPT ![p] = "down"]
  /\ pc' = [t \in Task |-> IF job[t].at = p THEN "idle" ELSE pc[t]]
  /\ job' = [t \in Task |-> IF job[t].at = p THEN NoJob ELSE job[t]]
  /\ beating' = {t \in beating : job[t].at # p}
  /\ awaiting' = {t \in awaiting : job[t].at # p}
  /\ silent' = silent \cup {r \in Run : owner[r] # p /\ \E t \in TasksOf(r) : job[t].at = p}
  /\ reg' = [reg EXCEPT ![p] = [r \in Run |-> NoTask]]
  /\ snapshot' = [snapshot EXCEPT ![p] = {}]
  /\ toStart' = {w \in toStart : w[1] # p}
  /\ finalizing' = {w \in finalizing : w[1] # p}
  /\ reaping' = {w \in reaping : w[1] # p}
  /\ notices' = {w \in notices : w[1] # p}

Crash(p) ==
  /\ Alive(p)
  /\ Spend("crash", MaxCrash)
  /\ Gone(p)
  /\ UNCHANGED <<row, lapsed>>

\* drain_running_tasks: the tasks of this moment are given the grace period.
BeginDrain(p) ==
  /\ Up(p)
  /\ Spend("drain", MaxDrain)
  /\ phase' = [phase EXCEPT ![p] = "draining"]
  /\ snapshot' = [snapshot EXCEPT ![p] = {reg[p][r] : r \in Run} \ {NoTask}]
  /\ UNCHANGED <<row, pc, job, beating, awaiting, silent, reg, lapsed, work>>

GraceExpired(p) ==
  /\ phase[p] = "draining" /\ snapshot[p] # {}
  /\ phase' = [phase EXCEPT ![p] = "cancelling"]
  /\ Cancel(snapshot[p])
  /\ UNCHANGED <<row, job, awaiting, reg, lapsed, snapshot, work, spent>>

\* The tasks of the snapshot are over: retire() drops the replica's row, and
\* the process exits with whatever started since.
Exit(p) ==
  /\ phase[p] \in {"draining", "cancelling"} /\ snapshot[p] = {}
  /\ Gone(p)
  /\ lapsed' = lapsed \cup {p}
  /\ UNCHANGED <<row, spent>>

\* A dead process stops refreshing its row in `replicas`.  (A live one is
\* taken to refresh it in time.)
Lapse(p) ==
  /\ ~Alive(p)
  /\ lapsed' = lapsed \cup {p}
  /\ UNCHANGED <<row, pc, job, beating, awaiting, silent, reg, phase, snapshot, work, spent>>

Restarted(p, Reaped) ==
  /\ ~Alive(p)
  /\ phase' = [phase EXCEPT ![p] = "up"]
  /\ lapsed' = lapsed \ {p}
  /\ status' = [r \in Run |-> IF owner[r] = p /\ status[r] \in Reaped
                             THEN "failed" ELSE status[r]]
  /\ UNCHANGED <<owner, cancelReq, stale, answered, pc, job, beating, awaiting, silent, reg,
                 snapshot, work, spent>>

\* Mutants of Boot: queued rows are forgotten; paused rows are failed as well.
BootForgetsQueued(p) == Restarted(p, {"running"})
BootFailsPaused(p) == Restarted(p, {"running", "queued", "paused_hitl"})

\* lifespan: reap_orphaned_runs fails what the previous process left, before
\* the process serves; the replica's heartbeat starts.
Boot(p) == Restarted(p, {"running", "queued"})

\* reap_dead_owner_runs, from the periodic loop of every replica
ReapDeadOwner(p, r) ==
  /\ Alive(p)
  /\ status[r] \in {"running", "queued"}
  /\ owner[r] \in lapsed \ {p}
  /\ status' = [status EXCEPT ![r] = "failed"]
  /\ UNCHANGED <<owner, cancelReq, stale, answered, pc, job, beating, awaiting, silent, reg, proc,
                 work, spent>>

\* The clock: the last heartbeat of a row gets older than the window when no
\* heartbeat of a task refreshes it.  Queued and paused rows age as well.
Age(r) ==
  /\ status[r] \in {"queued", "running", "paused_hitl"} /\ ~stale[r]
  /\ \A t \in TasksOf(r) : t \notin beating /\ pc[t] \notin {"start", "ended"}
  /\ stale' = [stale EXCEPT ![r] = TRUE]
  /\ UNCHANGED <<status, owner, cancelReq, answered, pc, job, beating, awaiting, silent, reg, proc,
                 work, spent>>

\* reap_stalled_runs, from the ambient leader's tick (any live replica may
\* lead): the rows are selected ...
ReapSelect(p, r) ==
  /\ AmbientOn /\ Alive(p)
  /\ status[r] = "running" /\ stale[r]
  /\ <<p, r>> \notin reaping
  /\ reaping' = reaping \cup {<<p, r>>}
  /\ UNCHANGED <<row, pc, job, beating, awaiting, silent, reg, proc, toStart, finalizing, notices,
                 spent>>

\* ... and written by primary key, whatever their status is by then; a task
\* of the run in this process is cancelled.
ReapWrite(p, r) ==
  /\ <<p, r>> \in reaping
  /\ reaping' = reaping \ {<<p, r>>}
  /\ status' = Written(r, "stalled")
  /\ Cancel({reg[p][r]})
  /\ UNCHANGED <<owner, cancelReq, stale, answered, job, awaiting, reg, proc, toStart,
                 finalizing, notices, spent>>

-----------------------------------------------------------------------------
Request(p, r) ==
  \/ Create(p, r) \/ Resume(p, r) \/ Delete(p, r)
  \/ CancelHere(p, r) \/ CancelRow(p, r) \/ CancelElsewhere(p, r)
  \/ \E failedRun \in Run : Retry(p, failedRun, r)

Pending(p, r) ==
  \/ Start(p, r) \/ FinalizeCancel(p, r) \/ Notice(p, r)

Execute(t) ==
  \/ Load(t) \/ Acquire(t) \/ WriteQueuedCancel(t) \/ MarkRunning(t) \/ Preamble(t)
  \/ Complete(t) \/ Pause(t) \/ Fail(t) \/ WriteFailed(t) \/ WriteCancelled(t)
  \/ Return(t) \/ Finish(t)

Interrupt(t) == WallClock(t) \/ CancelAgain(t) \/ Beat(t)

Process(p) == \/ Crash(p) \/ BeginDrain(p) \/ GraceExpired(p) \/ Exit(p)
              \/ Lapse(p) \/ Boot(p) \/ Purge(p)

Reap(p, r) == ReapDeadOwner(p, r) \/ ReapSelect(p, r) \/ ReapWrite(p, r)

Next ==
  \/ \E p \in Replica, r \in Run : Request(p, r) \/ Pending(p, r) \/ Reap(p, r)
  \/ \E t \in Task : Execute(t) \/ Interrupt(t)
  \/ \E p \in Replica : Process(p)
  \/ \E r \in Run : Age(r)

Spec == Init /\ [][Next]_vars

\* What the code gives a chance forever: a task's steps, the process's own
\* timers and the reapers of the loops, and what is already on its way.  Not
\* fair: requests, the outcome of a body (the wall clock ends it), crashes.
Fairness ==
  /\ \A t \in Task :
       WF_vars(Load(t) \/ WriteQueuedCancel(t) \/ MarkRunning(t) \/ Preamble(t)
                  \/ WriteFailed(t) \/ WriteCancelled(t) \/ Return(t) \/ Finish(t)
                  \/ Acquire(t) \/ (WallClock(t) /\ pc[t] = "body"))
  /\ \A p \in Replica, r \in Run :
       WF_vars(Start(p, r)) /\ WF_vars(ReapDeadOwner(p, r))
       /\ WF_vars(ReapSelect(p, r) \/ ReapWrite(p, r))
  /\ \A p \in Replica :
       WF_vars(GraceExpired(p) \/ Exit(p) \/ Lapse(p) \/ Boot(p))
  /\ \A r \in Run : WF_vars(Age(r))

FairSpec == Spec /\ Fairness

-----------------------------------------------------------------------------
(* Properties *)

TypeOK ==
  /\ status \in [Run -> Status]
  /\ owner \in [Run -> Replica \cup {NoReplica}]
  /\ cancelReq \in [Run -> BOOLEAN] /\ stale \in [Run -> BOOLEAN]
  /\ answered \in [Run -> [now : BOOLEAN, spare : Nat]]
  /\ pc \in [Task -> PC]
  /\ job \in [Task -> [run : Run, at : Replica, resume : BOOLEAN] \cup {NoJob}]
  /\ beating \subseteq Task /\ awaiting \subseteq Task
  /\ reg \in [Replica -> [Run -> Task \cup {NoTask}]]
  /\ phase \in [Replica -> {"up", "draining", "cancelling", "down"}]
  /\ lapsed \subseteq Replica
  /\ snapshot \in [Replica -> SUBSET Task]
  /\ toStart \subseteq Replica \X Run /\ finalizing \subseteq Replica \X Run
  /\ reaping \subseteq Replica \X Run /\ notices \subseteq Replica \X Run
  /\ spent \in [{"crash", "drain", "cancel", "pause", "spare"} -> Nat]
  /\ silent \subseteq Run

\* RUNNING_TASKS never names a task that is over, or one of another run or
\* process: a Stop that finds an entry reaches a task of that very run
\* (cancel_local, the reaper's task.cancel(), the drain's snapshot).
RegistryAlive ==
  \A p \in Replica, r \in Run :
    reg[p][r] # NoTask => /\ pc[reg[p][r]] # "idle"
                          /\ job[reg[p][r]].run = r /\ job[reg[p][r]].at = p

\* The places from which a task may still carry the run to an outcome
Executing    == {"load", "wait", "start", "pre", "body"}
Executors(r) == {t \in TasksOf(r) : pc[t] \in Executing}

\* Over the whole fleet, whatever is cancelled, reaped or restarted, a run (a
\* LangGraph thread) is executed by one task, and by one more at most for every
\* decision posted for a pause that had been answered already: resume_run reads
\* the status that only the task it starts will change.
OneExecutor == \A r \in Run : Cardinality(Executors(r)) <= 1 + answered[r].spare

\* A run that was shown as completed is shown as going on again (a late
\* _set_status("running") of a resume, a late pause) only by one of the tasks
\* that such spare decisions started, no more of which are left than there were
\* decisions; while every pause is answered once it is never.
CompletedNotRevived ==
  [][\A r \in Run :
       status[r] = "completed" /\ status'[r] \in {"queued", "running", "paused_hitl"} =>
         Cardinality(Executors(r)) \in 1 .. answered[r].spare]_vars

\* A queued or running row of a live owner has a task, is about to get one, or
\* is being finalized: nothing waits for work that nobody does.  Excepted, and
\* recorded in silent, are a run whose task was cancelled at an await where no
\* handler records it (the settings load, the write of running, the preamble, a
\* finalization), and one resumed on a replica that died while its owner lives.
LiveRowHasTask ==
  \A r \in Run :
    status[r] \in {"queued", "running"} /\ Up(owner[r]) =>
      \/ \E t \in TasksOf(r) : pc[t] # "idle"
      \/ \E p \in Replica : <<p, r>> \in toStart \cup finalizing
      \/ r \in silent

\* The runs table is all a client sees: on one replica, with nobody stopping a
\* run, no wall clock, no stall reaper and one answer per pause, the row goes
\* through the documented states only.  Each of these makes a write over a
\* status nobody looked at (README, 5).
Record == INSTANCE RunRecord
FollowsRecord == Record!Spec

\* With ambient mode on, which it is not by default, no run stays running for
\* ever: the task ends it, or its wall clock, or the reaper of dead owners, or
\* the reaper of stalled runs.  That last one ticks with ambient mode only;
\* without it a row of silent stays running.
RunningSettles == AmbientOn => \A r \in Run : status[r] = "running" ~> status[r] # "running"

=============================================================================
