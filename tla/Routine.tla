------------------------------ MODULE Routine ------------------------------
(***************************************************************************)
(* The runs of one routine and what follows them: the book-keeping of a    *)
(* run's end (finish_ambient_run of backend/app/ambient/execute.py), which *)
(* counts failures, pauses the routine and books the wakeup that tries     *)
(* again, the wakeups (wakeups.py), and the events they become (store.py). *)
(*                                                                         *)
(* fire_due_wakeups runs in the leader's tick; a replica that lost the     *)
(* lease finishes the tick it is in beside the new leader's.  What the     *)
(* drain does with an event is one step here: EventDrain is its inside.    *)
(* All of it lies within an hour of one day.  The delivery with which the  *)
(* book-keeping ends is Outbox's.                                          *)
(***************************************************************************)
EXTENDS Naturals, FiniteSets

CONSTANTS
  Ticker,          \* replicas that may be in a tick
  MaxEvent, MaxWake,   \* bounds
  FailLimit,       \* failures in a row that pause the routine
  MaxPending,      \* WAKEUP_MAX_PENDING
  DayCap,          \* ambient_wakeups_per_routine_per_day
  KillSwitch,      \* RULE_KILL_SWITCH_PER_HOUR
  MaxCut, MaxOverlap, MaxToggle,  \* bounds: steps cut short, ticks beside a tick, PATCHes,
  MaxFaults                       \* and all of these together

Event == 1..MaxEvent
Wake  == 1..MaxWake

VARIABLES
  routine,   \* routines: status, consecutive_failures
  event,     \* ambient_events: the wakeup in the dedupe key, 0 for others, and what became of it
  wakeup,    \* ambient_wakeups: status, whether due_at has passed, runs begun since, run_id
  tick,      \* each replica's fire_due_wakeups: step, rows in hand, the one in work
  book,      \* finish_ambient_run of each event's run: step, and what it read
  spent

rvars == <<routine, event, wakeup, tick, book, spent>>

NoEvent == [state |-> "none", key |-> 0]
NoWake  == [status |-> "none", due |-> FALSE, since |-> {}, run |-> 0]
Resting == [at |-> "idle", rows |-> {}, row |-> 0, outcome |-> "none"]
NoBook  == [at |-> "none", failures |-> 0, status |-> "none"]

Init ==
  /\ routine = [status |-> "active", failures |-> 0]
  /\ event = [e \in Event |-> NoEvent] /\ wakeup = [w \in Wake |-> NoWake]
  /\ tick = [r \in Ticker |-> Resting]
  /\ book = [e \in Event |-> NoBook]
  /\ spent = [cut |-> 0, overlap |-> 0, toggle |-> 0]

Spend(what, n, limit) ==
  /\ spent' = [spent EXCEPT ![what] = @ + n]
  /\ spent'[what] <= limit
  /\ spent'.cut + spent'.overlap + spent'.toggle <= MaxFaults

Events == {e \in Event : event[e].state # "none"}
Woken(status) == {w \in Wake : wakeup[w].status = status}

-----------------------------------------------------------------------------
(* emit_event: looks for the dedupe key and counts, then inserts *)

Known(w) == \E e \in Events : event[e].key = w
Killed == Cardinality(Events) >= KillSwitch

\* MaxEvent cuts the model, not the code
Append(key) ==
  \E e \in Event \ Events :
    /\ \A f \in Event \ Events : e <= f
    /\ event' = [event EXCEPT ![e] = [state |-> "pending", key |-> key]]

\* an event of another source: a schedule, or POST /routines/{id}/fire
Fire ==
  /\ routine.status = "active" /\ ~Killed
  /\ Append(0)
  /\ UNCHANGED <<routine, wakeup, tick, book, spent>>

-----------------------------------------------------------------------------
(* fire_due_wakeups *)

\* the rows that are due, then one after the other
NextWake(r, rows) ==
  tick' = [tick EXCEPT ![r] =
    IF rows = {} THEN Resting
    ELSE [at |-> "look", rows |-> rows, outcome |-> "none",
          row |-> CHOOSE w \in rows : \A v \in rows : w <= v]]

BeginTick(r) ==
  /\ tick[r].at = "idle"
  /\ \E w \in Woken("pending") : wakeup[w].due
  /\ NextWake(r, {w \in Woken("pending") : wakeup[w].due})
  /\ Spend("overlap", Cardinality({q \in Ticker \ {r} : tick[q].at # "idle"}), MaxOverlap)
  /\ UNCHANGED <<routine, event, wakeup, book>>

\* _superseded: a run that began since the wakeup was booked has completed
Superseded(w) == \E e \in wakeup[w].since : event[e].state = "completed"

\* Mutant of Look: no dedupe key.
LookNoKey(r) ==
  /\ tick[r].at = "look"
  /\ tick' = [tick EXCEPT ![r] =
       IF Superseded(tick[r].row) \/ Killed
         THEN [@ EXCEPT !.at = "mark", !.outcome = "expired"]
         ELSE [@ EXCEPT !.at = "emit", !.outcome = "fired"]]
  /\ UNCHANGED <<routine, event, wakeup, book, spent>>

Look(r) ==
  /\ tick[r].at = "look"
  /\ tick' = [tick EXCEPT ![r] =
       IF Superseded(tick[r].row) \/ Killed \/ Known(tick[r].row)
         THEN [@ EXCEPT !.at = "mark", !.outcome = "expired"]
         ELSE [@ EXCEPT !.at = "emit", !.outcome = "fired"]]
  /\ UNCHANGED <<routine, event, wakeup, book, spent>>

Emit(r) ==
  /\ tick[r].at = "emit"
  /\ Append(tick[r].row)
  /\ tick' = [tick EXCEPT ![r].at = "mark"]
  /\ UNCHANGED <<routine, wakeup, book, spent>>

Settled(row, outcome) == [NoWake EXCEPT !.status = outcome, !.run = row.run]

\* the row, if it is still pending
Mark(r) ==
  /\ tick[r].at = "mark"
  /\ wakeup' = [wakeup EXCEPT ![tick[r].row] =
       IF @.status = "pending" THEN Settled(@, tick[r].outcome) ELSE @]
  /\ NextWake(r, tick[r].rows \ {tick[r].row})
  /\ UNCHANGED <<routine, event, book, spent>>

\* run_evaluator's timeout, or the end of the process
CutTick(r) ==
  /\ tick[r].at # "idle" /\ Spend("cut", 1, MaxCut)
  /\ tick' = [tick EXCEPT ![r] = Resting]
  /\ UNCHANGED <<routine, event, wakeup, book>>

-----------------------------------------------------------------------------
(* The event's way: decided, executed, ended *)

\* _decide drops the event of a routine that is not active; prepare_run looks again.
Execute(e) ==
  /\ event[e].state = "pending"
  /\ event' = [event EXCEPT ![e].state = IF routine.status = "active" THEN "running" ELSE "dropped"]
  /\ wakeup' = [w \in Wake |-> IF wakeup[w].status # "pending" THEN wakeup[w]
                               ELSE [wakeup[w] EXCEPT !.since = @ \cup {e}]]
  /\ UNCHANGED <<routine, tick, book, spent>>

RunEnds(e) ==
  /\ event[e].state = "running"
  /\ \E end \in {"completed", "failed"} : event' = [event EXCEPT ![e].state = end]
  /\ book' = [book EXCEPT ![e].at = "read"]
  /\ UNCHANGED <<routine, wakeup, tick, spent>>

-----------------------------------------------------------------------------
(* finish_ambient_run *)

\* a completed run: the row is loaded and its failures zeroed
Forgive(e) ==
  /\ book[e].at = "read" /\ event[e].state = "completed"
  /\ routine' = [routine EXCEPT !.failures = 0]
  /\ book' = [book EXCEPT ![e].at = "done"]
  /\ UNCHANGED <<event, wakeup, tick, spent>>

\* a failed one: the row is loaded ...
ReadFailures(e) ==
  /\ book[e].at = "read" /\ event[e].state = "failed"
  /\ book' = [book EXCEPT ![e] = [at |-> "count", failures |-> routine.failures, status |-> routine.status]]
  /\ UNCHANGED <<routine, event, wakeup, tick, spent>>

\* Mutant of CountFailure: it pauses after one failure more.
CountFailureLate(e) ==
  /\ book[e].at = "count"
  /\ routine' = [routine EXCEPT
       !.failures = book[e].failures + 1,
       !.status = IF book[e].failures + 1 > FailLimit /\ book[e].status = "active" THEN "paused" ELSE @]
  /\ book' = [book EXCEPT ![e] = [NoBook EXCEPT !.at = "wake"]]
  /\ UNCHANGED <<event, wakeup, tick, spent>>

\* ... and written, with the columns that changed
CountFailure(e) ==
  /\ book[e].at = "count"
  /\ routine' = [routine EXCEPT
       !.failures = book[e].failures + 1,
       !.status = IF book[e].failures + 1 >= FailLimit /\ book[e].status = "active" THEN "paused" ELSE @]
  /\ book' = [book EXCEPT ![e] = [NoBook EXCEPT !.at = "wake"]]
  /\ UNCHANGED <<event, wakeup, tick, spent>>

\* schedule_wakeup counts, in its own session, what is pending and what is of today ...
WithinCaps == /\ Cardinality(Woken("pending")) < MaxPending
              /\ Cardinality(Wake \ Woken("none")) < DayCap

\* unless the run has a wakeup of its own already
Room(e) ==
  /\ book[e].at = "wake"
  /\ book' = [book EXCEPT ![e].at =
       IF WithinCaps /\ ~ \E w \in Wake : wakeup[w].run = e THEN "book" ELSE "done"]
  /\ UNCHANGED <<routine, event, wakeup, tick, spent>>

\* ... and inserts: the self-wake
BookWakeup(e) ==
  /\ book[e].at = "book"
  /\ \E w \in Woken("none") :
       /\ \A v \in Woken("none") : w <= v
       /\ wakeup' = [wakeup EXCEPT ![w] = [NoWake EXCEPT !.status = "pending", !.run = e]]
  /\ book' = [book EXCEPT ![e].at = "done"]
  /\ UNCHANGED <<routine, event, tick, spent>>

\* The process ends; nothing takes the book-keeping up again.
Lose(e) ==
  /\ book[e].at \notin {"none", "done"} /\ Spend("cut", 1, MaxCut)
  /\ book' = [book EXCEPT ![e] = [NoBook EXCEPT !.at = "done"]]
  /\ UNCHANGED <<routine, event, wakeup, tick>>

-----------------------------------------------------------------------------
(* Agents, users and time *)

\* ambient.wakeup: the same counts and insert as a self-wake, here in one step
AgentWakeup(e) ==
  /\ event[e].state = "running" /\ WithinCaps
  /\ \E w \in Woken("none") :
       /\ \A v \in Woken("none") : w <= v
       /\ wakeup' = [wakeup EXCEPT ![w] = [NoWake EXCEPT !.status = "pending", !.run = e]]
  /\ UNCHANGED <<routine, event, tick, book, spent>>

\* ambient.cancel_wakeup
CancelWakeup(w) ==
  /\ wakeup[w].status = "pending" /\ \E e \in Event : event[e].state = "running"
  /\ wakeup' = [wakeup EXCEPT ![w] = Settled(@, "cancelled")]
  /\ UNCHANGED <<routine, event, tick, book, spent>>

\* PATCH /routines/{id}
Toggle ==
  /\ Spend("toggle", 1, MaxToggle)
  /\ routine' = IF routine.status = "active" THEN [routine EXCEPT !.status = "paused"]
                ELSE [routine EXCEPT !.status = "active", !.failures = 0]
  /\ UNCHANGED <<event, wakeup, tick, book>>

Later(w) ==
  /\ wakeup[w].status = "pending" /\ ~wakeup[w].due
  /\ wakeup' = [wakeup EXCEPT ![w].due = TRUE]
  /\ UNCHANGED <<routine, event, tick, book, spent>>

Next ==
  \/ Fire \/ Toggle
  \/ \E r \in Ticker : BeginTick(r) \/ Look(r) \/ Emit(r) \/ Mark(r) \/ CutTick(r)
  \/ \E e \in Event : \/ Execute(e) \/ RunEnds(e) \/ Forgive(e) \/ ReadFailures(e)
                      \/ CountFailure(e) \/ Room(e) \/ BookWakeup(e) \/ Lose(e)
                      \/ AgentWakeup(e)
  \/ \E w \in Wake : CancelWakeup(w) \/ Later(w)

Spec == Init /\ [][Next]_rvars

-----------------------------------------------------------------------------
(* Properties *)

\* A wakeup becomes one event, whatever is cut short between the event and the
\* mark; only ticks side by side can miss each other's (fire_due_wakeups).
WakeupFiresOnce ==
  \A w \in Wake : Cardinality({e \in Events : event[e].key = w}) <= 1 + spent.overlap

\* While nobody switches it, a routine that is on has failed less often in a row
\* than the limit: failures of runs that end side by side may be counted as one,
\* but the last one of them still pauses (finish_ambient_run).
FailingRoutineStops ==
  (spent.toggle = 0 /\ routine.status = "active") => routine.failures < FailLimit
====
