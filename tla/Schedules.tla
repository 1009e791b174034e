----------------------------- MODULE Schedules -----------------------------
(***************************************************************************)
(* The schedule triggers of one routine: evaluate_schedules of             *)
(* backend/app/ambient/triggers.py in the leader's tick, with emit_event's *)
(* dedupe key and kill switch (store.py) and the requests that touch the   *)
(* routine (api/routines.py).                                              *)
(*                                                                         *)
(* The triggers share one last_fired_at.  Time is in minutes, the slots of *)
(* a dedupe key, and ends within the hour of the kill switch.  A cron      *)
(* expression is an interval whose base, for a routine that never fired,   *)
(* is a day ago.                                                           *)
(***************************************************************************)
EXTENDS Naturals, Sequences, FiniteSets

CONSTANTS
  Ticker,       \* replicas that may be in a tick
  Trigger,      \* the routine's triggers
  Every,        \* the interval of each, in minutes; 0 for a "once"
  Once,         \* the minute of a "once"
  MaxEvent, MaxMinute,         \* bounds
  QuarantineAfter,             \* QUARANTINE_AFTER
  KillSwitch,                  \* RULE_KILL_SWITCH_PER_HOUR
  MaxCut, MaxOverlap, MaxBroken, MaxToggle, MaxFaults  \* bounds: evaluations cut short, ticks beside
                                            \* a tick, that raise, PATCHes; all of these together

VARIABLES
  routine,   \* routines: status, consecutive_failures, last_fired_at (0: never), the triggers not once_fired
  events,    \* ambient_events of the routine, in the order of their insertion
  minute,
  tick,      \* each replica's evaluation: step, routine as it was read, triggers to look at, `now`
  spent

svars == <<routine, events, minute, tick, spent>>

Resting == [at |-> "idle", last |-> 0, left |-> {}, now |-> 0]

Init ==
  /\ routine = [status |-> "active", failures |-> 0, last |-> 0, armed |-> Trigger]
  /\ events = <<>>
  /\ minute = 1
  /\ tick = [r \in Ticker |-> Resting]
  /\ spent = [cut |-> 0, overlap |-> 0, broken |-> 0, toggle |-> 0]

Spend(what, n, limit) ==
  /\ spent' = [spent EXCEPT ![what] = @ + n]
  /\ spent'[what] <= limit
  /\ spent'.cut + spent'.overlap + spent'.broken + spent'.toggle <= MaxFaults

\* evaluate_schedules reads the active routines, and its `now`; one without a
\* schedule trigger is passed over
Begin(r) ==
  /\ tick[r].at = "idle" /\ routine.status = "active" /\ routine.armed # {}
  /\ tick' = [tick EXCEPT ![r] = [at |-> "look", last |-> routine.last, left |-> routine.armed, now |-> minute]]
  /\ Spend("overlap", Cardinality({q \in Ticker \ {r} : tick[q].at # "idle"}), MaxOverlap)
  /\ UNCHANGED <<routine, events, minute>>

\* the triggers are looked at in their order
Current(r) == CHOOSE t \in tick[r].left : \A u \in tick[r].left : t <= u
Rest(r) ==
  LET left == tick[r].left \ {Current(r)} IN
  IF left = {} THEN Resting ELSE [tick[r] EXCEPT !.at = "look", !.left = left]

\* _schedule_due
Due(t, last, now) == IF Every[t] = 0 THEN now >= Once /\ last = 0
                     ELSE last = 0 \/ now - last >= Every[t]

Known(t, now) == \E i \in DOMAIN events : events[i] = [trigger |-> t, slot |-> now]
Killed == Len(events) >= KillSwitch

\* due, and its key is new: an event of the slot, or the kill switch, leaves the
\* routine as it was
Look(r) ==
  /\ tick[r].at = "look"
  /\ tick' = [tick EXCEPT ![r] =
       IF Due(Current(r), tick[r].last, tick[r].now) /\ ~Known(Current(r), tick[r].now) /\ ~Killed
         THEN [@ EXCEPT !.at = "insert"] ELSE Rest(r)]
  /\ UNCHANGED <<routine, events, minute, spent>>

Insert(r) ==
  /\ tick[r].at = "insert" /\ Len(events) < MaxEvent
  /\ events' = Append(events, [trigger |-> Current(r), slot |-> tick[r].now])
  /\ tick' = [tick EXCEPT ![r].at = "stamp"]
  /\ UNCHANGED <<routine, minute, spent>>

\* Mutant of Stamp: a "once" stays armed and nothing is stamped.
StampNothing(r) ==
  /\ tick[r].at = "stamp"
  /\ tick' = [tick EXCEPT ![r] = Rest(r)]
  /\ UNCHANGED <<routine, events, minute, spent>>

Stamp(r) ==
  /\ tick[r].at = "stamp"
  /\ routine' = [routine EXCEPT !.last = tick[r].now,
                                !.armed = IF Every[Current(r)] = 0 THEN @ \ {Current(r)} ELSE @]
  /\ tick' = [tick EXCEPT ![r] = Rest(r)]
  /\ UNCHANGED <<events, minute, spent>>

\* The evaluation of the routine raises, and is counted against it:
\* _record_trigger_failure.
Raise(r) ==
  /\ tick[r].at = "look" /\ Spend("broken", 1, MaxBroken)
  /\ routine' = [routine EXCEPT !.failures = @ + 1,
                   !.status = IF routine.failures + 1 >= QuarantineAfter THEN "error" ELSE @]
  /\ tick' = [tick EXCEPT ![r] = Resting]
  /\ UNCHANGED <<events, minute>>

\* run_evaluator's timeout, or the end of the process
Cut(r) ==
  /\ tick[r].at # "idle" /\ Spend("cut", 1, MaxCut)
  /\ tick' = [tick EXCEPT ![r] = Resting]
  /\ UNCHANGED <<routine, events, minute>>

\* POST /routines/{id}/fire: an event, and the same stamp
Fire ==
  /\ routine.status = "active" /\ ~Killed /\ Len(events) < MaxEvent
  /\ events' = Append(events, [trigger |-> 0, slot |-> minute])
  /\ routine' = [routine EXCEPT !.last = minute]
  /\ UNCHANGED <<minute, tick, spent>>

\* PATCH /routines/{id}
Toggle ==
  /\ Spend("toggle", 1, MaxToggle)
  /\ routine' = IF routine.status = "active" THEN [routine EXCEPT !.status = "paused"]
                ELSE [routine EXCEPT !.status = "active", !.failures = 0]
  /\ UNCHANGED <<events, minute, tick>>

NextMinute ==
  /\ minute < MaxMinute
  /\ minute' = minute + 1
  /\ UNCHANGED <<routine, events, tick, spent>>

Next == \/ \E r \in Ticker : Begin(r) \/ Look(r) \/ Insert(r) \/ Stamp(r) \/ Raise(r) \/ Cut(r)
        \/ Fire \/ Toggle \/ NextMinute

Spec == Init /\ [][Next]_svars

-----------------------------------------------------------------------------
(* Properties *)

\* The events of a trigger less than its interval after an earlier one, or of a
\* "once" after its first.
TooSoon(t) ==
  {i \in DOMAIN events : /\ events[i].trigger = t
                         /\ \E j \in 1..(i - 1) :
                              /\ events[j].trigger = t
                              /\ (Every[t] = 0 \/ events[i].slot - events[j].slot < Every[t])}

\* Two events of one trigger are an interval apart, and a "once" has one: except
\* for one more each time an evaluation was cut short, which may be between an event
\* and its stamp, and two for each that it ran beside: one due by a stamp it read too
\* early, one due by a stamp an older evaluation wrote over a later one
\* (_evaluate_routine_schedules: missed ticks "fire once on recovery, never replayed
\* N times").
FiresOncePerInterval ==
  \A t \in Trigger : Cardinality(TooSoon(t)) <= spent.cut + 2 * spent.overlap
====
