------------------------------ MODULE JobClock ------------------------------
(***************************************************************************)
(* The periodic jobs of the replicas: each tick of run_periodic_loop       *)
(* (memory/lifecycle.py) looks at the job's entry in job_clock             *)
(* (jobclock.py), tries the job's advisory lock, works, and stamps the     *)
(* entry.  Retention (retention.py) stamps whether it got the lock or not. *)
(* Each memory job has a gate, a setting that an operator may move at any  *)
(* time, so that every read of it is free: the tick's, which mining does   *)
(* without, and the function's own.                                        *)
(*                                                                         *)
(* A replica may die at any step: its connection's locks go with it.       *)
(***************************************************************************)
EXTENDS Naturals, FiniteSets

CONSTANTS
  Replica,
  Job,        \* periodic jobs
  Retention,  \* those run by maybe_run_retention
  Gated,      \* memory jobs whose gate is closed at times, or always
  Quiet,      \* those that return when they fail: reflection
  Interval,   \* between two runs of a job
  MaxTime,    \* bound: the clock
  MaxCut      \* bound: replicas that die

VARIABLES
  time,
  clock,   \* job -> job_clock.last_run_at (0: never)
  lock,    \* job -> who holds its advisory lock
  tick,    \* replica -> its tick: step, job, the time it read
  ended,   \* job -> when its work last came to its end (0: never)
  idle,    \* job -> when its function last returned with nothing tried or nothing done
  cuts

jvars == <<time, clock, lock, tick, ended, idle, cuts>>

Nobody == "nobody"
Rest   == [at |-> "rest", job |-> "none", now |-> 0]

Init ==
  /\ time = 1 /\ cuts = 0
  /\ clock = [j \in Job |-> 0] /\ ended = [j \in Job |-> 0] /\ idle = [j \in Job |-> 0]
  /\ lock = [j \in Job |-> Nobody]
  /\ tick = [r \in Replica |-> Rest]

Pass ==
  /\ time < MaxTime /\ time' = time + 1
  /\ UNCHANGED <<clock, lock, tick, ended, idle, cuts>>

Goes(r, step) == tick' = [tick EXCEPT ![r].at = step]

\* job_due, against the time the tick read: the memory jobs and the audit with their
\* gate found open, mining and retention whatever their gates say.
Due(j, now) == clock[j] = 0 \/ now >= clock[j] + Interval

Look(r, j) ==
  /\ tick[r].at = "rest" /\ Due(j, time)
  /\ tick' = [tick EXCEPT ![r] = [at |-> "lock", job |-> j, now |-> time]]
  /\ UNCHANGED <<time, clock, lock, ended, idle, cuts>>

\* pg_try_advisory_lock: who does not get it leaves the job, retention after a stamp.
Lock(r) ==
  /\ tick[r].at = "lock"
  /\ LET j == tick[r].job IN
     IF lock[j] = Nobody
       THEN /\ lock' = [lock EXCEPT ![j] = r]
            /\ Goes(r, "work")
       ELSE /\ IF j \in Retention THEN Goes(r, "stamp") ELSE tick' = [tick EXCEPT ![r] = Rest]
            /\ UNCHANGED lock
  /\ UNCHANGED <<time, clock, ended, idle, cuts>>

\* Mutant of StampAfter: the stamp comes before the work.
StampFirst(r) == clock' = [clock EXCEPT ![tick[r].job] = tick[r].now]

\* run_due_jobs stamps behind the work and before the lock is released.
StampAfter(r) == UNCHANGED clock

\* The job's function: a purge in batches, a sweep, a rebuild. It does its work, or it
\* returns without: it finds its gate closed, or swallows its model's failure. What it
\* raises is logged, without a stamp, and the lock is released.
Work(r) ==
  /\ tick[r].at = "work"
  /\ LET j == tick[r].job IN
       \/ /\ ended' = [ended EXCEPT ![j] = time]
          /\ Goes(r, "stamp") /\ UNCHANGED <<idle, lock>>
       \/ /\ j \in Gated \cup Quiet
          /\ idle' = [idle EXCEPT ![j] = time]
          /\ Goes(r, "stamp") /\ UNCHANGED <<ended, lock>>
       \/ /\ j \notin Retention
          /\ lock' = [lock EXCEPT ![j] = Nobody]
          /\ tick' = [tick EXCEPT ![r] = Rest] /\ UNCHANGED <<ended, idle>>
  /\ StampAfter(r)
  /\ UNCHANGED <<time, cuts>>

\* job_ran with the tick's time, then the lock; retention releases first and stamps
\* with the time of the stamp.
Stamp(r) ==
  /\ tick[r].at = "stamp"
  /\ LET j == tick[r].job IN
       /\ clock' = [clock EXCEPT ![j] = IF j \in Retention THEN time ELSE tick[r].now]
       /\ lock' = [lock EXCEPT ![j] = IF @ = r THEN Nobody ELSE @]
  /\ tick' = [tick EXCEPT ![r] = Rest]
  /\ UNCHANGED <<time, ended, idle, cuts>>

Unlock(r) ==
  /\ tick[r].at = "stamp" /\ tick[r].job \in Retention /\ lock[tick[r].job] = r
  /\ lock' = [lock EXCEPT ![tick[r].job] = Nobody]
  /\ UNCHANGED <<time, clock, tick, ended, idle, cuts>>

Die(r) ==
  /\ tick[r].at # "rest" /\ cuts < MaxCut /\ cuts' = cuts + 1
  /\ lock' = [j \in Job |-> IF lock[j] = r THEN Nobody ELSE lock[j]]
  /\ tick' = [tick EXCEPT ![r] = Rest]
  /\ UNCHANGED <<time, clock, ended, idle>>

Next ==
  \/ Pass
  \/ \E r \in Replica :
       \/ Lock(r) \/ Work(r) \/ Stamp(r) \/ Unlock(r) \/ Die(r)
       \/ \E j \in Job : Look(r, j)

Spec == Init /\ [][Next]_jvars

-----------------------------------------------------------------------------
\* The clock never says of a job that it ran later than its work last ended, however
\* ticks of replicas meet and die: work that failed or was cut short is due again at the
\* next tick (run_due_jobs). The exceptions are the code's: a job whose function found
\* its gate closed, which mining does whenever it is off, and reflection, whose model
\* failed, are stamped when the function has returned, though they have not worked.
StampMeansRan ==
  \A j \in Job \ Retention :
    \/ clock[j] <= ended[j]
    \/ j \in Gated \cup Quiet /\ clock[j] <= idle[j]
=============================================================================
