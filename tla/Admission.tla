------------------------------ MODULE Admission ------------------------------
(***************************************************************************)
(* Admission control of one process (orchestrator/admission.py): the gate  *)
(* at run creation, the semaphore of execution slots, which a changed      *)
(* run_max_concurrent replaces, and the sets _queued and _running that the *)
(* gate, the readiness probe and the autoscaler read.                      *)
(*                                                                         *)
(* One step is what runs between two awaits of one coroutine.  The         *)
(* semaphore is asyncio's (Python 3.12): a release hands the slot to the   *)
(* first waiter, which only runs in a later step.                          *)
(***************************************************************************)
EXTENDS Naturals, FiniteSets

CONSTANTS
  Task,        \* calls of start_run_task
  RunOf,       \* the run each of them is for
  Chat,        \* tasks whose run was created with shed_if_full
  NoSem,       \* _semaphore is None
  Limits,      \* the values run_max_concurrent may be set to
  QueueMax,    \* setting run_queue_max
  MaxChange    \* bound on the changes of run_max_concurrent

ASSUME AdmissionAssumption ==
  /\ DOMAIN RunOf = Task /\ Chat \subseteq Task
  /\ Limits \subseteq Nat \ {0} /\ QueueMax \in Nat /\ MaxChange \in Nat
  /\ NoSem \notin Task /\ IsFiniteSet(Task)

Sem == Task   \* the semaphores, each named after the task that made it

VARIABLES
  accepting,   \* _accepting
  limit,       \* run_max_concurrent as stored
  changes,     \* how often it was changed
  seen,        \* the limit in the settings a task has loaded
  at,          \* where each task is
  current,     \* _semaphore
  size,        \* the slots each was made with
  value,       \* Semaphore._value
  ahead,       \* Semaphore._waiters: for each task in a line, who is before it
  mine,        \* the semaphore a task waits for or holds
  queued,      \* _queued
  running      \* _running

store == <<limit, changes>>
sems  == <<current, size>>
vars  == <<accepting, store, seen, at, sems, value, ahead, mine, queued, running>>

\* "cancelled": the future a task waits for was cancelled; "revoked": the task
\* was cancelled after it was handed a slot and before it ran again.
InLine == {"waiting", "granted", "cancelled", "revoked"}
At == {"new", "shed", "created", "loaded", "holding", "over"} \cup InLine

Init ==
  /\ accepting = TRUE
  /\ limit \in Limits /\ changes = 0
  /\ seen = [t \in Task |-> limit]
  /\ at = [t \in Task |-> "new"]
  /\ current = NoSem
  /\ size = [g \in Sem |-> 0] /\ value = [g \in Sem |-> 0]
  /\ ahead = [t \in Task |-> {}]
  /\ mine = [t \in Task |-> NoSem]
  /\ queued = {} /\ running = {}

\* PUT /settings
ChangeLimit(n) ==
  /\ changes < MaxChange /\ n # limit
  /\ limit' = n /\ changes' = changes + 1
  /\ UNCHANGED <<accepting, seen, at, sems, value, ahead, mine, queued, running>>

\* SIGUSR1 or the lifespan's shutdown
BeginDrain ==
  /\ accepting /\ accepting' = FALSE
  /\ UNCHANGED <<store, seen, at, sems, value, ahead, mine, queued, running>>

Full == Cardinality(running) >= limit /\ Cardinality(queued) >= QueueMax

\* create_run with check_admission: the row is inserted, or AtCapacity raised.
Create(t) ==
  /\ at[t] = "new"
  /\ at' = [at EXCEPT ![t] = IF accepting /\ ~(t \in Chat /\ Full) THEN "created" ELSE "shed"]
  /\ UNCHANGED <<accepting, store, seen, sems, value, ahead, mine, queued, running>>

\* bounded_execute loads the settings; they are used after other tasks have run.
LoadSettings(t) ==
  /\ at[t] = "created"
  /\ at' = [at EXCEPT ![t] = "loaded"]
  /\ seen' = [seen EXCEPT ![t] = limit]
  /\ UNCHANGED <<accepting, store, sems, value, ahead, mine, queued, running>>

Line(g) == {t \in Task : mine[t] = g /\ at[t] \in InLine}

\* Semaphore.locked(): no value, or a waiter that is not cancelled
Locked(g) == value[g] = 0 \/ \E t \in Line(g) : at[t] # "cancelled"

\* _get_semaphore: a changed limit is applied when _running is empty.
Idle(n) == current # NoSem /\ size[current] # n /\ running = {}

\* slot(): up to the first await.  A free semaphore is taken at once.
Enter(t) ==
  LET rebuild == current = NoSem \/ Idle(seen[t])
      g == IF rebuild THEN t ELSE current
      taken == rebuild \/ ~Locked(g)
  IN
  /\ at[t] = "loaded"
  /\ current' = g
  /\ size' = IF rebuild THEN [size EXCEPT ![g] = seen[t]] ELSE size
  /\ value' = [value EXCEPT ![g] = (IF rebuild THEN seen[t] ELSE @) - (IF taken THEN 1 ELSE 0)]
  /\ mine' = [mine EXCEPT ![t] = g]
  /\ IF taken
       THEN /\ at' = [at EXCEPT ![t] = "holding"]
            /\ running' = running \cup {RunOf[t]} /\ queued' = queued \ {RunOf[t]}
            /\ UNCHANGED ahead
       ELSE /\ at' = [at EXCEPT ![t] = "waiting"]
            /\ queued' = queued \cup {RunOf[t]} /\ UNCHANGED running
            /\ ahead' = [ahead EXCEPT ![t] = Line(g)]
  /\ UNCHANGED <<accepting, store, seen>>

\* t goes to place and g has v free slots; _wake_up_next runs k times, each time
\* handing a slot to the first waiter that still waits for one.
HandOver(t, place, g, v, k) ==
  LET pending == {u \in Line(g) \ {t} : at[u] = "waiting"} IN
  \E next \in SUBSET pending :
    /\ \A u \in next : ahead[u] \cap pending \subseteq next
    /\ Cardinality(next) <= k /\ (next = pending \/ Cardinality(next) = k)
    /\ at' = [u \in Task |-> IF u = t THEN place ELSE IF u \in next THEN "granted" ELSE at[u]]
    /\ value' = [value EXCEPT ![g] = v - Cardinality(next)]

\* _waiters.remove
LeaveLine(t) == ahead' = [u \in Task |-> IF u = t THEN {} ELSE ahead[u] \ {t}]

\* The task that was handed a slot runs: it leaves the line and holds.
Acquired(t) ==
  LET v == value[mine[t]] IN
  /\ at[t] = "granted"
  /\ LeaveLine(t) /\ HandOver(t, "holding", mine[t], v, v)
  /\ running' = running \cup {RunOf[t]} /\ queued' = queued \ {RunOf[t]}
  /\ UNCHANGED <<accepting, store, seen, sems, mine>>

\* task.cancel() on a task in sem.acquire()
Cancel(t) ==
  /\ at[t] \in {"waiting", "granted"}
  /\ at' = [at EXCEPT ![t] = IF @ = "waiting" THEN "cancelled" ELSE "revoked"]
  /\ UNCHANGED <<accepting, store, seen, sems, value, ahead, mine, queued, running>>

\* The cancelled task runs: it leaves the line, returns the slot it was handed,
\* and slot() forgets the run.
Unwind(t) ==
  LET v == value[mine[t]] + (IF at[t] = "revoked" THEN 1 ELSE 0) IN
  /\ at[t] \in {"cancelled", "revoked"}
  /\ LeaveLine(t) /\ HandOver(t, "over", mine[t], v, v)
  /\ queued' = queued \ {RunOf[t]}
  /\ UNCHANGED <<accepting, store, seen, sems, mine, running>>

\* Mutant of Leave: the slot goes back to the semaphore in force.
LeaveCurrent(t) ==
  /\ at[t] = "holding"
  /\ running' = running \ {RunOf[t]}
  /\ HandOver(t, "over", current, value[current] + 1, 1)
  /\ UNCHANGED <<accepting, store, seen, sems, ahead, mine, queued>>

\* slot() is left, in whatever way the body ended.
Leave(t) ==
  /\ at[t] = "holding"
  /\ running' = running \ {RunOf[t]}
  /\ HandOver(t, "over", mine[t], value[mine[t]] + 1, 1)
  /\ UNCHANGED <<accepting, store, seen, sems, ahead, mine, queued>>

Next ==
  \/ \E n \in Limits : ChangeLimit(n)
  \/ BeginDrain
  \/ \E t \in Task : \/ Create(t) \/ LoadSettings(t) \/ Enter(t) \/ Acquired(t)
                     \/ Cancel(t) \/ Unwind(t) \/ Leave(t)

Spec == Init /\ [][Next]_vars

\* While a task can run, some task does; a run that executes comes to its end (the
\* wall clock of bounded_execute sees to it).
FairSpec == Spec /\ WF_vars(\E t \in Task :
  LoadSettings(t) \/ Enter(t) \/ Acquired(t) \/ Unwind(t) \/ Leave(t))

-----------------------------------------------------------------------------
(* Properties *)

\* No slot is lost or made up, on any of the semaphores, whatever is cancelled
\* at whatever moment and however often the limit is changed under way.
Charged(g) == {t \in Task : mine[t] = g /\ at[t] \in {"granted", "revoked", "holding"}}
SlotsConserved == \A g \in Sem : value[g] + Cardinality(Charged(g)) = size[g]

\* Who waits gets his turn, also on a semaphore that was replaced meanwhile: in
\* the end (no task comes back) nobody is left between the settings and a slot.
EveryoneServed ==
  <>[](\A t \in Task : at[t] \notin {"loaded", "waiting", "granted", "cancelled", "revoked"})

=============================================================================
