----------------------------- MODULE EventDrain -----------------------------
(***************************************************************************)
(* The ambient event ledger and the drains of all replicas                 *)
(* (ambient/drain.py, ambient/execute.py): events are claimed in batches,  *)
(* decided one by one with no lock held, and the fired ones are handed to  *)
(* executor tasks when the batch is through.  The tick gives a drain 60 s; *)
(* a claim may be taken over after 600 s.                                  *)
(*                                                                         *)
(* An event is numbered in the order of received_at.  The run an executor  *)
(* starts is RunLifecycle's; here it is only made.                         *)
(***************************************************************************)
EXTENDS Naturals, FiniteSets, Functions

CONSTANTS
  Replica,
  MaxEvent,    \* bound on the events received
  BatchMax,    \* drain_once's limit
  DayCap,      \* setting ambient_runs_per_day
  MaxTimeout,  \* bound on the drains the tick cuts short
  MaxCrash     \* bound on the crashes

ASSUME DrainAssumption ==
  /\ MaxEvent \in Nat /\ BatchMax \in Nat \ {0} /\ DayCap \in Nat
  /\ MaxTimeout \in Nat /\ MaxCrash \in Nat

Event == 1 .. MaxEvent
Final == {"held", "dropped", "fired"}

VARIABLES
  verdict,     \* ambient_events.verdict; "none": not received yet
  aged,        \* events whose claim is older than RECLAIM_AFTER_S
  runs,        \* how many runs were made for an event
  up,          \* replicas whose process lives
  at,          \* where a replica's drain_once is
  batch,       \* the claimed events it has yet to go through, oldest first
  outcome,     \* what the processor returned for the oldest of them
  toExecute,   \* to_execute
  executor,    \* the task execute_fired_event(e) of a replica
  timeouts, crashes

table  == <<verdict, aged>>
drain  == <<at, batch, outcome, toExecute>>
bounds == <<timeouts, crashes>>
vars   == <<table, runs, up, drain, executor, bounds>>

Init ==
  /\ verdict = [e \in Event |-> "none"] /\ aged = {}
  /\ runs = [e \in Event |-> 0]
  /\ up = Replica
  /\ at = [p \in Replica |-> "idle"]
  /\ batch = [p \in Replica |-> {}]
  /\ outcome = [p \in Replica |-> "none"]
  /\ toExecute = [p \in Replica |-> {}]
  /\ executor = [p \in Replica |-> [e \in Event |-> "none"]]
  /\ timeouts = 0 /\ crashes = 0

\* emit_event
Emit(e) ==
  /\ verdict[e] = "none" /\ \A f \in 1 .. (e - 1) : verdict[f] # "none"
  /\ verdict' = [verdict EXCEPT ![e] = "pending"]
  /\ UNCHANGED <<aged, runs, up, drain, executor, bounds>>

\* Ten minutes pass over a claim.  A live drain that made it is over by then:
\* the tick (run_evaluator) ends it after one minute.
Age(e) ==
  /\ verdict[e] = "processing" /\ e \notin aged
  /\ \A p \in up : e \notin batch[p]
  /\ aged' = aged \cup {e}
  /\ UNCHANGED <<verdict, runs, up, drain, executor, bounds>>

-----------------------------------------------------------------------------
(* drain_once *)

\* Mutants of Claimable: an abandoned claim stays; a claim of any age is free.
ClaimablePending == {e \in Event : verdict[e] = "pending"}
ClaimableAtOnce  == {e \in Event : verdict[e] \in {"pending", "processing"}}

Claimable == {e \in Event : verdict[e] = "pending" \/ (verdict[e] = "processing" /\ e \in aged)}

\* Mutant of Claim: the time of the claim is not written.
ClaimKeepsTime(p) ==
  LET ids == {e \in Claimable : Cardinality({f \in Claimable : f < e}) < BatchMax} IN
  /\ p \in up /\ at[p] = "idle" /\ ids # {}
  /\ verdict' = [e \in Event |-> IF e \in ids THEN "processing" ELSE verdict[e]]
  /\ batch' = [batch EXCEPT ![p] = ids]
  /\ at' = [at EXCEPT ![p] = "deciding"]
  /\ UNCHANGED <<aged, runs, up, outcome, toExecute, executor, bounds>>

\* The oldest BatchMax claimable events, in one transaction.
Claim(p) ==
  LET ids == {e \in Claimable : Cardinality({f \in Claimable : f < e}) < BatchMax} IN
  /\ p \in up /\ at[p] = "idle" /\ ids # {}
  /\ verdict' = [e \in Event |-> IF e \in ids THEN "processing" ELSE verdict[e]]
  /\ aged' = aged \ ids
  /\ batch' = [batch EXCEPT ![p] = ids]
  /\ at' = [at EXCEPT ![p] = "deciding"]
  /\ UNCHANGED <<runs, up, outcome, toExecute, executor, bounds>>

\* The processor: whatever it looks at, it may hold or drop the event; it fires
\* it only while fewer runs than the cap exist today.
Decide(p, v) ==
  /\ p \in up /\ at[p] = "deciding" /\ batch[p] # {}
  /\ v = "fired" => FoldFunction(+, 0, runs) < DayCap
  /\ outcome' = [outcome EXCEPT ![p] = v]
  /\ at' = [at EXCEPT ![p] = "decided"]
  /\ UNCHANGED <<table, runs, up, batch, toExecute, executor, bounds>>

\* The verdict is committed, whatever the row holds by then.
WriteBack(p) ==
  /\ p \in up /\ at[p] = "decided"
  /\ \E e \in batch[p] :
       /\ \A f \in batch[p] : e <= f
       /\ verdict' = [verdict EXCEPT ![e] = outcome[p]]
       /\ aged' = aged \ {e}
       /\ toExecute' = [toExecute EXCEPT ![p] = IF outcome[p] = "fired" THEN @ \cup {e} ELSE @]
       /\ batch' = [batch EXCEPT ![p] = @ \ {e}]
  /\ outcome' = [outcome EXCEPT ![p] = "none"]
  /\ at' = [at EXCEPT ![p] = "deciding"]
  /\ UNCHANGED <<runs, up, executor, bounds>>

\* The batch is through: every fired event gets an executor task.
Launch(p) ==
  /\ p \in up /\ at[p] = "deciding" /\ batch[p] = {}
  /\ executor' = [executor EXCEPT ![p] =
       [e \in Event |-> IF e \in toExecute[p] THEN "created" ELSE @[e]]]
  /\ toExecute' = [toExecute EXCEPT ![p] = {}]
  /\ at' = [at EXCEPT ![p] = "idle"]
  /\ UNCHANGED <<table, runs, up, batch, outcome, bounds>>

Abandon(p) ==
  /\ at' = [at EXCEPT ![p] = "idle"]
  /\ batch' = [batch EXCEPT ![p] = {}]
  /\ outcome' = [outcome EXCEPT ![p] = "none"]
  /\ toExecute' = [toExecute EXCEPT ![p] = {}]

\* run_evaluator cancels the drain at whatever it waits for.
Timeout(p) ==
  /\ p \in up /\ at[p] # "idle" /\ timeouts < MaxTimeout
  /\ Abandon(p)
  /\ timeouts' = timeouts + 1
  /\ UNCHANGED <<table, runs, up, executor, crashes>>

-----------------------------------------------------------------------------
(* execute_fired_event *)

Stage(p, e, from, to) ==
  /\ p \in up /\ executor[p][e] = from
  /\ executor' = [executor EXCEPT ![p][e] = to]

\* It reads the event again, and leaves unless it is fired.
Read(p, e) ==
  /\ Stage(p, e, "created", IF verdict[e] = "fired" THEN "preparing" ELSE "over")
  /\ UNCHANGED <<table, runs, up, drain, bounds>>

\* prepare_run makes the run, whose task is started.
Prepare(p, e) ==
  /\ Stage(p, e, "preparing", "over")
  /\ runs' = [runs EXCEPT ![e] = @ + 1]
  /\ UNCHANGED <<table, up, drain, bounds>>

\* The routine or watch is gone or paused, the process drains, or an error.
Skip(p, e) ==
  /\ Stage(p, e, "preparing", "over")
  /\ UNCHANGED <<table, runs, up, drain, bounds>>

\* SpendCeilingReached: the event is held after all.
HoldForSpend(p, e) ==
  /\ Stage(p, e, "preparing", "over")
  /\ verdict' = [verdict EXCEPT ![e] = "held"]
  /\ UNCHANGED <<aged, runs, up, drain, bounds>>

-----------------------------------------------------------------------------
(* Crashes *)

\* The process dies, and its drain and executors with it.
Crash(p) ==
  /\ p \in up /\ crashes < MaxCrash
  /\ up' = up \ {p} /\ crashes' = crashes + 1
  /\ Abandon(p)
  /\ executor' = [executor EXCEPT ![p] =
       [e \in Event |-> IF @[e] \in {"created", "preparing"} THEN "over" ELSE @[e]]]
  /\ UNCHANGED <<table, runs, timeouts>>

Restart(p) ==
  /\ p \notin up /\ up' = up \cup {p}
  /\ UNCHANGED <<table, runs, drain, executor, bounds>>

Next ==
  \/ \E e \in Event : Emit(e) \/ Age(e)
  \/ \E p \in Replica :
       \/ Claim(p) \/ (\E v \in Final : Decide(p, v)) \/ WriteBack(p) \/ Launch(p)
       \/ Timeout(p) \/ Crash(p) \/ Restart(p)
       \/ \E e \in Event : Read(p, e) \/ Prepare(p, e) \/ Skip(p, e) \/ HoldForSpend(p, e)

Spec == Init /\ [][Next]_vars

\* Every replica ticks, the processor returns or fails, and time passes.
FairSpec ==
  /\ Spec
  /\ \A e \in Event : WF_vars(Age(e))
  /\ \A p \in Replica :
       /\ WF_vars(Claim(p)) /\ WF_vars(\E v \in Final : Decide(p, v))
       /\ WF_vars(WriteBack(p)) /\ WF_vars(Launch(p)) /\ WF_vars(Restart(p))

-----------------------------------------------------------------------------
(* Properties *)

TypeOK ==
  /\ verdict \in [Event -> {"none", "pending", "processing"} \cup Final]
  /\ aged \subseteq Event /\ up \subseteq Replica
  /\ runs \in [Event -> Nat]
  /\ at \in [Replica -> {"idle", "deciding", "decided"}]
  /\ batch \in [Replica -> SUBSET Event]
  /\ outcome \in [Replica -> {"none"} \cup Final]
  /\ toExecute \in [Replica -> SUBSET Event]
  /\ executor \in [Replica -> [Event -> {"none", "created", "preparing", "over"}]]
  /\ timeouts \in Nat /\ crashes \in Nat

\* An event is in the batch of one live drain only, and undecided while it is,
\* although nothing is locked while the processor works: a batch that was cut
\* short is taken over, never one in work.
OneDrainPerEvent ==
  \A p \in up : \A e \in batch[p] :
    /\ verdict[e] = "processing" /\ e \notin aged
    /\ \A q \in up \ {p} : e \notin batch[q]

\* An event starts one run at most, whichever replicas and takeovers it met.
OneRunPerEvent == \A e \in Event : runs[e] <= 1

\* What the table says of each event to whoever does not drain it
Shown == [e \in Event |-> IF verdict[e] \in {"pending", "processing"} THEN "open" ELSE verdict[e]]

\* All that the drains, takeovers and executors of the fleet do to the table is
\* what the ledger promises: one verdict, one run, no run for a held event.
Ledger == INSTANCE EventLedger WITH state <- Shown, started <- runs
FollowsLedger == Ledger!Spec

\* Every event is decided in the end, whatever batches were cut short.
EveryEventDecided == \A e \in Event : verdict[e] # "none" ~> verdict[e] \in Final

=============================================================================
