-------------------------- MODULE EventDrainProofs --------------------------
(***************************************************************************)
(* Theorems about EventDrain, for every number of replicas, events and     *)
(* events in a batch, and with no bound on timeouts and crashes.           *)
(***************************************************************************)
EXTENDS EventDrain, TLAPS

\* A decision belongs to a batch in work; a process that is gone has none.
DrainOK ==
  /\ \A p \in Replica : at[p] = "decided" => outcome[p] \in Final
  /\ \A p \in Replica : p \notin up => batch[p] = {} /\ toExecute[p] = {} /\ at[p] = "idle"

\* p is to make a run for e.
Owes(p, e) == e \in toExecute[p] \/ executor[p][e] \in {"created", "preparing"}

\* An event that was not decided has no run and no executor; a decided one has
\* at most one replica that owes it a run, once, and then no run yet.
Untouched ==
  \A e \in Event : verdict[e] \notin Final => runs[e] = 0 /\ \A p \in Replica : ~Owes(p, e)
OwesTheFirst == \A e \in Event, p \in Replica : Owes(p, e) => runs[e] = 0
OneOwes == \A e \in Event, p, q \in Replica : Owes(p, e) /\ Owes(q, e) => p = q
PreparesFired == \A e \in Event, p \in Replica : executor[p][e] = "preparing" => verdict[e] = "fired"
OwesOnce ==
  \A e \in Event, p \in Replica : e \in toExecute[p] => executor[p][e] \in {"none", "over"}

RunInv == Untouched /\ OwesTheFirst /\ OneOwes /\ PreparesFired /\ OwesOnce /\ OneRunPerEvent

DrainInv == TypeOK /\ DrainOK /\ OneDrainPerEvent /\ RunInv

LEMMA DrainInit == Init => DrainInv
  BY DrainAssumption DEF Init, DrainInv, TypeOK, DrainOK, OneDrainPerEvent, RunInv, Untouched, OwesTheFirst,
     OneOwes, PreparesFired, OwesOnce, Owes, OneRunPerEvent, Event, Final

LEMMA TypeStep == ASSUME TypeOK, [Next]_vars PROVE TypeOK'
<1> USE DEF TypeOK, Final
<1>1. ASSUME NEW e \in Event, Emit(e) PROVE TypeOK'
  BY <1>1 DEF Emit, table, drain, bounds
<1>2. ASSUME NEW e \in Event, Age(e) PROVE TypeOK'
  BY <1>2 DEF Age, table, drain, bounds
<1>3. ASSUME NEW p \in Replica, Claim(p) PROVE TypeOK'
  BY <1>3 DEF Claim, Claimable, table, drain, bounds
<1>4. ASSUME NEW p \in Replica, NEW v \in Final, Decide(p, v) PROVE TypeOK'
  BY <1>4 DEF Decide, table, drain, bounds
<1>5. ASSUME NEW p \in Replica, WriteBack(p) PROVE TypeOK'
  BY <1>5 DEF WriteBack, table, drain, bounds
<1>6. ASSUME NEW p \in Replica, Launch(p) PROVE TypeOK'
  BY <1>6 DEF Launch, table, drain, bounds
<1>7. ASSUME NEW p \in Replica, Timeout(p) PROVE TypeOK'
  BY <1>7 DEF Timeout, Abandon, table, drain, bounds
<1>8. ASSUME NEW p \in Replica, Crash(p) PROVE TypeOK'
  BY <1>8 DEF Crash, Abandon, table, drain, bounds
<1>9. ASSUME NEW p \in Replica, Restart(p) PROVE TypeOK'
  BY <1>9 DEF Restart, table, drain, bounds
<1>10. ASSUME NEW p \in Replica, NEW e \in Event, Read(p, e) PROVE TypeOK'
  BY <1>10 DEF Read, Stage, table, drain, bounds
<1>11. ASSUME NEW p \in Replica, NEW e \in Event, Prepare(p, e) PROVE TypeOK'
  BY <1>11 DEF Prepare, Stage, table, drain, bounds
<1>12. ASSUME NEW p \in Replica, NEW e \in Event, Skip(p, e) PROVE TypeOK'
  BY <1>12 DEF Skip, Stage, table, drain, bounds
<1>13. ASSUME NEW p \in Replica, NEW e \in Event, HoldForSpend(p, e) PROVE TypeOK'
  BY <1>13 DEF HoldForSpend, Stage, table, drain, bounds
<1>14. CASE UNCHANGED vars
  BY <1>14 DEF table, drain, bounds, vars, bounds
<1>15. QED
  BY <1>1, <1>2, <1>3, <1>4, <1>5, <1>6, <1>7, <1>8, <1>9, <1>10, <1>11, <1>12, <1>13, <1>14 DEF Next

LEMMA DrainStep == ASSUME TypeOK, DrainOK, [Next]_vars PROVE DrainOK'
<1> USE DEF TypeOK
<1>1. ASSUME NEW e \in Event, Emit(e) PROVE DrainOK'
  BY <1>1 DEF Emit, DrainOK, table, drain
<1>2. ASSUME NEW e \in Event, Age(e) PROVE DrainOK'
  BY <1>2 DEF Age, DrainOK, table, drain
<1>3. ASSUME NEW p \in Replica, Claim(p) PROVE DrainOK'
  BY <1>3 DEF Claim, Claimable, DrainOK, table, drain
<1>4. ASSUME NEW p \in Replica, NEW v \in Final, Decide(p, v) PROVE DrainOK'
  BY <1>4 DEF Decide, DrainOK, table, drain
<1>5. ASSUME NEW p \in Replica, WriteBack(p) PROVE DrainOK'
  BY <1>5 DEF WriteBack, DrainOK, table, drain
<1>6. ASSUME NEW p \in Replica, Launch(p) PROVE DrainOK'
  BY <1>6 DEF Launch, DrainOK, table, drain
<1>7. ASSUME NEW p \in Replica, Timeout(p) PROVE DrainOK'
  BY <1>7 DEF Timeout, Abandon, DrainOK, table, drain
<1>8. ASSUME NEW p \in Replica, Crash(p) PROVE DrainOK'
  BY <1>8 DEF Crash, Abandon, DrainOK, table, drain
<1>9. ASSUME NEW p \in Replica, Restart(p) PROVE DrainOK'
  BY <1>9 DEF Restart, DrainOK, table, drain
<1>10. ASSUME NEW p \in Replica, NEW e \in Event, Read(p, e) PROVE DrainOK'
  BY <1>10 DEF Read, Stage, DrainOK, table, drain
<1>11. ASSUME NEW p \in Replica, NEW e \in Event, Prepare(p, e) PROVE DrainOK'
  BY <1>11 DEF Prepare, Stage, DrainOK, table, drain
<1>12. ASSUME NEW p \in Replica, NEW e \in Event, Skip(p, e) PROVE DrainOK'
  BY <1>12 DEF Skip, Stage, DrainOK, table, drain
<1>13. ASSUME NEW p \in Replica, NEW e \in Event, HoldForSpend(p, e) PROVE DrainOK'
  BY <1>13 DEF HoldForSpend, Stage, DrainOK, table, drain
<1>14. CASE UNCHANGED vars
  BY <1>14 DEF DrainOK, table, drain, vars, bounds
<1>15. QED
  BY <1>1, <1>2, <1>3, <1>4, <1>5, <1>6, <1>7, <1>8, <1>9, <1>10, <1>11, <1>12, <1>13, <1>14 DEF Next

LEMMA ClaimStep == ASSUME DrainInv, [Next]_vars PROVE OneDrainPerEvent'
<1> USE DEF DrainInv, TypeOK, Final
<1>1. ASSUME NEW e \in Event, Emit(e) PROVE OneDrainPerEvent'
  BY <1>1 DEF Emit, OneDrainPerEvent, DrainOK, table, drain
<1>2. ASSUME NEW e \in Event, Age(e) PROVE OneDrainPerEvent'
  BY <1>2 DEF Age, OneDrainPerEvent, DrainOK, table, drain
<1>3. ASSUME NEW p \in Replica, Claim(p) PROVE OneDrainPerEvent'
  BY <1>3 DEF Claim, Claimable, OneDrainPerEvent, DrainOK, table, drain
<1>4. ASSUME NEW p \in Replica, NEW v \in Final, Decide(p, v) PROVE OneDrainPerEvent'
  BY <1>4 DEF Decide, OneDrainPerEvent, DrainOK, table, drain
<1>5. ASSUME NEW p \in Replica, WriteBack(p) PROVE OneDrainPerEvent'
  BY <1>5 DEF WriteBack, OneDrainPerEvent, DrainOK, table, drain
<1>6. ASSUME NEW p \in Replica, Launch(p) PROVE OneDrainPerEvent'
  BY <1>6 DEF Launch, OneDrainPerEvent, DrainOK, table, drain
<1>7. ASSUME NEW p \in Replica, Timeout(p) PROVE OneDrainPerEvent'
  BY <1>7 DEF Timeout, Abandon, OneDrainPerEvent, DrainOK, table, drain
<1>8. ASSUME NEW p \in Replica, Crash(p) PROVE OneDrainPerEvent'
  BY <1>8 DEF Crash, Abandon, OneDrainPerEvent, DrainOK, table, drain
<1>9. ASSUME NEW p \in Replica, Restart(p) PROVE OneDrainPerEvent'
  BY <1>9 DEF Restart, OneDrainPerEvent, DrainOK, table, drain
<1>10. ASSUME NEW p \in Replica, NEW e \in Event, Read(p, e) PROVE OneDrainPerEvent'
  BY <1>10 DEF Read, Stage, OneDrainPerEvent, DrainOK, table, drain
<1>11. ASSUME NEW p \in Replica, NEW e \in Event, Prepare(p, e) PROVE OneDrainPerEvent'
  BY <1>11 DEF Prepare, Stage, OneDrainPerEvent, DrainOK, table, drain
<1>12. ASSUME NEW p \in Replica, NEW e \in Event, Skip(p, e) PROVE OneDrainPerEvent'
  BY <1>12 DEF Skip, Stage, OneDrainPerEvent, DrainOK, table, drain
<1>13. ASSUME NEW p \in Replica, NEW e \in Event, HoldForSpend(p, e) PROVE OneDrainPerEvent'
  BY <1>13 DEF HoldForSpend, Stage, OneDrainPerEvent, RunInv, PreparesFired, table, drain
<1>14. CASE UNCHANGED vars
  BY <1>14 DEF OneDrainPerEvent, DrainOK, table, drain, vars, bounds
<1>15. QED
  BY <1>1, <1>2, <1>3, <1>4, <1>5, <1>6, <1>7, <1>8, <1>9, <1>10, <1>11, <1>12, <1>13, <1>14 DEF Next

\* A verdict is written back for an event nobody owes a run; if it fires, the
\* replica that writes it owes the first.
LEMMA WriteBackRuns == ASSUME DrainInv, NEW p \in Replica, WriteBack(p) PROVE RunInv'
<1>1. PICK e \in batch[p] :
        /\ verdict' = [verdict EXCEPT ![e] = outcome[p]]
        /\ toExecute' = [toExecute EXCEPT ![p] = IF outcome[p] = "fired" THEN @ \cup {e} ELSE @]
        /\ UNCHANGED <<runs, executor>>
  BY DEF WriteBack
<1>2. e \in Event /\ outcome[p] \in Final /\ verdict[e] = "processing" /\ verdict \in [Event -> {"none", "pending", "processing"} \cup Final]
  BY DEF WriteBack, DrainInv, TypeOK, DrainOK, OneDrainPerEvent
<1>3. runs[e] = 0 /\ \A q \in Replica : ~Owes(q, e)
  BY <1>2 DEF DrainInv, RunInv, Untouched, Final
<1>4. \A f \in Event, q \in Replica :
        f \in toExecute'[q] <=> f \in toExecute[q] \/ (f = e /\ q = p /\ outcome[p] = "fired")
  BY <1>1 DEF DrainInv, TypeOK
<1>5. \A f \in Event, q \in Replica :
        Owes(q, f)' <=> Owes(q, f) \/ (f = e /\ q = p /\ outcome[p] = "fired")
  BY <1>1, <1>4 DEF Owes
<1>6. \A f \in Event : verdict'[f] = IF f = e THEN outcome[p] ELSE verdict[f]
  BY <1>1, <1>2
<1>7. Untouched'
  BY <1>1, <1>2, <1>5, <1>6 DEF DrainInv, RunInv, Untouched
<1>8. OwesTheFirst' /\ OneOwes'
  BY <1>1, <1>3, <1>5 DEF DrainInv, RunInv, OwesTheFirst, OneOwes
<1>9. PreparesFired'
  BY <1>1, <1>3, <1>6 DEF DrainInv, RunInv, PreparesFired, Owes
<1>10. OwesOnce'
  <2>1. executor[p][e] \in {"none", "over"}
    BY <1>2, <1>3 DEF Owes, DrainInv, TypeOK
  <2>2. QED
    BY <1>1, <1>4, <2>1 DEF DrainInv, RunInv, OwesOnce
<1>11. OneRunPerEvent'
  BY <1>1 DEF DrainInv, RunInv, OneRunPerEvent
<1>12. QED
  BY <1>7, <1>8, <1>9, <1>10, <1>11 DEF RunInv

LEMMA RunStep == ASSUME DrainInv, [Next]_vars PROVE RunInv'
<1> USE DEF DrainInv, TypeOK, Final, RunInv, Untouched, OwesTheFirst, OneOwes, PreparesFired, OwesOnce,
        Owes, OneRunPerEvent
<1>1. ASSUME NEW e \in Event, Emit(e) PROVE RunInv'
  BY <1>1 DEF Emit, DrainOK, OneDrainPerEvent, table, drain
<1>2. ASSUME NEW e \in Event, Age(e) PROVE RunInv'
  BY <1>2 DEF Age, DrainOK, OneDrainPerEvent, table, drain
<1>3. ASSUME NEW p \in Replica, Claim(p) PROVE RunInv'
  BY <1>3 DEF Claim, Claimable, DrainOK, OneDrainPerEvent, table, drain
<1>4. ASSUME NEW p \in Replica, NEW v \in Final, Decide(p, v) PROVE RunInv'
  BY <1>4 DEF Decide, DrainOK, OneDrainPerEvent, table, drain
<1>5. ASSUME NEW p \in Replica, WriteBack(p) PROVE RunInv'
  BY <1>5, WriteBackRuns
<1>6. ASSUME NEW p \in Replica, Launch(p) PROVE RunInv'
  BY <1>6 DEF Launch, DrainOK, OneDrainPerEvent, table, drain
<1>7. ASSUME NEW p \in Replica, Timeout(p) PROVE RunInv'
  BY <1>7 DEF Timeout, Abandon, DrainOK, OneDrainPerEvent, table, drain
<1>8. ASSUME NEW p \in Replica, Crash(p) PROVE RunInv'
  BY <1>8 DEF Crash, Abandon, DrainOK, OneDrainPerEvent, table, drain
<1>9. ASSUME NEW p \in Replica, Restart(p) PROVE RunInv'
  BY <1>9 DEF Restart, DrainOK, OneDrainPerEvent, table, drain
<1>10. ASSUME NEW p \in Replica, NEW e \in Event, Read(p, e) PROVE RunInv'
  BY <1>10 DEF Read, Stage, DrainOK, OneDrainPerEvent, table, drain
<1>11. ASSUME NEW p \in Replica, NEW e \in Event, Prepare(p, e) PROVE RunInv'
  BY <1>11 DEF Prepare, Stage, DrainOK, OneDrainPerEvent, table, drain
<1>12. ASSUME NEW p \in Replica, NEW e \in Event, Skip(p, e) PROVE RunInv'
  BY <1>12 DEF Skip, Stage, DrainOK, OneDrainPerEvent, table, drain
<1>13. ASSUME NEW p \in Replica, NEW e \in Event, HoldForSpend(p, e) PROVE RunInv'
  BY <1>13 DEF HoldForSpend, Stage, DrainOK, OneDrainPerEvent, table, drain
<1>14. CASE UNCHANGED vars
  BY <1>14 DEF DrainOK, OneDrainPerEvent, table, drain, vars, bounds
<1>15. QED
  BY <1>1, <1>2, <1>3, <1>4, <1>5, <1>6, <1>7, <1>8, <1>9, <1>10, <1>11, <1>12, <1>13, <1>14 DEF Next

LEMMA InvStep == DrainInv /\ [Next]_vars => DrainInv'
<1> SUFFICES ASSUME DrainInv, [Next]_vars PROVE DrainInv' OBVIOUS
<1>1. TypeOK' BY TypeStep DEF DrainInv
<1>2. DrainOK' BY DrainStep DEF DrainInv
<1>3. QED BY <1>1, <1>2, ClaimStep, RunStep DEF DrainInv

\* An event is in one live batch at most and undecided while it is there, for
\* any number of replicas, batches cut short, crashes and takeovers.
THEOREM ClaimIsExclusive == Spec => []OneDrainPerEvent
<1>1. DrainInv => OneDrainPerEvent BY DEF DrainInv
<1>2. QED BY <1>1, DrainInit, InvStep, PTL DEF Spec

\* drain_once and execute_fired_event together start an event's run once.
THEOREM EventRunsOnce == Spec => []OneRunPerEvent
<1>1. DrainInv => OneRunPerEvent BY DEF DrainInv, RunInv
<1>2. QED BY <1>1, DrainInit, InvStep, PTL DEF Spec

LEMMA InitMaps == Init => Ledger!Init
  BY DEF Init, Ledger!Init, Shown

\* A step that leaves what is shown, and the runs, as they are
LEMMA HiddenSteps ==
  ASSUME DrainInv, NEW p \in Replica,
         \/ Claim(p) \/ (\E v \in Final : Decide(p, v)) \/ Launch(p) \/ Timeout(p)
         \/ Crash(p) \/ Restart(p) \/ \E e \in Event : Read(p, e) \/ Skip(p, e)
  PROVE  UNCHANGED <<Shown, runs>>
<1> USE DEF Shown, table
<1>1. CASE Claim(p) BY <1>1 DEF Claim, Claimable, DrainInv, TypeOK
<1>2. CASE (\E v \in Final : Decide(p, v)) \/ Launch(p) \/ Timeout(p)
  BY <1>2 DEF Decide, Launch, Timeout
<1>3. CASE Crash(p) \/ Restart(p) BY <1>3 DEF Crash, Restart
<1>4. CASE \E e \in Event : Read(p, e) \/ Skip(p, e) BY <1>4 DEF Read, Skip
<1>5. QED BY <1>1, <1>2, <1>3, <1>4

LEMMA StepMaps == DrainInv /\ [Next]_vars => [Ledger!Next]_<<Shown, runs>>
<1> SUFFICES ASSUME DrainInv, [Next]_vars PROVE [Ledger!Next]_<<Shown, runs>> OBVIOUS
<1> USE DEF Shown, Ledger!Next
<1>1. ASSUME NEW e \in Event, Emit(e) PROVE Ledger!Receive(e)
  BY <1>1 DEF Emit, Ledger!Receive, DrainInv, TypeOK
<1>2. ASSUME NEW p \in Replica, WriteBack(p)
      PROVE  \E e \in Event, v \in Final : Ledger!Judge(e, v)
  <2>1. PICK e \in batch[p] : /\ verdict' = [verdict EXCEPT ![e] = outcome[p]]
                              /\ UNCHANGED runs
    BY <1>2 DEF WriteBack
  <2>2. e \in Event /\ outcome[p] \in Final /\ verdict[e] = "processing"
    BY <1>2, <2>1 DEF WriteBack, DrainInv, TypeOK, DrainOK, OneDrainPerEvent
  <2>3. PICK v \in Final : v = outcome[p] BY <2>2
  <2>4. Ledger!Judge(e, v)
    BY <2>1, <2>2, <2>3 DEF Ledger!Judge, DrainInv, TypeOK, Final
  <2>5. QED BY <2>2, <2>4
<1>3. ASSUME NEW p \in Replica, NEW e \in Event, Prepare(p, e) PROVE Ledger!StartRun(e)
  <2>1. verdict[e] = "fired" /\ runs[e] = 0
    BY <1>3 DEF Prepare, Stage, DrainInv, RunInv, PreparesFired, OwesTheFirst, Owes
  <2>2. QED BY <1>3, <2>1 DEF Prepare, Ledger!StartRun, DrainInv, TypeOK, table
<1>4. ASSUME NEW p \in Replica, NEW e \in Event, HoldForSpend(p, e) PROVE Ledger!TurnBack(e)
  <2>1. verdict[e] = "fired" /\ runs[e] = 0
    BY <1>4 DEF HoldForSpend, Stage, DrainInv, RunInv, PreparesFired, OwesTheFirst, Owes
  <2>2. QED BY <1>4, <2>1 DEF HoldForSpend, Ledger!TurnBack, DrainInv, TypeOK
<1>5. ASSUME NEW e \in Event, Age(e) PROVE UNCHANGED <<Shown, runs>> BY <1>5 DEF Age
<1>6. CASE UNCHANGED vars BY <1>6 DEF vars, table
<1>7. QED BY <1>1, <1>2, <1>3, <1>4, <1>5, <1>6, HiddenSteps DEF Next, Final

\* The drains of all replicas implement the ledger: verdicts are kept though
\* they are written back unguarded, because whoever writes still owns the
\* claim, and a run is only started or refused for a fired event without one.
THEOREM DrainImplementsLedger == Spec => FollowsLedger
<1>1. QED BY DrainInit, InvStep, InitMaps, StepMaps, PTL
          DEF Spec, FollowsLedger, Ledger!Spec

=============================================================================
