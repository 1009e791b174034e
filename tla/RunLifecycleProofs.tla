------------------------- MODULE RunLifecycleProofs -------------------------
(***************************************************************************)
(* Theorems about RunLifecycle, for every number of replicas, runs, tasks  *)
(* and slots, and with no bound on Stops, pauses, crashes and drains.      *)
(***************************************************************************)
EXTENDS RunLifecycle, FiniteSetTheorems, TLAPS

\* A slot is idle exactly when it has no job.
JobOK == \A t \in Task : pc[t] = "idle" <=> job[t] = NoJob

\* A heartbeat is that of a task that holds an admission slot.
BeatOK == \A t \in Task : t \in beating => pc[t] \in Holding

LEMMA NoJobType == ASSUME NEW j \in [run : Run, at : Replica, resume : BOOLEAN]
                   PROVE  j # NoJob
  BY ConstantsAssumption DEF NoJob

LEMMA WrittenType == ASSUME NEW s \in Status, NEW r, status \in [Run -> Status]
                     PROVE  Written(r, s) \in [Run -> Status]
  BY DEF Written

LEMMA SpendType ==
  ASSUME NEW what \in {"crash", "drain", "cancel", "pause", "spare"}, NEW limit, Spend(what, limit),
         spent \in [{"crash", "drain", "cancel", "pause", "spare"} -> Nat]
  PROVE  spent' \in [{"crash", "drain", "cancel", "pause", "spare"} -> Nat]
  BY DEF Spend

LEMMA AnswerType ==
  ASSUME TypeOK, NEW r \in Run, Answer(r)
  PROVE  /\ answered' \in [Run -> [now : BOOLEAN, spare : Nat]]
         /\ spent' \in [{"crash", "drain", "cancel", "pause", "spare"} -> Nat]
<1>1. answered[r] \in [now : BOOLEAN, spare : Nat] BY DEF TypeOK
<1>2. answered[r].spare + (IF answered[r].now THEN 1 ELSE 0) \in Nat BY <1>1
<1>3. answered' \in [Run -> [now : BOOLEAN, spare : Nat]]
  BY <1>2 DEF Answer, TypeOK
<1>4. spent' \in [{"crash", "drain", "cancel", "pause", "spare"} -> Nat]
  BY SpendType DEF Answer, TypeOK
<1>5. QED BY <1>3, <1>4

LEMMA AfterCancelType ==
  ASSUME NEW at \in PC
  PROVE  /\ AfterCancel(at) \in PC
         /\ AfterCancel(at) = "idle" <=> at = "idle"
         /\ AfterCancel(at) \notin Executing
         /\ at \in Holding /\ AfterCancel(at) # "ended" => AfterCancel(at) \in Holding
  BY DEF AfterCancel, PC, Holding, Executing

-----------------------------------------------------------------------------
(* Types, and the registry *)

TypeInv == TypeOK /\ JobOK /\ BeatOK /\ RegistryAlive

LEMMA TypeInit == Init => TypeInv
<1> SUFFICES ASSUME Init PROVE TypeInv OBVIOUS
<1>1. TypeOK
  BY ConstantsAssumption DEF Init, TypeOK, Status, Terminal, PC, Holding, NoJob
<1>2. JobOK /\ BeatOK /\ RegistryAlive BY DEF Init, JobOK, BeatOK, RegistryAlive
<1>3. QED BY <1>1, <1>2 DEF TypeInv

LEMMA TypeStep == TypeInv /\ [Next]_vars => TypeInv'
<1> SUFFICES ASSUME TypeInv, [Next]_vars PROVE TypeInv' OBVIOUS
<1> USE DEF TypeInv
<1>1. ASSUME NEW p \in Replica, NEW r \in Run, Create(p, r) PROVE TypeInv'
  BY <1>1 DEF Create, TypeOK, JobOK, BeatOK, RegistryAlive, Status, Terminal, proc
<1>2. ASSUME NEW p \in Replica, NEW r \in Run, NEW resume \in BOOLEAN, Launch(p, r, resume),
             UNCHANGED beating
      PROVE  /\ pc' \in [Task -> PC]
             /\ job' \in [Task -> [run : Run, at : Replica, resume : BOOLEAN] \cup {NoJob}]
             /\ reg' \in [Replica -> [Run -> Task \cup {NoTask}]]
             /\ JobOK' /\ BeatOK' /\ RegistryAlive'
  <2>1. PICK t \in Task : /\ pc[t] = "idle" /\ pc' = [pc EXCEPT ![t] = "load"]
                          /\ job' = [job EXCEPT ![t] = [run |-> r, at |-> p, resume |-> resume]]
                          /\ reg' = [reg EXCEPT ![p][r] = t]
    BY <1>2 DEF Launch
  <2>2. [run |-> r, at |-> p, resume |-> resume] \in [run : Run, at : Replica, resume : BOOLEAN]
    OBVIOUS
  <2>3. [run |-> r, at |-> p, resume |-> resume] # NoJob BY <2>2, NoJobType
  <2>4. JobOK' BY <2>1, <2>3 DEF TypeOK, JobOK
  <2>5. BeatOK' BY <1>2, <2>1 DEF TypeOK, BeatOK, Holding
  <2>6. RegistryAlive' BY <2>1, ConstantsAssumption DEF TypeOK, RegistryAlive
  <2>7. QED BY <2>1, <2>2, <2>4, <2>5, <2>6 DEF TypeOK, PC
<1>3. ASSUME NEW p \in Replica, NEW r \in Run, Start(p, r) PROVE TypeInv'
  BY <1>2, <1>3 DEF Start, TypeOK, row, proc
<1>4. ASSUME NEW p \in Replica, NEW r \in Run, Resume(p, r) PROVE TypeInv'
  BY <1>2, <1>4, AnswerType DEF Resume, TypeOK, proc, work
<1>5. ASSUME NEW T, Cancel(T), UNCHANGED <<job, reg>>
      PROVE  /\ pc' \in [Task -> PC] /\ beating' \subseteq Task /\ silent' \subseteq Run
             /\ JobOK' /\ BeatOK' /\ RegistryAlive'
  <2>0. silent' \subseteq Run BY <1>5 DEF Cancel, Unheard, TypeOK, JobOK
  <2>1. pc' \in [Task -> PC] /\ beating' \subseteq Task
    BY <1>5, AfterCancelType DEF Cancel, TypeOK
  <2>2. \A t \in Task : pc'[t] = "idle" <=> pc[t] = "idle"
    BY <1>5, AfterCancelType DEF Cancel, TypeOK
  <2>3. ASSUME NEW t \in Task, t \in beating' PROVE pc'[t] \in Holding
    <3>1. t \in beating /\ pc[t] \in Holding BY <1>5, <2>3 DEF Cancel, BeatOK
    <3>2. CASE t \in T
      BY <1>5, <2>3, <3>1, <3>2, AfterCancelType DEF Cancel, PC
    <3>3. CASE t \notin T BY <1>5, <3>1, <3>3 DEF Cancel
    <3>4. QED BY <3>2, <3>3
  <2>4. BeatOK' BY <2>3 DEF BeatOK
  <2>5. JobOK' BY <1>5, <2>2 DEF JobOK
  <2>6. RegistryAlive' BY <1>5, <2>2 DEF RegistryAlive, TypeOK
  <2>7. QED BY <2>0, <2>1, <2>4, <2>5, <2>6
<1>6. ASSUME NEW p \in Replica, NEW r \in Run, CancelHere(p, r) PROVE TypeInv'
  <2>1. spent' \in [{"crash", "drain", "cancel", "pause", "spare"} -> Nat]
    BY <1>6, SpendType DEF CancelHere, TypeOK
  <2>2. TypeOK'
    BY <1>5, <1>6, <2>1 DEF CancelHere, TypeOK, row, proc, work
  <2>3. QED BY <1>5, <1>6, <2>2 DEF CancelHere
<1>7. ASSUME NEW p \in Replica, NEW r \in Run, CancelRow(p, r) PROVE TypeInv'
  BY <1>7 DEF CancelRow, Spend, TypeOK, JobOK, BeatOK, RegistryAlive, row, proc
<1>8. ASSUME NEW p \in Replica, NEW r \in Run, FinalizeCancel(p, r) PROVE TypeInv'
  BY <1>8, WrittenType DEF FinalizeCancel, TypeOK, JobOK, BeatOK, RegistryAlive, proc, Status, Terminal
<1>9. ASSUME NEW p \in Replica, NEW r \in Run, CancelElsewhere(p, r) PROVE TypeInv'
  BY <1>9 DEF CancelElsewhere, Spend, TypeOK, JobOK, BeatOK, RegistryAlive, proc
<1>10. ASSUME NEW p \in Replica, NEW r \in Run, Delete(p, r) PROVE TypeInv'
  BY <1>10 DEF Delete, TypeOK, JobOK, BeatOK, RegistryAlive, proc, work, Status
<1>11. ASSUME NEW p \in Replica, Purge(p) PROVE TypeInv'
  BY <1>11 DEF Purge, TypeOK, JobOK, BeatOK, RegistryAlive, proc, work, Status
<1>12. ASSUME NEW t \in Task, NEW from \in PC \ {"idle"}, NEW to \in PC \ {"idle"},
             Step(t, from, to), status' \in [Run -> Status],
             answered' \in [Run -> [now : BOOLEAN, spare : Nat]], beating' \subseteq Task, BeatOK',
             spent' \in [{"crash", "drain", "cancel", "pause", "spare"} -> Nat]
      PROVE  TypeInv'
  BY <1>12 DEF Step, Goto, TypeOK, JobOK, BeatOK, RegistryAlive, proc, work
<1>13. ASSUME NEW t \in Task, NEW s \in Status, Write(t, s)
       PROVE  status' \in [Run -> Status]
  BY <1>13, WrittenType DEF Write, TypeOK
<1> HIDE DEF TypeInv
<1>14. ASSUME NEW t \in Task, Execute(t), ~Finish(t) PROVE TypeInv'
  <2> USE <1>12, <1>13 DEF PC, Holding, Status, Terminal
  <2>0. TypeOK /\ JobOK /\ BeatOK BY DEF TypeInv
  <2>1. CASE Load(t) BY <2>0, <2>1 DEF Load, Step, Goto, TypeOK, JobOK, BeatOK
  <2>2. CASE Acquire(t)
    <3>1. Step(t, "wait", "start") /\ UNCHANGED <<status, answered, beating, spent>>
      BY <2>2 DEF Acquire
    <3>2. BeatOK'
      BY <2>0, <3>1 DEF Step, Goto, TypeOK, BeatOK
    <3>3. QED BY <2>0, <3>1, <3>2 DEF TypeOK
  <2>3. CASE WriteQueuedCancel(t)
    <3>1. /\ Step(t, "qcancel", "ended") /\ Write(t, "cancelled")
          /\ UNCHANGED <<answered, beating, spent>>
      BY <2>3 DEF WriteQueuedCancel
    <3>2. BeatOK'
      BY <2>0, <3>1 DEF Step, Goto, TypeOK, BeatOK
    <3>3. status' \in [Run -> Status] BY <2>0, <3>1
    <3>4. "qcancel" \in PC \ {"idle"} /\ "ended" \in PC \ {"idle"} OBVIOUS
    <3>5. QED BY <1>12, <2>0, <3>1, <3>2, <3>3, <3>4 DEF TypeOK
  <2>4. CASE MarkRunning(t) BY <2>0, <2>4, ZenonT(30) DEF MarkRunning, Step, Goto, TypeOK, JobOK, BeatOK
  <2>5. CASE Preamble(t) BY <2>0, <2>5, ZenonT(30) DEF Preamble, Step, Goto, TypeOK, JobOK, BeatOK
  <2>6. CASE Complete(t) BY <2>0, <2>6, ZenonT(30) DEF Complete, Step, Goto, TypeOK, JobOK, BeatOK
  <2>7. CASE Pause(t)
    <3>1. /\ Step(t, "body", "parked") /\ Write(t, "paused_hitl") /\ UNCHANGED beating
          /\ answered' = [answered EXCEPT ![job[t].run].now = FALSE]
          /\ Spend("pause", MaxPause)
      BY <2>7 DEF Pause
    <3>2. answered' \in [Run -> [now : BOOLEAN, spare : Nat]]
      BY <2>0, <3>1 DEF TypeOK
    <3>3. spent' \in [{"crash", "drain", "cancel", "pause", "spare"} -> Nat]
      BY <2>0, <3>1, SpendType DEF TypeOK
    <3>4. BeatOK' BY <2>0, <3>1 DEF Step, Goto, TypeOK, BeatOK
    <3>5. status' \in [Run -> Status] BY <2>0, <3>1
    <3>6. "body" \in PC \ {"idle"} /\ "parked" \in PC \ {"idle"} OBVIOUS
    <3>7. QED BY <1>12, <2>0, <3>1, <3>2, <3>3, <3>4, <3>5, <3>6 DEF TypeOK
  <2>8. CASE Fail(t) BY <2>0, <2>8, ZenonT(30) DEF Fail, Step, Goto, TypeOK, JobOK, BeatOK
  <2>9. CASE WriteFailed(t) BY <2>0, <2>9, ZenonT(30) DEF WriteFailed, Step, Goto, TypeOK, JobOK, BeatOK
  <2>10. CASE WriteCancelled(t) BY <2>0, <2>10, ZenonT(30) DEF WriteCancelled, Step, Goto, TypeOK, JobOK, BeatOK
  <2>11. CASE Return(t)
    <3>1. PICK from \in {"announce", "parked"} : Step(t, from, "ended")
      BY <2>11 DEF Return
    <3>2. BeatOK' BY <2>0, <2>11, <3>1 DEF Return, Step, Goto, TypeOK, BeatOK
    <3>3. QED BY <2>0, <2>11, <3>1, <3>2 DEF Return, TypeOK
  <2>12. QED BY <1>14, <2>1, <2>2, <2>3, <2>4, <2>5, <2>6, <2>7, <2>8, <2>9, <2>10, <2>11 DEF Execute
<1>15. ASSUME NEW t \in Task, Finish(t) PROVE TypeInv'
  <2>1. pc[t] = "ended" /\ job[t] # NoJob
    BY <1>15 DEF Finish, TypeInv, JobOK
  <2>2. job[t].run \in Run /\ job[t].at \in Replica BY <2>1 DEF TypeInv, TypeOK
  <2>3. TypeOK' BY <1>15, <2>2 DEF Finish, Goto, TypeInv, TypeOK, row, work, PC
  <2>4. JobOK' /\ BeatOK'
    BY <1>15 DEF Finish, Goto, TypeInv, TypeOK, JobOK, BeatOK, row, Holding
  <2>5. RegistryAlive'
    BY <1>15, <2>2 DEF Finish, Goto, TypeInv, TypeOK, RegistryAlive
  <2>6. QED BY <2>3, <2>4, <2>5 DEF TypeInv
<1>16. ASSUME NEW t \in Task, WallClock(t) PROVE TypeInv'
  <2>1. PICK at \in {"timing", "ended", "overrun"} :
          /\ pc' = [pc EXCEPT ![t] = at] /\ pc[t] # "idle"
          /\ at = "ended" => beating' = beating \ {t}
          /\ at # "ended" => beating' = beating
    BY <1>16 DEF WallClock, Goto
  <2>7. silent' \subseteq Run BY <1>16 DEF WallClock, TypeInv, TypeOK, JobOK
  <2>2. TypeOK' BY <1>16, <2>1, <2>7 DEF WallClock, TypeInv, TypeOK, row, proc, work, PC, Holding
  <2>3. JobOK' BY <1>16, <2>1 DEF WallClock, TypeInv, TypeOK, JobOK
  <2>4. BeatOK' BY <2>1 DEF TypeInv, TypeOK, BeatOK, Holding
  <2>5. RegistryAlive' BY <1>16, <2>1 DEF WallClock, TypeInv, TypeOK, RegistryAlive
  <2>6. QED BY <2>2, <2>3, <2>4, <2>5 DEF TypeInv
<1>17. ASSUME NEW t \in Task, CancelAgain(t) PROVE TypeInv'
  <2>1. TypeOK' BY <1>5, <1>17 DEF CancelAgain, TypeInv, TypeOK, row, proc, work
  <2>2. QED BY <1>5, <1>17, <2>1 DEF CancelAgain, TypeInv
<1>18. ASSUME NEW p \in Replica, NEW r \in Run, CancelLocal(p, r)
       PROVE  /\ pc' \in [Task -> PC] /\ awaiting' \subseteq Task /\ silent' \subseteq Run
              /\ \A t \in Task : pc'[t] = "idle" <=> pc[t] = "idle"
              /\ \A t \in Task : t \in beating /\ pc'[t] # "ended" => pc'[t] \in Holding
  <2>1. CASE reg[p][r] = NoTask
    BY <1>18, <2>1 DEF CancelLocal, TypeInv, TypeOK, BeatOK
  <2>2. CASE reg[p][r] # NoTask
    <3> DEFINE u == reg[p][r]
    <3>1. u \in Task BY <2>2 DEF TypeInv, TypeOK
    <3>2. /\ pc' = [pc EXCEPT ![u] = AfterCancel(pc[u])] /\ awaiting' = awaiting \cup {u}
          /\ silent' \subseteq silent \cup {r}
      BY <1>18, <2>2 DEF CancelLocal
    <3>3. pc \in [Task -> PC] /\ awaiting \subseteq Task /\ silent \subseteq Run BY DEF TypeInv, TypeOK
    <3>4. \A t \in Task : t \in beating => pc[t] \in Holding BY DEF TypeInv, BeatOK
    <3> HIDE DEF u
    <3>5. QED BY <3>1, <3>2, <3>3, <3>4, AfterCancelType
  <2>3. QED BY <2>1, <2>2
<1>19. ASSUME NEW t \in Task, Beat(t) PROVE TypeInv'
  <2> DEFINE r == job[t].run
  <2>1. t \in beating BY <1>19 DEF Beat
  <2>2. job[t] # NoJob
    BY <1>19, <2>1 DEF Beat, TypeInv, TypeOK, JobOK, BeatOK, Holding
  <2>3. CASE cancelReq[r]
    BY <2>2, <1>19, <1>18, <2>3 DEF Beat, TypeInv, TypeOK, JobOK, BeatOK, RegistryAlive, proc, work
  <2>4. CASE ~cancelReq[r]
    BY <2>2, <1>19, <2>4 DEF Beat, TypeInv, TypeOK, JobOK, BeatOK, RegistryAlive, proc, work
  <2>5. QED BY <2>3, <2>4
<1>20. ASSUME NEW p \in Replica, NEW r \in Run, Notice(p, r) PROVE TypeInv'
  BY <1>18, <1>20 DEF Notice, TypeInv, TypeOK, JobOK, BeatOK, RegistryAlive, row, proc
<1>21. ASSUME NEW p \in Replica, Gone(p), UNCHANGED row,
              lapsed' \subseteq Replica,
              spent' \in [{"crash", "drain", "cancel", "pause", "spare"} -> Nat]
       PROVE  TypeInv'
  <2>1. TypeOK' BY <1>21 DEF Gone, TypeInv, TypeOK, row, PC
  <2>2. JobOK' /\ BeatOK' BY <1>21 DEF Gone, TypeInv, TypeOK, JobOK, BeatOK
  <2>3. RegistryAlive'
    BY <1>21, ConstantsAssumption DEF Gone, TypeInv, TypeOK, RegistryAlive
  <2>4. QED BY <2>1, <2>2, <2>3 DEF TypeInv
<1>22. ASSUME NEW p \in Replica, Crash(p) PROVE TypeInv'
  BY <1>21, <1>22, SpendType DEF Crash, TypeInv, TypeOK
<1>23. ASSUME NEW p \in Replica, BeginDrain(p) PROVE TypeInv'
  <2>1. spent' \in [{"crash", "drain", "cancel", "pause", "spare"} -> Nat]
    BY <1>23, SpendType DEF BeginDrain, TypeInv, TypeOK
  <2>2. QED BY <1>23, <2>1 DEF BeginDrain, TypeInv, TypeOK, JobOK, BeatOK, RegistryAlive, row, work
<1>24. ASSUME NEW p \in Replica, GraceExpired(p) PROVE TypeInv'
  <2>1. TypeOK' BY <1>5, <1>24 DEF GraceExpired, TypeInv, TypeOK, row, work
  <2>2. QED BY <1>5, <1>24, <2>1 DEF GraceExpired, TypeInv
<1>25. ASSUME NEW p \in Replica, Exit(p) PROVE TypeInv'
  BY <1>21, <1>25 DEF Exit, TypeInv, TypeOK
<1>26. ASSUME NEW p \in Replica, Lapse(p) PROVE TypeInv'
  BY <1>26 DEF Lapse, TypeInv, TypeOK, JobOK, BeatOK, RegistryAlive, row, work
<1>27. ASSUME NEW p \in Replica, Boot(p) PROVE TypeInv'
  BY <1>27 DEF Boot, Restarted, TypeInv, TypeOK, JobOK, BeatOK, RegistryAlive, work, Status, Terminal
<1>28. ASSUME NEW p \in Replica, NEW r \in Run, ReapDeadOwner(p, r) PROVE TypeInv'
  BY <1>28 DEF ReapDeadOwner, TypeInv, TypeOK, JobOK, BeatOK, RegistryAlive, proc, work, Status, Terminal
<1>29. ASSUME NEW r \in Run, Age(r) PROVE TypeInv'
  BY <1>29 DEF Age, TypeInv, TypeOK, JobOK, BeatOK, RegistryAlive, proc, work
<1>30. ASSUME NEW p \in Replica, NEW r \in Run, ReapSelect(p, r) PROVE TypeInv'
  BY <1>30 DEF ReapSelect, TypeInv, TypeOK, JobOK, BeatOK, RegistryAlive, row, proc
<1>31. ASSUME NEW p \in Replica, NEW r \in Run, ReapWrite(p, r) PROVE TypeInv'
  <2>1. TypeOK'
    BY <1>5, <1>31, WrittenType DEF ReapWrite, TypeInv, TypeOK, proc, Status, Terminal
  <2>2. QED BY <1>5, <1>31, <2>1 DEF ReapWrite, TypeInv
<1>32. CASE UNCHANGED vars
  BY <1>32 DEF vars, TypeInv, TypeOK, JobOK, BeatOK, RegistryAlive, row, proc, work
<1>33. ASSUME NEW p \in Replica, NEW r \in Run, Request(p, r) PROVE TypeInv'
  BY <1>1, <1>4, <1>6, <1>7, <1>9, <1>10, <1>33 DEF Request, Retry
<1>34. ASSUME NEW p \in Replica, NEW r \in Run, Pending(p, r) \/ Reap(p, r) PROVE TypeInv'
  BY <1>3, <1>8, <1>20, <1>28, <1>30, <1>31, <1>34 DEF Pending, Reap
<1>35. ASSUME NEW t \in Task, Execute(t) \/ Interrupt(t) PROVE TypeInv'
  BY <1>14, <1>15, <1>16, <1>17, <1>19, <1>35 DEF Interrupt
<1>36. ASSUME NEW p \in Replica, Process(p) PROVE TypeInv'
  BY <1>11, <1>22, <1>23, <1>24, <1>25, <1>26, <1>27, <1>36 DEF Process
<1>37. QED BY <1>29, <1>32, <1>33, <1>34, <1>35, <1>36 DEF Next

\* RUNNING_TASKS is sound on every replica of a fleet of any size: whatever is
\* launched, cancelled, resumed, drained or lost, an entry is a task that still
\* has steps to take, of that run and in that process.
THEOREM RegistryIsSound == Spec => [](TypeOK /\ RegistryAlive)
<1>1. TypeInv => TypeOK /\ RegistryAlive BY DEF TypeInv
<1>2. QED BY <1>1, TypeInit, TypeStep, PTL DEF Spec

-----------------------------------------------------------------------------
(* A row is inserted before anything is done for it *)

Untold(r) == /\ \A t \in Task : job[t].run # r
             /\ \A p \in Replica : <<p, r>> \notin toStart \cup finalizing \cup reaping

Known == \A r \in Run : IF status[r] = "none" THEN Untold(r) ELSE owner[r] \in Replica

\* A step that inserts no row and starts nothing for a row that is not there
Tells(r) ==
  /\ status'[r] = "none" <=> status[r] = "none"
  /\ owner'[r] = owner[r]
  /\ status[r] = "none" /\ Untold(r) => Untold(r)'

LEMMA TellsKnown == ASSUME Known, \A r \in Run : Tells(r) PROVE Known'
  BY DEF Known, Tells

LEMMA KnownInit == Init => Known
  BY ConstantsAssumption DEF Init, Known, Untold, NoJob

LEMMA KnownRequest ==
  ASSUME TypeInv, Known, NEW p \in Replica, NEW r \in Run,
         Request(p, r) \/ Pending(p, r) \/ Reap(p, r)
  PROVE  Known'
<1> USE DEF TypeInv, TypeOK
<1>1. CASE Create(p, r)
  <2>1. \A s \in Run : s # r => Tells(s) BY <1>1 DEF Create, Tells, Untold
  <2>2. status'[r] # "none" /\ owner'[r] = p BY <1>1 DEF Create
  <2>3. QED BY <2>1, <2>2 DEF Known, Tells
<1>2. CASE Resume(p, r)
  <2>1. \A s \in Run : Tells(s)
    BY <1>2 DEF Resume, Launch, Tells, Untold, work
  <2>2. QED BY <2>1, TellsKnown
<1>3. CASE Start(p, r)
  <2>1. \A s \in Run : Tells(s)
    BY <1>3 DEF Start, Launch, Tells, Untold, row
  <2>2. QED BY <2>1, TellsKnown
<1>4. CASE CancelHere(p, r) \/ Notice(p, r)
  <2>1. \A s \in Run : Tells(s)
    BY <1>4 DEF CancelHere, Notice, Tells, Untold, row, work
  <2>2. QED BY <2>1, TellsKnown
<1>5. CASE CancelRow(p, r) \/ CancelElsewhere(p, r)
  <2>1. \A s \in Run : Tells(s)
    BY <1>5 DEF CancelRow, CancelElsewhere, Tells, Untold, row
  <2>2. QED BY <2>1, TellsKnown
<1>6. CASE FinalizeCancel(p, r)
  <2>1. status[r] # "none" BY <1>6 DEF FinalizeCancel, Known, Untold
  <2>2. \A s \in Run : Tells(s)
    BY <1>6, <2>1 DEF FinalizeCancel, Written, Tells, Untold
  <2>3. QED BY <2>2, TellsKnown
<1>7. CASE ReapWrite(p, r)
  <2>1. status[r] # "none" BY <1>7 DEF ReapWrite, Known, Untold
  <2>2. \A s \in Run : Tells(s)
    BY <1>7, <2>1 DEF ReapWrite, Written, Tells, Untold
  <2>3. QED BY <2>2, TellsKnown
<1>8. CASE ReapSelect(p, r)
  <2>1. \A s \in Run : Tells(s) BY <1>8 DEF ReapSelect, Tells, Untold, row
  <2>2. QED BY <2>1, TellsKnown
<1>9. CASE Delete(p, r) \/ ReapDeadOwner(p, r)
  <2>1. \A s \in Run : Tells(s)
    BY <1>9 DEF Delete, ReapDeadOwner, Tells, Untold, work
  <2>2. QED BY <2>1, TellsKnown
<1>10. QED
  BY <1>1, <1>2, <1>3, <1>4, <1>5, <1>6, <1>7, <1>8, <1>9 DEF Request, Retry, Pending, Reap

LEMMA KnownTask ==
  ASSUME TypeInv, Known, NEW t \in Task, Execute(t) \/ Interrupt(t)
  PROVE  Known'
<1> USE DEF TypeInv, TypeOK
<1>1. ASSUME NEW s \in Status \ {"none"}, UNCHANGED <<owner, job, work>>, pc[t] # "idle",
             status' = status \/ Write(t, s)
      PROVE  Known'
  <2>1. job[t].run \in Run BY <1>1 DEF JobOK
  <2>2. status[job[t].run] # "none" BY <2>1 DEF Known, Untold
  <2>3. \A r \in Run : Tells(r)
    BY <1>1, <2>1, <2>2 DEF Write, Written, Tells, Untold, work
  <2>4. QED BY <2>3, TellsKnown
<1>2. CASE Execute(t) /\ ~Finish(t)
  <2>1. /\ UNCHANGED <<owner, job, work>> /\ pc[t] # "idle"
        /\ \/ status' = status
           \/ \E s \in {"cancelled", "running", "completed", "paused_hitl", "failed"} : Write(t, s)
    BY <1>2 DEF Execute, Load, Acquire, WriteQueuedCancel, MarkRunning, Preamble, Complete, Pause,
       Fail, WriteFailed, WriteCancelled, Return, Step
  <2>2. {"cancelled", "running", "completed", "paused_hitl", "failed"} \subseteq Status \ {"none"}
    BY DEF Status, Terminal
  <2>3. QED BY <1>1, <2>1, <2>2
<1>3. CASE Finish(t)
  <2>1. \A r \in Run : Tells(r)
    BY <1>3, ConstantsAssumption DEF Finish, Tells, Untold, row, work, NoJob
  <2>2. QED BY <2>1, TellsKnown
<1>4. CASE Interrupt(t)
  <2>1. UNCHANGED <<status, owner, job, work>>
    BY <1>4 DEF Interrupt, WallClock, CancelAgain, Beat, row
  <2>2. \A r \in Run : Tells(r) BY <2>1 DEF Tells, Untold, work
  <2>3. QED BY <2>2, TellsKnown
<1>5. QED BY <1>2, <1>3, <1>4

LEMMA KnownProcess ==
  ASSUME TypeInv, Known,
         \/ \E p \in Replica : Process(p)
         \/ \E r \in Run : Age(r)
         \/ UNCHANGED vars
  PROVE  Known'
<1> USE DEF TypeInv, TypeOK
<1>1. ASSUME NEW p \in Replica, Gone(p), UNCHANGED row PROVE Known'
  <2>1. \A r \in Run : Tells(r)
    BY <1>1, ConstantsAssumption DEF Gone, Tells, Untold, row, NoJob
  <2>2. QED BY <2>1, TellsKnown
<1>2. ASSUME NEW p \in Replica, Process(p) PROVE Known'
  <2>1. CASE Crash(p) \/ Exit(p)
    BY <1>1, <2>1 DEF Crash, Exit
  <2>2. CASE BeginDrain(p) \/ GraceExpired(p) \/ Lapse(p)
    <3>1. \A r \in Run : Tells(r)
      BY <2>2 DEF BeginDrain, GraceExpired, Lapse, Tells, Untold, row, work
    <3>2. QED BY <3>1, TellsKnown
  <2>3. CASE Boot(p) \/ Purge(p)
    <3>1. \A r \in Run : Tells(r)
      BY <2>3 DEF Boot, Restarted, Purge, Tells, Untold, work
    <3>2. QED BY <3>1, TellsKnown
  <2>4. QED BY <1>2, <2>1, <2>2, <2>3 DEF Process
<1>3. CASE (\E r \in Run : Age(r)) \/ UNCHANGED vars
  <2>1. \A r \in Run : Tells(r)
    BY <1>3 DEF Age, vars, Tells, Untold, row, work
  <2>2. QED BY <2>1, TellsKnown
<1>4. QED BY <1>2, <1>3

LEMMA KnownStep == TypeInv /\ Known /\ [Next]_vars => Known'
  BY KnownRequest, KnownTask, KnownProcess DEF Next

-----------------------------------------------------------------------------
(* One executor for a run, and completed runs *)

\* No task may carry run r to an outcome.
Free(r) == \A t \in Task : job[t].run = r => pc[t] \notin Executing

\* Nobody has been asked to execute r, or r was paused and not answered yet.
Resting(r) == \/ status[r] \in {"none", "completed"}
              \/ status[r] = "paused_hitl" /\ ~answered[r].now

\* At most n tasks may carry r to an outcome.
AtMost(r, n) == IsFiniteSet(Executors(r)) /\ Cardinality(Executors(r)) <= n

\* OneExecutor is not inductive: a first task is also started by the request that
\* created the run, which must find it free, and by the first decision for a
\* pause.  While a run rests there is therefore room for one.
ExecInv ==
  /\ \A r \in Run : AtMost(r, 1 + answered[r].spare)
  /\ \A r \in Run : Resting(r) => AtMost(r, answered[r].spare)
  /\ \A r \in Run : status[r] \in {"none", "completed", "paused_hitl"} =>
                      \A p \in Replica : <<p, r>> \notin toStart
  /\ \A p \in Replica, r \in Run : <<p, r>> \in toStart => Free(r)
  /\ \A p, q \in Replica, r \in Run : <<p, r>> \in toStart /\ <<q, r>> \in toStart => p = q

\* A step that starts nothing and moves no run into a resting state
Quiet ==
  /\ \A t \in Task : pc'[t] \in Executing => pc[t] \in Executing /\ job'[t] = job[t]
  /\ toStart' \subseteq toStart /\ answered' = answered
  /\ \A r \in Run : status'[r] \in {"none", "paused_hitl", "completed"} => status'[r] = status[r]

LEMMA FewerExecutors ==
  ASSUME NEW r \in Run, NEW n \in Nat, AtMost(r, n), Executors(r)' \subseteq Executors(r)
  PROVE  AtMost(r, n)'
<1>1. IsFiniteSet(Executors(r)) /\ Cardinality(Executors(r)) <= n BY DEF AtMost
<1>2. IsFiniteSet(Executors(r)') /\ Cardinality(Executors(r)') <= Cardinality(Executors(r))
  BY <1>1, FS_Subset
<1>3. Cardinality(Executors(r)) \in Nat /\ Cardinality(Executors(r)') \in Nat
  BY <1>1, <1>2, FS_CardinalityType
<1>4. QED BY <1>1, <1>2, <1>3 DEF AtMost

LEMMA OneExecutorLess ==
  ASSUME NEW r \in Run, NEW n \in Nat, AtMost(r, 1 + n), NEW t \in Executors(r),
         Executors(r)' \subseteq Executors(r) \ {t}
  PROVE  AtMost(r, n)'
<1> DEFINE E == Executors(r)
<1>1. IsFiniteSet(E) /\ Cardinality(E) <= 1 + n BY DEF AtMost
<1>2. IsFiniteSet(E \ {t}) /\ Cardinality(E \ {t}) = Cardinality(E) - 1
  BY <1>1, FS_RemoveElement
<1>3. IsFiniteSet(E') /\ Cardinality(E') <= Cardinality(E \ {t})
  BY <1>2, FS_Subset
<1>4. Cardinality(E) \in Nat /\ Cardinality(E') \in Nat BY <1>1, <1>3, FS_CardinalityType
<1> HIDE DEF E
<1>5. IsFiniteSet(E') /\ Cardinality(E') <= n BY <1>1, <1>2, <1>3, <1>4
<1>6. QED BY <1>5 DEF AtMost, E

LEMMA OneExecutorMore ==
  ASSUME NEW r \in Run, NEW n \in Nat, AtMost(r, n), NEW t,
         Executors(r)' \subseteq Executors(r) \cup {t}
  PROVE  AtMost(r, 1 + n)'
<1> DEFINE E == Executors(r)
<1>1. IsFiniteSet(E) /\ Cardinality(E) <= n BY DEF AtMost
<1>2. /\ IsFiniteSet(E \cup {t})
      /\ Cardinality(E \cup {t}) = Cardinality(E) \/ Cardinality(E \cup {t}) = Cardinality(E) + 1
  BY <1>1, FS_AddElement
<1>3. IsFiniteSet(E') /\ Cardinality(E') <= Cardinality(E \cup {t})
  BY <1>2, FS_Subset
<1>4. Cardinality(E) \in Nat /\ Cardinality(E') \in Nat BY <1>1, <1>3, FS_CardinalityType
<1> HIDE DEF E
<1>5. IsFiniteSet(E') /\ Cardinality(E') <= 1 + n BY <1>1, <1>2, <1>3, <1>4
<1>6. QED BY <1>5 DEF AtMost, E

LEMMA QuietKeeps == ASSUME TypeOK, ExecInv, Quiet PROVE ExecInv'
<1>1. \A r \in Run : Executors(r)' \subseteq Executors(r)
  BY DEF Quiet, Executors, TasksOf
<1>2. \A r \in Run : answered[r].spare \in Nat /\ 1 + answered[r].spare \in Nat BY DEF TypeOK
<1>3. \A r \in Run : Resting(r)' => Resting(r) BY DEF Quiet, Resting
<1>4. toStart' \subseteq toStart /\ answered' = answered BY DEF Quiet
<1>5. \A r \in Run : AtMost(r, 1 + answered[r].spare)'
  BY <1>1, <1>2, <1>4, FewerExecutors DEF ExecInv, AtMost
<1>6. \A r \in Run : Resting(r)' => AtMost(r, answered[r].spare)'
  BY <1>1, <1>2, <1>3, <1>4, FewerExecutors DEF ExecInv, AtMost
<1>7. \A r \in Run : Free(r) => Free(r)' BY DEF Quiet, Free
<1>8. ASSUME NEW r \in Run, status'[r] \in {"none", "completed", "paused_hitl"}
      PROVE  \A p \in Replica : <<p, r>> \notin toStart'
  BY <1>4, <1>8 DEF ExecInv, Quiet
<1>9. QED BY <1>4, <1>5, <1>6, <1>7, <1>8 DEF ExecInv

LEMMA CancelQuiet == ASSUME TypeInv, NEW T, Cancel(T), UNCHANGED job
                     PROVE  \A t \in Task : pc'[t] \in Executing =>
                              pc[t] \in Executing /\ job'[t] = job[t]
  BY AfterCancelType DEF Cancel, TypeInv, TypeOK

LEMMA CancelLocalQuiet == ASSUME TypeInv, NEW p \in Replica, NEW r \in Run,
                                 CancelLocal(p, r), UNCHANGED job
                          PROVE  \A t \in Task : pc'[t] \in Executing =>
                                   pc[t] \in Executing /\ job'[t] = job[t]
  BY AfterCancelType DEF CancelLocal, TypeInv, TypeOK

LEMMA RequestExec == ASSUME TypeInv, Known, ExecInv, NEW p \in Replica, NEW r \in Run,
                            Request(p, r)
                     PROVE  ExecInv'
<1> USE DEF TypeInv
<1>0. \A s \in Run : answered[s].spare \in Nat /\ 1 + answered[s].spare \in Nat BY DEF TypeOK
<1>1. CASE Create(p, r)
  <2>1. /\ status[r] = "none" /\ UNCHANGED <<pc, job, answered>>
        /\ toStart' = toStart \cup {<<p, r>>}
    BY <1>1 DEF Create
  <2>2. Free(r)' /\ \A q \in Replica : <<q, r>> \notin toStart
    BY <2>1 DEF Known, Untold, Free
  <2>3. status'[r] = "queued" /\ ~Resting(r)' BY <1>1 DEF Create, Resting, TypeOK
  <2>4. \A s \in Run : s # r => (Resting(s)' <=> Resting(s)) /\ status'[s] = status[s]
    BY <1>1 DEF Create, Resting, TypeOK
  <2>5. \A s \in Run : Free(s)' <=> Free(s) BY <2>1 DEF Free
  <2>6. \A s \in Run : AtMost(s, 1 + answered[s].spare)' 
                    /\ (AtMost(s, answered[s].spare) => AtMost(s, answered[s].spare)')
    BY <2>1 DEF ExecInv, AtMost, Executors, TasksOf
  <2>7. QED BY <2>1, <2>2, <2>3, <2>4, <2>5, <2>6 DEF ExecInv
<1>2. CASE Resume(p, r)
  <2>1. /\ status[r] = "paused_hitl" /\ status' = status /\ toStart' = toStart
        /\ answered' = [answered EXCEPT ![r] = [now |-> TRUE,
                            spare |-> @.spare + (IF @.now THEN 1 ELSE 0)]]
    BY <1>2 DEF Resume, Answer, work
  <2>2. PICK t \in Task : /\ pc[t] = "idle" /\ pc' = [pc EXCEPT ![t] = "load"]
                          /\ job' = [job EXCEPT ![t] = [run |-> r, at |-> p, resume |-> TRUE]]
    BY <1>2 DEF Resume, Launch
  <2>3. ~Resting(r)' BY <2>1 DEF Resting, TypeOK
  <2>4. \A s \in Run : s # r => (Resting(s)' <=> Resting(s)) /\ answered'[s] = answered[s]
    BY <2>1 DEF Resting, TypeOK
  <2>5. \A s \in Run : s # r => (Free(s) => Free(s)') /\ Executors(s)' \subseteq Executors(s)
    BY <2>2 DEF Free, Executors, TasksOf, Executing, TypeOK
  <2>6. Executors(r)' \subseteq Executors(r) \cup {t}
    BY <2>2 DEF Executors, TasksOf, TypeOK
  <2>7. AtMost(r, 1 + answered[r].spare)'
    <3>1. CASE answered[r].now
      <4>1. answered'[r].spare = 1 + answered[r].spare BY <1>0, <2>1, <3>1 DEF TypeOK
      <4>2. AtMost(r, 1 + answered[r].spare) BY DEF ExecInv
      <4>3. QED BY <1>0, <2>6, <4>1, <4>2, OneExecutorMore DEF AtMost
    <3>2. CASE ~answered[r].now
      <4>1. answered'[r].spare = answered[r].spare BY <1>0, <2>1, <3>2 DEF TypeOK
      <4>2. AtMost(r, answered[r].spare) BY <2>1, <3>2 DEF ExecInv, Resting
      <4>3. QED BY <1>0, <2>6, <4>1, <4>2, OneExecutorMore DEF AtMost
    <3>3. QED BY <3>1, <3>2
  <2>8. \A q \in Replica : <<q, r>> \notin toStart BY <2>1 DEF ExecInv
  <2>9. \A s \in Run : s # r => AtMost(s, 1 + answered[s].spare)'
                              /\ (AtMost(s, answered[s].spare) => AtMost(s, answered[s].spare)')
    BY <1>0, <2>4, <2>5, FewerExecutors DEF ExecInv, AtMost
  <2>10. QED BY <2>1, <2>3, <2>4, <2>5, <2>7, <2>8, <2>9 DEF ExecInv
<1>3. CASE Delete(p, r)
  <2>1. Quiet BY <1>3 DEF Delete, Quiet, work, TypeInv, TypeOK
  <2>2. QED BY <2>1, QuietKeeps DEF TypeInv
<1>4. CASE CancelHere(p, r)
  <2>1. Quiet BY <1>4, CancelQuiet DEF CancelHere, Quiet, row, work
  <2>2. QED BY <2>1, QuietKeeps DEF TypeInv
<1>5. CASE CancelRow(p, r)
  <2>1. Quiet BY <1>5 DEF CancelRow, Quiet, row
  <2>2. QED BY <2>1, QuietKeeps DEF TypeInv
<1>6. CASE CancelElsewhere(p, r)
  <2>1. Quiet BY <1>6 DEF CancelElsewhere, Quiet
  <2>2. QED BY <2>1, QuietKeeps DEF TypeInv
<1>7. QED BY <1>1, <1>2, <1>3, <1>4, <1>5, <1>6 DEF Request, Retry

LEMMA PendingExec == ASSUME TypeInv, ExecInv, NEW p \in Replica, NEW r \in Run,
                            Pending(p, r) \/ Reap(p, r)
                     PROVE  ExecInv'
<1>0. \A s \in Run : answered[s].spare \in Nat /\ 1 + answered[s].spare \in Nat BY DEF TypeInv, TypeOK
<1>1. CASE Start(p, r)
  <2>1. Free(r) /\ <<p, r>> \in toStart BY <1>1 DEF Start, ExecInv
  <2>2. PICK t \in Task : /\ pc[t] = "idle" /\ pc' = [pc EXCEPT ![t] = "load"]
                          /\ job' = [job EXCEPT ![t] = [run |-> r, at |-> p, resume |-> FALSE]]
    BY <1>1 DEF Start, Launch
  <2>3. \A s \in Run : s # r => (Free(s) => Free(s)') /\ Executors(s)' \subseteq Executors(s)
    BY <2>2 DEF Free, Executors, TasksOf, Executing, TypeInv, TypeOK
  <2>4. /\ status' = status /\ answered' = answered /\ toStart' = toStart \ {<<p, r>>}
        /\ \A s \in Run : Resting(s)' <=> Resting(s)
    BY <1>1 DEF Start, Resting, row
  <2>5. Executors(r) = {} BY <2>1 DEF Free, Executors, TasksOf
  <2>6. Executors(r)' \subseteq Executors(r) \cup {t}
    BY <2>2 DEF Executors, TasksOf, TypeInv, TypeOK
  <2>8. AtMost(r, answered[r].spare) BY <1>0, <2>5, FS_EmptySet DEF AtMost
  <2>9. AtMost(r, 1 + answered[r].spare)' BY <1>0, <2>4, <2>6, <2>8, OneExecutorMore DEF AtMost
  <2>10. ~Resting(r) BY <2>1 DEF ExecInv, Resting
  <2>11. \A q \in Replica : <<q, r>> \notin toStart' BY <2>1, <2>4 DEF ExecInv
  <2>12. \A s \in Run : s # r => AtMost(s, 1 + answered[s].spare)'
                              /\ (AtMost(s, answered[s].spare) => AtMost(s, answered[s].spare)')
    BY <1>0, <2>3, <2>4, FewerExecutors DEF ExecInv, AtMost
  <2>13. QED BY <2>3, <2>4, <2>9, <2>10, <2>11, <2>12 DEF ExecInv
<1>2. CASE FinalizeCancel(p, r)
  <2>1. Quiet BY <1>2 DEF FinalizeCancel, Written, Quiet, TypeInv, TypeOK
  <2>2. QED BY <2>1, QuietKeeps DEF TypeInv
<1>3. CASE Notice(p, r)
  <2>1. Quiet BY <1>3, CancelLocalQuiet DEF Notice, Quiet, row
  <2>2. QED BY <2>1, QuietKeeps DEF TypeInv
<1>4. CASE ReapDeadOwner(p, r)
  <2>1. Quiet BY <1>4 DEF ReapDeadOwner, Quiet, work, TypeInv, TypeOK
  <2>2. QED BY <2>1, QuietKeeps DEF TypeInv
<1>5. CASE ReapSelect(p, r)
  <2>1. Quiet BY <1>5 DEF ReapSelect, Quiet, row
  <2>2. QED BY <2>1, QuietKeeps DEF TypeInv
<1>6. CASE ReapWrite(p, r)
  <2>1. Quiet BY <1>6, CancelQuiet DEF ReapWrite, Written, Quiet, TypeInv, TypeOK
  <2>2. QED BY <2>1, QuietKeeps DEF TypeInv
<1>7. QED BY <1>1, <1>2, <1>3, <1>4, <1>5, <1>6 DEF Pending, Reap

LEMMA TaskExec == ASSUME TypeInv, ExecInv, NEW t \in Task, Execute(t) \/ Interrupt(t)
                  PROVE  ExecInv'
<1>1. CASE Complete(t) \/ Pause(t)
  <2>1. /\ pc[t] = "body" /\ job' = job /\ toStart' = toStart
        /\ pc' = [pc EXCEPT ![t] = "announce"] \/ pc' = [pc EXCEPT ![t] = "parked"]
    BY <1>1 DEF Complete, Pause, Step, Goto, work
  <2>2. PICK r \in Run : r = job[t].run BY <2>1 DEF TypeInv, TypeOK, JobOK
  <2>3. \A u \in Task : pc'[u] \in Executing => pc[u] \in Executing /\ u # t
    BY <2>1 DEF TypeInv, TypeOK, Executing
  <2>4. \A s \in Run : Executors(s)' \subseteq Executors(s) BY <2>1, <2>3 DEF Executors, TasksOf
  <2>5. t \in Executors(r) /\ Executors(r)' \subseteq Executors(r) \ {t}
    BY <2>1, <2>2, <2>3 DEF Executors, TasksOf, Executing
  <2>6. \A p \in Replica : <<p, r>> \notin toStart
    BY <2>2, <2>5 DEF ExecInv, Free, Executors, TasksOf
  <2>7. \A s \in Run : answered'[s].spare = answered[s].spare
    <3>1. \/ answered' = answered
          \/ answered' = [answered EXCEPT ![r].now = FALSE]
      BY <1>1, <2>2 DEF Complete, Pause
    <3>2. answered \in [Run -> [now : BOOLEAN, spare : Nat]] BY DEF TypeInv, TypeOK
    <3>3. QED BY <3>1, <3>2
  <2>8. \A s \in Run : answered[s].spare \in Nat /\ 1 + answered[s].spare \in Nat
    <3>1. \A s \in Run : answered[s].spare \in Nat BY DEF TypeInv, TypeOK
    <3>2. QED BY <3>1
  <2>9. \A s \in Run : Free(s) => Free(s)' BY <2>1, <2>3 DEF Free
  <2>10. \A s \in Run : s # r => (Resting(s)' => Resting(s)) /\ status'[s] = status[s]
    BY <1>1, <2>2 DEF Complete, Pause, Write, Written, Resting, TypeInv, TypeOK
  <2>11. AtMost(r, answered[r].spare)'
    <3>1. PICK n \in Nat : n = answered[r].spare BY <2>2, <2>8
    <3>2. AtMost(r, 1 + n) BY <2>2, <3>1 DEF ExecInv
    <3>3. AtMost(r, n)' BY <2>2, <2>5, <3>2, OneExecutorLess
    <3>4. answered'[r].spare = n BY <2>2, <2>7, <3>1
    <3>5. QED BY <3>3, <3>4 DEF AtMost
  <2>12. \A s \in Run : AtMost(s, 1 + answered[s].spare)'
                       /\ (AtMost(s, answered[s].spare) => AtMost(s, answered[s].spare)')
    BY <2>4, <2>7, <2>8, FewerExecutors DEF ExecInv, AtMost
  <2>13. QED BY <2>1, <2>2, <2>6, <2>9, <2>10, <2>11, <2>12 DEF ExecInv
<1>2. CASE Execute(t) /\ ~Complete(t) /\ ~Pause(t)
  <2> USE DEF Quiet, Step, Goto, Write, Written, work, TypeInv, TypeOK, Executing
  <2>1. CASE Load(t)
    <3>1. Quiet BY <2>1 DEF Load
    <3>2. QED BY <3>1, QuietKeeps DEF TypeInv
  <2>2. CASE Acquire(t)
    <3>1. Quiet BY <2>2 DEF Acquire
    <3>2. QED BY <3>1, QuietKeeps DEF TypeInv
  <2>3. CASE WriteQueuedCancel(t)
    <3>1. Quiet BY <2>3 DEF WriteQueuedCancel
    <3>2. QED BY <3>1, QuietKeeps DEF TypeInv
  <2>4. CASE MarkRunning(t)
    <3>1. Quiet BY <2>4 DEF MarkRunning
    <3>2. QED BY <3>1, QuietKeeps DEF TypeInv
  <2>5. CASE Preamble(t)
    <3>1. Quiet BY <2>5 DEF Preamble
    <3>2. QED BY <3>1, QuietKeeps DEF TypeInv
  <2>6. CASE Fail(t)
    <3>1. Quiet BY <2>6 DEF Fail
    <3>2. QED BY <3>1, QuietKeeps DEF TypeInv
  <2>7. CASE WriteFailed(t)
    <3>1. Quiet BY <2>7 DEF WriteFailed
    <3>2. QED BY <3>1, QuietKeeps DEF TypeInv
  <2>8. CASE WriteCancelled(t)
    <3>1. Quiet BY <2>8 DEF WriteCancelled
    <3>2. QED BY <3>1, QuietKeeps DEF TypeInv
  <2>9. CASE Return(t)
    <3>1. Quiet BY <2>9 DEF Return
    <3>2. QED BY <3>1, QuietKeeps DEF TypeInv
  <2>10. CASE Finish(t)
    <3>1. Quiet BY <2>10 DEF Finish, row
    <3>2. QED BY <3>1, QuietKeeps DEF TypeInv
  <2>11. QED BY <1>2, <2>1, <2>2, <2>3, <2>4, <2>5, <2>6, <2>7, <2>8, <2>9, <2>10 DEF Execute
<1>3. CASE WallClock(t)
  <2>1. PICK at \in {"timing", "ended", "overrun"} : pc' = [pc EXCEPT ![t] = at]
    BY <1>3 DEF WallClock, Goto
  <2>2. Quiet BY <1>3, <2>1 DEF WallClock, Quiet, row, work, TypeInv, TypeOK, Executing
  <2>3. QED BY <2>2, QuietKeeps DEF TypeInv
<1>4. CASE CancelAgain(t)
  <2>1. Quiet BY <1>4, CancelQuiet DEF CancelAgain, Quiet, row, work
  <2>2. QED BY <2>1, QuietKeeps DEF TypeInv
<1>5. CASE Beat(t)
  <2>1. job[t].run \in Run /\ job[t].at \in Replica
    BY <1>5 DEF Beat, TypeInv, TypeOK, JobOK, BeatOK, Holding
  <2>2. Quiet BY <1>5, <2>1, CancelLocalQuiet DEF Beat, Quiet, work
  <2>3. QED BY <2>2, QuietKeeps DEF TypeInv
<1>6. QED BY <1>1, <1>2, <1>3, <1>4, <1>5 DEF Interrupt

LEMMA ProcessExec == ASSUME TypeInv, ExecInv,
                            \/ \E p \in Replica : Process(p)
                            \/ \E r \in Run : Age(r)
                            \/ UNCHANGED vars
                     PROVE  ExecInv'
<1>1. ASSUME NEW p \in Replica, Gone(p), UNCHANGED row PROVE Quiet
  BY <1>1 DEF Gone, row, Quiet, Executing
<1>2. ASSUME NEW p \in Replica, Process(p) PROVE Quiet
  <2>1. CASE Crash(p) BY <1>1, <2>1 DEF Crash
  <2>2. CASE BeginDrain(p) BY <2>2 DEF BeginDrain, Quiet, row, work
  <2>3. CASE GraceExpired(p) BY <2>3, CancelQuiet DEF GraceExpired, Quiet, row, work
  <2>4. CASE Exit(p) BY <1>1, <2>4 DEF Exit
  <2>5. CASE Lapse(p) BY <2>5 DEF Lapse, Quiet, row, work
  <2>6. CASE Boot(p) BY <2>6 DEF Boot, Restarted, Quiet, work
  <2>7. CASE Purge(p) BY <2>7 DEF Purge, Quiet, work
  <2>8. QED BY <1>2, <2>1, <2>2, <2>3, <2>4, <2>5, <2>6, <2>7 DEF Process
<1>3. ASSUME NEW r \in Run, Age(r) PROVE Quiet BY <1>3 DEF Age, Quiet, work
<1>4. ASSUME UNCHANGED vars PROVE Quiet BY <1>4 DEF vars, row, work, Quiet
<1>5. QED BY <1>2, <1>3, <1>4, QuietKeeps DEF TypeInv

LEMMA ExecInit == Init => ExecInv
<1> SUFFICES ASSUME Init PROVE ExecInv OBVIOUS
<1>1. \A r \in Run : Free(r) /\ Executors(r) = {}
  BY DEF Init, Free, Executors, TasksOf, Executing
<1>2. \A r \in Run : answered[r].spare = 0 BY DEF Init
<1>3. IsFiniteSet({}) /\ Cardinality({}) = 0 BY FS_EmptySet
<1>4. \A r \in Run : AtMost(r, 0) /\ AtMost(r, 1) BY <1>1, <1>3 DEF AtMost
<1>5. toStart = {} BY DEF Init
<1>6. QED BY <1>1, <1>2, <1>4, <1>5 DEF ExecInv

LEMMA ExecStep == TypeInv /\ Known /\ ExecInv /\ [Next]_vars => ExecInv'
  BY RequestExec, PendingExec, TaskExec, ProcessExec DEF Next

\* However often pauses are answered, runs stopped and processes lost, in a fleet
\* of any size: a run has one executor, and at most one more for each decision
\* that was posted for a pause beside another; with one for each pause, one.
THEOREM AtMostOneExecutor == Spec => []OneExecutor
<1>1. Init => TypeInv /\ Known /\ ExecInv BY TypeInit, KnownInit, ExecInit
<1>2. TypeInv /\ Known /\ ExecInv /\ [Next]_vars => (TypeInv /\ Known /\ ExecInv)'
  BY TypeStep, KnownStep, ExecStep
<1>3. ExecInv => OneExecutor BY DEF ExecInv, OneExecutor, AtMost
<1>4. QED BY <1>1, <1>2, <1>3, PTL DEF Spec

LEMMA NotRevivedStep ==
  ASSUME TypeInv, ExecInv, [Next]_vars, NEW r \in Run, status[r] = "completed",
         status'[r] \in {"queued", "running", "paused_hitl"}
  PROVE  Cardinality(Executors(r)) \in 1 .. answered[r].spare
<1>1. AtMost(r, answered[r].spare) BY DEF ExecInv, Resting
<1>2. ASSUME NEW p \in Replica, NEW s \in Run, Request(p, s) \/ Pending(p, s) \/ Reap(p, s)
      PROVE  FALSE
  BY <1>2 DEF Request, Pending, Reap, Create, Retry, Resume, Delete, CancelHere, CancelRow,
     CancelElsewhere, Start, FinalizeCancel, Notice, ReapDeadOwner, ReapSelect, ReapWrite,
     Written, row, TypeInv, TypeOK
<1>3. ASSUME NEW t \in Task, Execute(t) PROVE t \in Executors(r)
  <2>1. job[t].run = r
    BY <1>3 DEF Execute, Load, Acquire, WriteQueuedCancel, MarkRunning, Preamble, Complete,
       Pause, Fail, WriteFailed, WriteCancelled, Return, Finish, Step, Write, Written, row,
       TypeInv, TypeOK
  <2>2. pc[t] \in Executing
    BY <1>3 DEF Execute, Load, Acquire, WriteQueuedCancel, MarkRunning, Preamble, Complete,
       Pause, Fail, WriteFailed, WriteCancelled, Return, Finish, Step, Write, Written, row,
       Executing, TypeInv, TypeOK
  <2>3. QED BY <2>1, <2>2 DEF Executors, TasksOf
<1>4. \A t \in Task : ~Interrupt(t) BY DEF Interrupt, WallClock, CancelAgain, Beat, row
<1>5. \A p \in Replica : ~Process(p)
  BY DEF Process, Crash, BeginDrain, GraceExpired, Exit, Lapse, Boot, Restarted, Purge, row,
     TypeInv, TypeOK
<1>6. \A s \in Run : ~Age(s) BY DEF Age
<1>7. ~UNCHANGED vars BY DEF vars, row
<1>8. PICK t \in Task : t \in Executors(r) BY <1>2, <1>3, <1>4, <1>5, <1>6, <1>7 DEF Next
<1>9. Cardinality(Executors(r)) \in Nat /\ Cardinality(Executors(r)) # 0
  BY <1>1, <1>8, FS_CardinalityType, FS_EmptySet DEF AtMost
<1>10. answered[r].spare \in Nat BY DEF TypeInv, TypeOK
<1>11. QED BY <1>1, <1>9, <1>10 DEF AtMost

\* Once a reader saw completed, a late write of a resume or of a pause shows the
\* run as going on only by a task that a spare decision started, of which no more
\* are left than there were spare decisions.
THEOREM CompletedStaysEnded == Spec => CompletedNotRevived
<1>1. Init => TypeInv /\ Known /\ ExecInv BY TypeInit, KnownInit, ExecInit
<1>2. TypeInv /\ Known /\ ExecInv /\ [Next]_vars => (TypeInv /\ Known /\ ExecInv)'
  BY TypeStep, KnownStep, ExecStep
<1>3. TypeInv /\ ExecInv /\ [Next]_vars =>
        [\A r \in Run :
           status[r] = "completed" /\ status'[r] \in {"queued", "running", "paused_hitl"} =>
             Cardinality(Executors(r)) \in 1 .. answered[r].spare]_vars
  BY NotRevivedStep
<1>4. QED BY <1>1, <1>2, <1>3, PTL DEF Spec, CompletedNotRevived

-----------------------------------------------------------------------------
(* Rows that wait, and who carries them *)

\* The places of a task that still has an outcome to write: before its row is
\* running, and after.
Waiting  == {"load", "wait", "start"}
Carrying == {"pre", "body", "failing", "overrun", "timing", "cancelling", "qcancel"}

Carried(r, at) == \E t \in Task : job[t].run = r /\ pc[t] \in at
Due(r)         == \E p \in Replica : <<p, r>> \in toStart

\* LiveRowHasTask is not inductive: a task that is over, or in its tail, is a task
\* too, and it ends without a write.  A run is started where its row says.
LiveInv ==
  /\ \A p \in Replica, r \in Run : <<p, r>> \in toStart => owner[r] = p
  /\ \A r \in Run :
       status[r] \in {"queued", "running"} /\ Up(owner[r]) /\ r \notin silent =>
         /\ status[r] = "running" => Carried(r, Carrying)
         /\ status[r] = "queued" => Carried(r, Waiting \cup Carrying) \/ Due(r)

LEMMA LiveInit == Init => LiveInv
  BY DEF Init, LiveInv

\* A step that leaves row r to those who carried it
Leaves(r) ==
  status'[r] \in {"queued", "running"} /\ Up(owner[r])' /\ r \notin silent' =>
    /\ status'[r] = status[r] /\ Up(owner[r]) /\ r \notin silent
    /\ \A t \in Task : job[t].run = r /\ pc[t] \in Waiting \cup Carrying =>
         /\ job'[t].run = r
         /\ pc[t] \in Carrying => pc'[t] \in Carrying
         /\ pc'[t] \in Waiting \cup Carrying
    /\ Due(r) => Due(r)' \/ Carried(r, Waiting)'

LEMMA LeavesLive ==
  ASSUME LiveInv, NEW r \in Run, Leaves(r), status'[r] \in {"queued", "running"},
         Up(owner[r])', r \notin silent'
  PROVE  /\ status'[r] = "running" => Carried(r, Carrying)'
         /\ status'[r] = "queued" => Carried(r, Waiting \cup Carrying)' \/ Due(r)'
<1>1. /\ status'[r] = status[r] /\ Up(owner[r]) /\ r \notin silent
      /\ \A t \in Task : job[t].run = r /\ pc[t] \in Waiting \cup Carrying =>
           /\ job'[t].run = r
           /\ pc[t] \in Carrying => pc'[t] \in Carrying
           /\ pc'[t] \in Waiting \cup Carrying
      /\ Due(r) => Due(r)' \/ Carried(r, Waiting)'
  BY DEF Leaves
<1>2. Carried(r, Carrying) => Carried(r, Carrying)'
  BY <1>1 DEF Carried
<1>3. Carried(r, Waiting \cup Carrying) => Carried(r, Waiting \cup Carrying)'
  BY <1>1 DEF Carried
<1>4. Carried(r, Waiting)' => Carried(r, Waiting \cup Carrying)'
  BY DEF Carried
<1>5. QED
  BY <1>1, <1>2, <1>3, <1>4 DEF LiveInv

LEMMA LeavesAll ==
  ASSUME LiveInv, \A r \in Run : Leaves(r), toStart' \subseteq toStart, owner' = owner
  PROVE  LiveInv'
  BY LeavesLive DEF LiveInv

\* A cancellation moves a task to its handler, or its run falls silent.
LEMMA CancelLeaves ==
  ASSUME TypeInv, LiveInv, NEW T, Cancel(T), UNCHANGED <<owner, job, toStart>>,
         \A r \in Run : status'[r] \in {"queued", "running"} => status'[r] = status[r],
         \A r \in Run : Up(owner[r])' => Up(owner[r])
  PROVE  LiveInv'
<1>1. ASSUME NEW r \in Run, r \notin silent', NEW t \in Task, job[t].run = r,
             pc[t] \in Waiting \cup Carrying
      PROVE  /\ pc[t] \in Carrying => pc'[t] \in Carrying
             /\ pc'[t] \in Waiting \cup Carrying
  <2>1. CASE t \notin T BY <1>1, <2>1 DEF Cancel
  <2>2. CASE t \in T
    <3>1. pc[t] \notin Unheard BY <1>1, <2>2 DEF Cancel
    <3>2. pc'[t] = AfterCancel(pc[t]) BY <2>2 DEF Cancel
    <3>3. QED BY <1>1, <3>1, <3>2 DEF AfterCancel, Unheard, Waiting, Carrying
  <2>3. QED BY <2>1, <2>2
<1>2. silent \subseteq silent' BY DEF Cancel
<1>3. \A r \in Run : Leaves(r) BY <1>1, <1>2 DEF Leaves, Due
<1>4. QED BY <1>3, LeavesAll

LEMMA CancelLocalLeaves ==
  ASSUME TypeInv, LiveInv, NEW p \in Replica, NEW q \in Run, CancelLocal(p, q),
         UNCHANGED <<owner, job, toStart, status, phase>>
  PROVE  LiveInv'
<1>1. ASSUME NEW r \in Run, r \notin silent', NEW t \in Task, job[t].run = r,
             pc[t] \in Waiting \cup Carrying
      PROVE  /\ pc[t] \in Carrying => pc'[t] \in Carrying
             /\ pc'[t] \in Waiting \cup Carrying
  <2>1. CASE reg[p][q] # t
    <3>1. pc'[t] = pc[t] BY <2>1 DEF CancelLocal, TypeInv, TypeOK
    <3>2. QED BY <1>1, <3>1
  <2>2. CASE reg[p][q] = t
    <3>1. reg[p][q] # NoTask BY <2>2, ConstantsAssumption
    <3>2. r = q BY <1>1, <2>2, <3>1 DEF TypeInv, RegistryAlive
    <3>3. pc[t] \notin Unheard BY <1>1, <2>2, <3>1, <3>2 DEF CancelLocal
    <3>4. pc'[t] = AfterCancel(pc[t]) BY <2>2, <3>1 DEF CancelLocal, TypeInv, TypeOK
    <3>5. QED BY <1>1, <3>3, <3>4 DEF AfterCancel, Unheard, Waiting, Carrying
  <2>3. QED BY <2>1, <2>2
<1>2. silent \subseteq silent' BY DEF CancelLocal
<1>3. \A r \in Run : Leaves(r) BY <1>1, <1>2 DEF Leaves, Due, Up
<1>4. QED BY <1>3, LeavesAll

LEMMA LiveRequest ==
  ASSUME TypeInv, Known, LiveInv, NEW p \in Replica, NEW r \in Run,
         Request(p, r) \/ Pending(p, r) \/ Reap(p, r)
  PROVE  LiveInv'
<1> USE DEF TypeInv, TypeOK
<1>1. CASE Create(p, r)
  <2>1. \A s \in Run : s # r => Leaves(s)
    BY <1>1 DEF Create, Leaves, Up, Due, Carried, proc
  <2>2. Due(r)' BY <1>1 DEF Create, Due
  <2>3. /\ status'[r] = "queued" /\ status[r] = "none" /\ toStart' = toStart \cup {<<p, r>>}
        /\ owner' = [owner EXCEPT ![r] = p]
    BY <1>1 DEF Create
  <2>4. \A q \in Replica : <<q, r>> \notin toStart BY <2>3 DEF Known, Untold
  <2>5. \A q \in Replica, s \in Run : <<q, s>> \in toStart' => owner'[s] = q
    BY <2>3, <2>4 DEF LiveInv
  <2>6. QED BY <2>1, <2>2, <2>3, <2>5, LeavesLive DEF LiveInv
<1>2. ASSUME NEW resume, Launch(p, r, resume)
      PROVE  /\ \A t \in Task : pc[t] # "idle" => pc'[t] = pc[t] /\ job'[t] = job[t]
             /\ Carried(r, Waiting)'
  BY <1>2 DEF Launch, Carried, Waiting
<1>3. CASE Resume(p, r)
  <2>1. \A s \in Run : Leaves(s)
    BY <1>2, <1>3 DEF Resume, Leaves, Up, Due, Waiting, Carrying, proc, work
  <2>2. toStart' = toStart /\ owner' = owner BY <1>3 DEF Resume, work
  <2>3. QED BY <2>1, <2>2, LeavesAll
<1>4. CASE Start(p, r)
  <2>1. ASSUME NEW s \in Run PROVE Due(s) => Due(s)' \/ Carried(s, Waiting)'
    <3>1. CASE s = r BY <1>2, <1>4, <3>1 DEF Start
    <3>2. CASE s # r BY <1>4, <3>2 DEF Start, Due
    <3>3. QED BY <3>1, <3>2
  <2>2. \A s \in Run : Leaves(s)
    BY <1>2, <1>4, <2>1 DEF Start, Leaves, Up, Waiting, Carrying, proc, row
  <2>3. toStart' \subseteq toStart /\ owner' = owner BY <1>4 DEF Start, row
  <2>4. QED BY <2>2, <2>3, LeavesAll
<1>5. CASE CancelHere(p, r)
  BY <1>5, CancelLeaves DEF CancelHere, row, proc, work, Up
<1>6. CASE CancelRow(p, r) \/ CancelElsewhere(p, r) \/ Delete(p, r) \/ FinalizeCancel(p, r)
        \/ ReapDeadOwner(p, r) \/ ReapSelect(p, r)
  <2>1. /\ UNCHANGED <<owner, pc, job, silent, proc, toStart>>
        /\ \A s \in Run : status'[s] \in {"queued", "running"} => status'[s] = status[s]
    BY <1>6 DEF CancelRow, CancelElsewhere, Delete, FinalizeCancel, ReapDeadOwner, ReapSelect,
       Written, row, work
  <2>2. \A s \in Run : Leaves(s) BY <2>1 DEF Leaves, Up, Due, proc
  <2>3. QED BY <2>1, <2>2, LeavesAll
<1>7. CASE Notice(p, r)
  BY <1>7, CancelLocalLeaves DEF Notice, row, proc
<1>8. CASE ReapWrite(p, r)
  BY <1>8, CancelLeaves DEF ReapWrite, Written, Up, proc
<1>9. QED
  BY <1>1, <1>3, <1>4, <1>5, <1>6, <1>7, <1>8 DEF Request, Retry, Pending, Reap

\* A task takes its run on, or ends its row
LEMMA LiveTask ==
  ASSUME TypeInv, Known, LiveInv, NEW t \in Task, Execute(t) \/ Interrupt(t)
  PROVE  LiveInv'
<1> USE DEF TypeInv, TypeOK
<1>1. ASSUME NEW from \in PC \ {"idle"}, NEW to, Step(t, from, to),
             \/ /\ status' = status
                /\ from \in Carrying => to \in Carrying
                /\ from \in Waiting => to \in Waiting \/ status[job[t].run] = "deleted"
             \/ \E s \in {"completed", "failed", "cancelled", "paused_hitl"} : Write(t, s)
      PROVE  LiveInv'
  <2>1. PICK r \in Run : r = job[t].run BY <1>1 DEF Step, JobOK
  <2>2. toStart' = toStart /\ owner' = owner BY <1>1 DEF Step, work
  <2>3. \A s \in Run : s # r => Leaves(s)
    BY <1>1, <2>1 DEF Step, Goto, Write, Written, Leaves, Up, Due, Waiting, Carrying, proc, work
  <2>4. Leaves(r)
    <3>1. ASSUME NEW s \in {"completed", "failed", "cancelled", "paused_hitl"}, Write(t, s)
          PROVE  Leaves(r)
      BY <2>1, <3>1 DEF Write, Written, Leaves
    <3>2. CASE /\ status' = status
               /\ from \in Carrying => to \in Carrying
               /\ from \in Waiting => to \in Waiting \/ status[job[t].run] = "deleted"
      BY <1>1, <2>1, <3>2 DEF Step, Goto, Leaves, Up, Due, proc, work
    <3>3. QED BY <1>1, <3>1, <3>2
  <2>5. QED BY <2>2, <2>3, <2>4, LeavesAll
<1>2. ASSUME NEW from \in Waiting \cup Carrying, NEW to \in Carrying, Step(t, from, to),
             Write(t, "running")
      PROVE  LiveInv'
  <2>1. PICK r \in Run : r = job[t].run BY <1>2 DEF Step, JobOK, Waiting, Carrying
  <2>2. toStart' = toStart /\ owner' = owner /\ silent' = silent BY <1>2 DEF Step, work
  <2>3. \A s \in Run : s # r => Leaves(s)
    BY <1>2, <2>1 DEF Step, Goto, Write, Written, Leaves, Up, Due, Waiting, Carrying, proc, work
  <2>4. Carried(r, Carrying)' BY <1>2, <2>1 DEF Step, Goto, Carried
  <2>5. status'[r] # "queued"
    BY <1>2, <2>1 DEF Write, Written
  <2>6. ASSUME NEW s \in Run, status'[s] \in {"queued", "running"}, Up(owner[s])', s \notin silent'
        PROVE  /\ status'[s] = "running" => Carried(s, Carrying)'
               /\ status'[s] = "queued" => Carried(s, Waiting \cup Carrying)' \/ Due(s)'
    <3>1. CASE s = r BY <2>4, <2>5, <3>1
    <3>2. CASE s # r BY <2>3, <2>6, <3>2, LeavesLive
    <3>3. QED BY <3>1, <3>2
  <2>7. QED BY <2>2, <2>6 DEF LiveInv
<1>3. ASSUME Execute(t), ~Finish(t) PROVE LiveInv'
  <2> USE DEF PC, Holding, Waiting, Carrying
  <2>1. CASE Load(t) BY <1>1, <2>1 DEF Load
  <2>2. CASE Acquire(t) BY <1>1, <2>2 DEF Acquire
  <2>3. CASE WriteQueuedCancel(t) BY <1>1, <2>3 DEF WriteQueuedCancel
  <2>4. CASE MarkRunning(t) BY <1>2, <2>4 DEF MarkRunning
  <2>5. CASE Preamble(t)
    <3> DEFINE to == IF status[job[t].run] = "deleted" THEN "ended" ELSE "body"
    <3>1. Step(t, "pre", to) /\ (status' = status \/ Write(t, "running"))
      BY <2>5 DEF Preamble
    <3>2. CASE status[job[t].run] = "deleted"
      <4>1. status' = status BY <3>1, <3>2 DEF Write, Written
      <4>2. job[t].run \in Run BY <3>1 DEF Step, JobOK
      <4>3. toStart' = toStart /\ owner' = owner BY <3>1 DEF Step, work
      <4>4. \A s \in Run : Leaves(s)
        BY <3>1, <3>2, <4>1, <4>2 DEF Step, Goto, Leaves, Up, Due, proc, work
      <4>5. QED BY <4>3, <4>4, LeavesAll
    <3>3. CASE status[job[t].run] # "deleted" /\ status' = status
      BY <1>1, <3>1, <3>3
    <3>4. CASE status[job[t].run] # "deleted" /\ Write(t, "running")
      BY <1>2, <3>1, <3>4
    <3>5. QED BY <3>1, <3>2, <3>3, <3>4
  <2>6. CASE Complete(t) BY <1>1, <2>6 DEF Complete
  <2>7. CASE Pause(t) BY <1>1, <2>7 DEF Pause
  <2>8. CASE Fail(t) BY <1>1, <2>8 DEF Fail
  <2>9. CASE WriteFailed(t) BY <1>1, <2>9 DEF WriteFailed
  <2>10. CASE WriteCancelled(t) BY <1>1, <2>10 DEF WriteCancelled
  <2>11. CASE Return(t) BY <1>1, <2>11 DEF Return
  <2>12. QED
    BY <1>3, <2>1, <2>2, <2>3, <2>4, <2>5, <2>6, <2>7, <2>8, <2>9, <2>10, <2>11 DEF Execute
<1>4. CASE Finish(t)
  <2>1. \A s \in Run : Leaves(s)
    BY <1>4 DEF Finish, Goto, Leaves, Up, Due, Waiting, Carrying, row, work
  <2>2. toStart' = toStart /\ owner' = owner BY <1>4 DEF Finish, row, work
  <2>3. QED BY <2>1, <2>2, LeavesAll
<1>5. CASE WallClock(t)
  <2>1. PICK at \in {"timing", "ended", "overrun"} :
          /\ pc' = [pc EXCEPT ![t] = at]
          /\ pc[t] \in Waiting \cup Carrying => at \in Carrying \/ job[t].run \in silent'
    BY <1>5 DEF WallClock, Goto, Waiting, Carrying
  <2>2. silent \subseteq silent' /\ UNCHANGED <<row, job, phase, toStart>>
    BY <1>5 DEF WallClock, proc, work
  <2>3. \A s \in Run : Leaves(s) BY <2>1, <2>2 DEF Leaves, Up, Due, row
  <2>4. QED BY <2>2, <2>3, LeavesAll DEF row
<1>6. CASE CancelAgain(t)
  BY <1>6, CancelLeaves DEF CancelAgain, row, proc, work, Up
<1>7. CASE Beat(t)
  <2>1. job[t].run \in Run /\ job[t].at \in Replica
    BY <1>7 DEF Beat, JobOK, BeatOK, Holding
  <2>2. UNCHANGED <<status, owner, job, toStart, phase>> BY <1>7 DEF Beat, proc, work
  <2>3. CASE cancelReq[job[t].run]
    BY <1>7, <2>1, <2>2, <2>3, CancelLocalLeaves DEF Beat
  <2>4. CASE ~cancelReq[job[t].run]
    <3>1. UNCHANGED <<pc, silent>> BY <1>7, <2>4 DEF Beat
    <3>2. \A s \in Run : Leaves(s) BY <2>2, <3>1 DEF Leaves, Up, Due
    <3>3. QED BY <2>2, <3>2, LeavesAll
  <2>5. QED BY <2>3, <2>4
<1>8. QED BY <1>3, <1>4, <1>5, <1>6, <1>7 DEF Interrupt

LEMMA LiveProcess ==
  ASSUME TypeInv, Known, LiveInv,
         \/ \E p \in Replica : Process(p)
         \/ \E r \in Run : Age(r)
         \/ UNCHANGED vars
  PROVE  LiveInv'
<1> USE DEF TypeInv, TypeOK
<1>1. ASSUME NEW p \in Replica, Gone(p), UNCHANGED row PROVE LiveInv'
  <2>1. ASSUME NEW r \in Run, status[r] \in {"queued", "running"}, Up(owner[r])', r \notin silent'
        PROVE  /\ owner[r] # p /\ Up(owner[r]) /\ r \notin silent
               /\ \A t \in Task : job[t].run = r => job[t].at # p
               /\ Due(r) => Due(r)'
    <3>1. owner[r] \in Replica BY <2>1 DEF Known
    <3>2. owner' = owner /\ phase' = [phase EXCEPT ![p] = "down"] BY <1>1 DEF Gone, row
    <3>3. owner[r] # p /\ Up(owner[r]) BY <2>1, <3>1, <3>2 DEF Up
    <3>4. r \notin silent /\ \A t \in Task : job[t].run = r => job[t].at # p
      BY <1>1, <2>1, <3>3 DEF Gone, TasksOf
    <3>5. Due(r) => Due(r)' BY <1>1, <3>3 DEF Gone, Due, LiveInv
    <3>6. QED BY <3>3, <3>4, <3>5
  <2>2. ASSUME NEW r \in Run PROVE Leaves(r)
    BY <1>1, <2>1 DEF Gone, Leaves, row
  <2>3. toStart' \subseteq toStart /\ owner' = owner BY <1>1 DEF Gone, row
  <2>4. QED BY <2>2, <2>3, LeavesAll
<1>2. ASSUME NEW p \in Replica, Process(p) PROVE LiveInv'
  <2>1. CASE Crash(p) \/ Exit(p) BY <1>1, <2>1 DEF Crash, Exit, row
  <2>2. CASE BeginDrain(p) \/ Lapse(p)
    <3>1. UNCHANGED <<status, owner, pc, job, silent, toStart>>
      BY <2>2 DEF BeginDrain, Lapse, row, work
    <3>2. \A q \in Replica : phase'[q] = "up" => phase[q] = "up"
      BY <2>2 DEF BeginDrain, Lapse
    <3>3. ASSUME NEW s \in Run PROVE Leaves(s)
      <4>1. status[s] \in {"queued", "running"} => owner[s] \in Replica BY DEF Known
      <4>2. QED BY <3>1, <3>2, <4>1 DEF Leaves, Up, Due
    <3>4. QED BY <3>1, <3>3, LeavesAll
  <2>3. CASE GraceExpired(p)
    <3>1. UNCHANGED <<status, owner, job, toStart>> BY <2>3 DEF GraceExpired, row, work
    <3>2. \A r \in Run : Up(owner[r])' => Up(owner[r])
      BY <2>3 DEF GraceExpired, Up, row
    <3>3. Cancel(snapshot[p]) BY <2>3 DEF GraceExpired
    <3>4. QED BY <3>1, <3>2, <3>3, CancelLeaves
  <2>4. CASE Boot(p)
    <3>1. UNCHANGED <<owner, pc, job, silent, toStart>> BY <2>4 DEF Boot, Restarted, work
    <3>2. \A q \in Replica : q # p => phase'[q] = phase[q] BY <2>4 DEF Boot, Restarted
    <3>3. \A s \in Run : status'[s] \in {"queued", "running"} =>
                            status'[s] = status[s] /\ owner[s] # p
      BY <2>4 DEF Boot, Restarted
    <3>4. ASSUME NEW s \in Run PROVE Leaves(s)
      <4>1. status[s] \in {"queued", "running"} => owner[s] \in Replica BY DEF Known
      <4>2. QED BY <3>1, <3>2, <3>3, <4>1 DEF Leaves, Up, Due
    <3>5. QED BY <3>1, <3>4, LeavesAll
  <2>5. CASE Purge(p)
    <3>1. \A s \in Run : Leaves(s) BY <2>5 DEF Purge, Leaves
    <3>2. toStart' = toStart /\ owner' = owner BY <2>5 DEF Purge, work
    <3>3. QED BY <3>1, <3>2, LeavesAll
  <2>6. QED BY <1>2, <2>1, <2>2, <2>3, <2>4, <2>5 DEF Process
<1>3. CASE (\E r \in Run : Age(r)) \/ UNCHANGED vars
  <2>1. \A s \in Run : Leaves(s)
    BY <1>3 DEF Age, vars, Leaves, Up, Due, row, proc, work
  <2>2. toStart' = toStart /\ owner' = owner BY <1>3 DEF Age, vars, row, work
  <2>3. QED BY <2>1, <2>2, LeavesAll
<1>4. QED BY <1>2, <1>3

LEMMA LiveStep == TypeInv /\ Known /\ LiveInv /\ [Next]_vars => LiveInv'
  BY LiveRequest, LiveTask, LiveProcess DEF Next

\* A queued or running row of a serving process has a task that will still write
\* its outcome, or is about to get one: through any Stops, drains, crashes and
\* reapers, on any number of replicas, nothing waits for work nobody does, but
\* for the runs of silent, one of whose tasks ended with its outcome unwritten.
THEOREM NothingWaitsForNobody == Spec => []LiveRowHasTask
<1>1. Init => TypeInv /\ Known /\ LiveInv BY TypeInit, KnownInit, LiveInit
<1>2. TypeInv /\ Known /\ LiveInv /\ [Next]_vars => (TypeInv /\ Known /\ LiveInv)'
  BY TypeStep, KnownStep, LiveStep
<1>3. LiveInv => LiveRowHasTask
  BY DEF LiveInv, LiveRowHasTask, Carried, Due, TasksOf, Waiting, Carrying
<1>4. QED BY <1>1, <1>2, <1>3, PTL DEF Spec

=============================================================================
