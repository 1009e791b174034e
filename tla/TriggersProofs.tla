--------------------------- MODULE TriggersProofs ---------------------------
(***************************************************************************)
(* What is claimed of the parts of Triggers, for every value of their      *)
(* constants: Routine, Schedules, Watches, Patterns, Salience, Learning.   *)
(***************************************************************************)
EXTENDS Triggers, FiniteSetTheorems, NaturalsInduction,
        SequenceTheorems, WellFoundedInduction, TLAPS

-----------------------------------------------------------------------------
(* The parts *)

\* A step of one part is a stutter of the others.
LEMMA OnePartMoves ==
  [Next]_vars =>
    /\ [R!Next]_(R!rvars)
    /\ [S!Next]_(S!svars)
    /\ [W!Next]_(W!wvars)
    /\ [P!Next]_(P!pvars)
    /\ [Y!Next]_(Y!yvars)
    /\ [L!Next]_(L!lvars)
<1>1. CASE UNCHANGED vars
  BY <1>1 DEF vars, rvars, svars, wvars, pvars, yvars, lvars, R!rvars, S!svars, W!wvars, P!pvars,
     Y!yvars, L!lvars
<1>2. CASE Next
  BY <1>2 DEF Next, rvars, svars, wvars, pvars, yvars, lvars, R!rvars, S!svars, W!wvars, P!pvars,
     Y!yvars, L!lvars
<1>3. QED
  BY <1>1, <1>2

\* The parts count as their surroundings do.
LEMMA SameSize ==
  \A set : /\ R!Cardinality(set) = Cardinality(set)
          /\ S!Cardinality(set) = Cardinality(set)
          /\ W!Cardinality(set) = Cardinality(set)
          /\ P!Cardinality(set) = Cardinality(set)
          /\ L!Cardinality(set) = Cardinality(set)
  BY DEF R!Cardinality, S!Cardinality, W!Cardinality, P!Cardinality, L!Cardinality, Cardinality

-----------------------------------------------------------------------------
(* A routine (Routine) *)

RoutineBookSteps == {"none", "read", "count", "wake", "book", "done"}
RoutineBooks == [at : RoutineBookSteps, failures : Nat, status : {"none", "active", "paused"}]
RoutineRows == [status : {"active", "paused"}, failures : Nat]
RoutineCounters == [cut : Nat, overlap : Nat, toggle : Nat]

\* Nobody switched it: while it is on it is below the limit, and whoever is about to
\* count a failure read it on.
RoutineNotYet ==
  spent.toggle = 0 /\ routine.status = "active" =>
    /\ routine.failures < FailLimit
    /\ \A e \in R!Event : book[e].at = "count" => book[e].status = "active"

RoutineBookInv ==
  /\ routine \in RoutineRows /\ book \in [R!Event -> RoutineBooks] /\ spent \in RoutineCounters
  /\ RoutineNotYet

LEMMA RoutineBookInit == R!Init => RoutineBookInv
BY BoundsAreNumbers DEF R!Init, RoutineBookInv, RoutineRows, RoutineBooks, RoutineBookSteps,
   R!NoBook, RoutineCounters, RoutineNotYet

\* How many ticks a tick begins beside.
RoutineBeside(r) == Cardinality({q \in Replica \ {r} : tick[q].at # "idle"})

LEMMA RoutineBesideCounts ==
  ASSUME NEW r PROVE RoutineBeside(r) \in Nat /\ IsFiniteSet({q \in Replica \ {r} : tick[q].at # "idle"})
<1>1. IsFiniteSet({q \in Replica \ {r} : tick[q].at # "idle"})
  BY ReplicasAreFinite, FS_Subset
<1>2. QED BY <1>1, FS_CardinalityType DEF RoutineBeside

\* What the routine's switch and the counters do in each step.
LEMMA RoutineCountersMove ==
  ASSUME RoutineBookInv, [R!Next]_R!rvars
  PROVE  /\ spent' \in RoutineCounters
         /\ spent'.toggle = spent.toggle \/ (R!Toggle /\ spent'.toggle = spent.toggle + 1)
         /\ \/ spent'.overlap = spent.overlap
            \/ \E r \in Replica : R!BeginTick(r) /\ spent'.overlap = spent.overlap + RoutineBeside(r)
<1>1. spent \in RoutineCounters BY DEF RoutineBookInv
<1>2. CASE UNCHANGED spent BY <1>1, <1>2
<1>3. CASE R!Toggle
  <2>1. spent' = [spent EXCEPT !["toggle"] = spent["toggle"] + 1] BY <1>3 DEF R!Toggle, R!Spend
  <2>2. QED BY <1>1, <1>3, <2>1 DEF RoutineCounters
<1>4. ASSUME NEW r \in Replica, R!BeginTick(r)
      PROVE  spent' \in RoutineCounters /\ spent'.toggle = spent.toggle /\ spent'.overlap = spent.overlap + RoutineBeside(r)
  <2> DEFINE k == RoutineBeside(r)
  <2>1. spent' = [spent EXCEPT !["overlap"] = spent["overlap"] + k]
    BY <1>4, SameSize DEF R!BeginTick, RoutineBeside, R!Spend
  <2>2. k \in Nat BY RoutineBesideCounts
  <2> HIDE DEF k
  <2>3. spent' \in RoutineCounters /\ spent'.toggle = spent.toggle /\ spent'.overlap = spent.overlap + k
    BY <1>1, <2>1, <2>2 DEF RoutineCounters
  <2>4. QED BY <2>3 DEF k
<1>5. ASSUME \/ \E r \in Replica : R!CutTick(r)
             \/ \E e \in R!Event : R!Lose(e)
      PROVE  spent' \in RoutineCounters /\ spent'.toggle = spent.toggle /\ spent'.overlap = spent.overlap
  <2>1. spent' = [spent EXCEPT !["cut"] = spent["cut"] + 1] BY <1>5 DEF R!CutTick, R!Lose, R!Spend
  <2>2. QED BY <1>1, <2>1 DEF RoutineCounters
<1>6. CASE R!Next
  <2>1. CASE R!Fire BY <1>2, <2>1 DEF R!Fire
  <2>2. CASE \E r \in Replica : R!Look(r) \/ R!Emit(r) \/ R!Mark(r)
    BY <1>2, <2>2 DEF R!Look, R!Emit, R!Mark
  <2>3. CASE \E e \in R!Event : R!Execute(e) \/ R!RunEnds(e) \/ R!Forgive(e) \/ R!ReadFailures(e) \/ R!CountFailure(e)
    BY <1>2, <2>3 DEF R!Execute, R!RunEnds, R!Forgive, R!ReadFailures, R!CountFailure
  <2>4. CASE \E e \in R!Event : R!Room(e) \/ R!BookWakeup(e) \/ R!AgentWakeup(e)
    BY <1>2, <2>4 DEF R!Room, R!BookWakeup, R!AgentWakeup
  <2>5. CASE \E w \in R!Wake : R!CancelWakeup(w) \/ R!Later(w)
    BY <1>2, <2>5 DEF R!CancelWakeup, R!Later
  <2>6. QED BY <1>3, <1>4, <1>5, <1>6, <2>1, <2>2, <2>3, <2>4, <2>5 DEF R!Next
<1>7. QED BY <1>2, <1>6 DEF R!rvars

-----------------------------------------------------------------------------
\* Steps that leave the counts as they are, and put nobody before one.
LEMMA RoutineNobodyCounts ==
  ASSUME RoutineBookInv, UNCHANGED routine, spent' \in RoutineCounters, spent'.toggle = 0 => spent.toggle = 0,
         book' \in [R!Event -> RoutineBooks],
         \A e \in R!Event : book'[e].at = "count" =>
           book'[e] = book[e] \/ book'[e].status = routine.status
  PROVE  RoutineBookInv'
BY DEF RoutineBookInv, RoutineNotYet

LEMMA RoutineBookStep == RoutineBookInv /\ [R!Next]_R!rvars => RoutineBookInv'
<1> SUFFICES ASSUME RoutineBookInv, [R!Next]_R!rvars PROVE RoutineBookInv'
  OBVIOUS
<1>1. /\ routine \in RoutineRows /\ book \in [R!Event -> RoutineBooks] /\ spent \in RoutineCounters /\ RoutineNotYet
      /\ spent' \in RoutineCounters
      /\ spent'.toggle = spent.toggle \/ (R!Toggle /\ spent'.toggle = spent.toggle + 1)
  BY RoutineCountersMove DEF RoutineBookInv
<1>2. spent'.toggle = 0 => spent.toggle = 0 BY <1>1 DEF RoutineCounters
<1>3. CASE UNCHANGED <<routine, book>>
  BY <1>1, <1>2, <1>3, RoutineNobodyCounts
<1>4. CASE R!Toggle
  <2>1. UNCHANGED book /\ spent'.toggle # 0
    <3>1. spent' = [spent EXCEPT !["toggle"] = spent["toggle"] + 1] /\ UNCHANGED book
      BY <1>4 DEF R!Toggle, R!Spend
    <3>2. QED BY <1>1, <3>1 DEF RoutineCounters
  <2>2. routine' \in RoutineRows BY <1>1, <1>4 DEF R!Toggle, RoutineRows
  <2>3. QED BY <1>1, <2>1, <2>2 DEF RoutineBookInv, RoutineNotYet
<1>5. ASSUME NEW e \in R!Event, NEW b \in RoutineBooks, b.at # "count" \/ b.status = routine.status,
             book' = [book EXCEPT ![e] = b], UNCHANGED routine
      PROVE  RoutineBookInv'
  <2>1. book' \in [R!Event -> RoutineBooks] /\ \A f \in R!Event : book'[f] = IF f = e THEN b ELSE book[f]
    BY <1>1, <1>5
  <2>2. QED BY <1>1, <1>2, <1>5, <2>1, RoutineNobodyCounts
<1>6. ASSUME NEW e \in R!Event, NEW at \in {"read", "wake", "book", "done"},
             book' = [book EXCEPT ![e].at = at], UNCHANGED routine
      PROVE  RoutineBookInv'
  <2> DEFINE b == [book[e] EXCEPT !.at = at]
  <2>1. b \in RoutineBooks /\ b.at # "count" BY <1>1 DEF RoutineBooks, RoutineBookSteps
  <2>2. book' = [book EXCEPT ![e] = b] BY <1>6
  <2> HIDE DEF b
  <2>3. QED BY <1>5, <1>6, <2>1, <2>2
<1>7. ASSUME NEW e \in R!Event, R!RunEnds(e) \/ R!Room(e) \/ R!BookWakeup(e) PROVE RoutineBookInv'
  <2>1. UNCHANGED routine /\ \E at \in {"read", "book", "done"} : book' = [book EXCEPT ![e].at = at]
    BY <1>7 DEF R!RunEnds, R!Room, R!BookWakeup
  <2>2. QED BY <1>6, <2>1
<1>8. ASSUME NEW e \in R!Event, R!ReadFailures(e) PROVE RoutineBookInv'
  <2> DEFINE b == [at |-> "count", failures |-> routine.failures, status |-> routine.status]
  <2>1. book' = [book EXCEPT ![e] = b] /\ UNCHANGED routine BY <1>8 DEF R!ReadFailures
  <2>2. b \in RoutineBooks /\ b.status = routine.status
    BY <1>1 DEF RoutineRows, RoutineBooks, RoutineBookSteps
  <2> HIDE DEF b
  <2>3. QED BY <1>5, <2>1, <2>2
<1>9. ASSUME NEW e \in R!Event, R!Lose(e) PROVE RoutineBookInv'
  <2> DEFINE b == [R!NoBook EXCEPT !.at = "done"]
  <2>1. book' = [book EXCEPT ![e] = b] /\ UNCHANGED routine BY <1>9 DEF R!Lose
  <2>2. b \in RoutineBooks /\ b.at = "done" BY DEF R!NoBook, RoutineBooks, RoutineBookSteps
  <2> HIDE DEF b
  <2>3. QED BY <1>5, <2>1, <2>2
<1>10. ASSUME NEW e \in R!Event, R!Forgive(e) PROVE RoutineBookInv'
  <2>1. routine' = [status |-> routine.status, failures |-> 0] /\ book' = [book EXCEPT ![e].at = "done"]
    BY <1>1, <1>10 DEF R!Forgive, RoutineRows
  <2> DEFINE b == [book[e] EXCEPT !.at = "done"]
  <2>2. b \in RoutineBooks /\ b.at = "done" BY <1>1 DEF RoutineBooks, RoutineBookSteps
  <2>3. book' = [book EXCEPT ![e] = b] BY <2>1
  <2> HIDE DEF b
  <2>4. book' \in [R!Event -> RoutineBooks] /\ \A f \in R!Event : book'[f].at = "count" => book'[f] = book[f]
    BY <1>1, <2>2, <2>3
  <2>5. routine' \in RoutineRows BY <1>1, <2>1 DEF RoutineRows
  <2>6. RoutineNotYet' BY <1>1, <1>2, <2>1, <2>4, BoundsAreNumbers DEF RoutineNotYet
  <2>7. QED BY <1>1, <2>4, <2>5, <2>6 DEF RoutineBookInv
<1>11. ASSUME NEW e \in R!Event, R!CountFailure(e) PROVE RoutineBookInv'
  <2> DEFINE b == [R!NoBook EXCEPT !.at = "wake"]
             pauses == book[e].failures + 1 >= FailLimit /\ book[e].status = "active"
  <2>1. book' = [book EXCEPT ![e] = b] /\ book[e].at = "count" BY <1>11 DEF R!CountFailure
  <2>2. routine' = [status |-> IF pauses THEN "paused" ELSE routine.status, failures |-> book[e].failures + 1]
    BY <1>1, <1>11 DEF R!CountFailure, RoutineRows
  <2>3. b \in RoutineBooks /\ b.at = "wake" BY DEF R!NoBook, RoutineBooks, RoutineBookSteps
  <2> HIDE DEF b
  <2>4. book' \in [R!Event -> RoutineBooks] /\ \A f \in R!Event : book'[f].at = "count" => book'[f] = book[f]
    BY <1>1, <2>1, <2>3
  <2>5. book[e].failures \in Nat BY <1>1 DEF RoutineBooks
  <2>6. routine' \in RoutineRows BY <1>1, <2>2, <2>5 DEF RoutineRows
  <2>7. ASSUME spent'.toggle = 0, routine'.status = "active" PROVE routine.status = "active" /\ routine'.failures < FailLimit
    <3>1. ~pauses /\ routine.status = "active" BY <2>2, <2>7
    <3>2. book[e].status = "active" BY <1>1, <1>2, <2>1, <2>7, <3>1 DEF RoutineNotYet
    <3>3. ~(book[e].failures + 1 >= FailLimit) BY <3>1, <3>2
    <3>4. QED BY <2>2, <2>5, <3>1, <3>3, BoundsAreNumbers
  <2>8. RoutineNotYet' BY <1>1, <1>2, <2>4, <2>7 DEF RoutineNotYet
  <2>9. QED BY <1>1, <2>4, <2>6, <2>8 DEF RoutineBookInv
<1>12. CASE R!Next
  <2>1. CASE R!Fire BY <1>3, <2>1 DEF R!Fire
  <2>2. CASE \E r \in Replica : R!BeginTick(r) \/ R!Look(r) \/ R!Emit(r) \/ R!Mark(r) \/ R!CutTick(r)
    BY <1>3, <2>2 DEF R!BeginTick, R!Look, R!Emit, R!Mark, R!CutTick
  <2>3. CASE \E e \in R!Event : R!Execute(e) \/ R!AgentWakeup(e)
    BY <1>3, <2>3 DEF R!Execute, R!AgentWakeup
  <2>4. CASE \E w \in R!Wake : R!CancelWakeup(w) \/ R!Later(w)
    BY <1>3, <2>4 DEF R!CancelWakeup, R!Later
  <2>5. QED BY <1>4, <1>7, <1>8, <1>9, <1>10, <1>11, <1>12, <2>1, <2>2, <2>3, <2>4 DEF R!Next
<1>13. QED BY <1>3, <1>12 DEF R!rvars

-----------------------------------------------------------------------------
\* Whose events a wakeup became, and who is about to emit one.
RoutineFired(w) == {e \in R!Events : event[e].key = w}
RoutineEmitters(w) == {r \in Replica : tick[r].at = "emit" /\ tick[r].row = w}
RoutineBusy == {r \in Replica : tick[r].at # "idle"}
RoutineTicks == [at : {"idle", "look", "emit", "mark"}, rows : SUBSET R!Wake, row : R!Wake \cup {0},
          outcome : {"none", "fired", "expired"}]
RoutineEventRows == [state : {"none", "pending", "running", "dropped", "completed", "failed"}, key : R!Wake \cup {0}]

RoutineFireInv ==
  /\ event \in [R!Event -> RoutineEventRows] /\ tick \in [Replica -> RoutineTicks] /\ spent \in RoutineCounters
  /\ Cardinality(RoutineBusy) <= 1 + spent.overlap
  /\ \A w \in R!Wake : Cardinality(RoutineFired(w)) + Cardinality(RoutineEmitters(w)) <= 1 + spent.overlap

LEMMA RoutineFireFinite ==
  /\ IsFiniteSet(RoutineBusy) /\ Cardinality(RoutineBusy) \in Nat
  /\ \A w : IsFiniteSet(RoutineFired(w)) /\ Cardinality(RoutineFired(w)) \in Nat
  /\ \A w : IsFiniteSet(RoutineEmitters(w)) /\ Cardinality(RoutineEmitters(w)) \in Nat
<1>1. IsFiniteSet(R!Event)
  BY BoundsAreNumbers, FS_Interval DEF R!Event
<1>2. RoutineBusy \subseteq Replica /\ \A w : RoutineFired(w) \subseteq R!Event /\ RoutineEmitters(w) \subseteq Replica
  BY DEF RoutineBusy, RoutineFired, R!Events, RoutineEmitters
<1>3. QED BY <1>1, <1>2, ReplicasAreFinite, FS_Subset, FS_CardinalityType

LEMMA RoutineFireInit == R!Init => RoutineFireInv
<1> SUFFICES ASSUME R!Init PROVE RoutineFireInv
  OBVIOUS
<1>1. RoutineBusy = {} /\ \A w : RoutineFired(w) = {} /\ RoutineEmitters(w) = {}
  BY DEF R!Init, RoutineBusy, RoutineFired, R!Events, RoutineEmitters, R!NoEvent, R!Resting
<1>2. event \in [R!Event -> RoutineEventRows] BY DEF R!Init, RoutineEventRows, R!NoEvent
<1>3. tick \in [Replica -> RoutineTicks] BY DEF R!Init, RoutineTicks, R!Resting
<1>4. spent \in RoutineCounters /\ spent.overlap = 0 BY DEF R!Init, RoutineCounters
<1>5. QED BY <1>1, <1>2, <1>3, <1>4, FS_EmptySet DEF RoutineFireInv

\* Steps that put nobody before an event.
LEMMA RoutineNobodyEmits ==
  ASSUME RoutineFireInv, event' \in [R!Event -> RoutineEventRows], tick' \in [Replica -> RoutineTicks],
         spent' \in RoutineCounters, spent'.overlap = spent.overlap,
         RoutineBusy' \subseteq RoutineBusy,
         \A w \in R!Wake : RoutineFired(w)' \subseteq RoutineFired(w) /\ RoutineEmitters(w)' \subseteq RoutineEmitters(w)
  PROVE  RoutineFireInv'
<1>1. Cardinality(RoutineBusy') <= Cardinality(RoutineBusy) /\ Cardinality(RoutineBusy') \in Nat
  BY RoutineFireFinite, FS_Subset, FS_CardinalityType
<1>2. ASSUME NEW w \in R!Wake
      PROVE  Cardinality(RoutineFired(w)') + Cardinality(RoutineEmitters(w)') <= 1 + spent'.overlap
  <2>1. Cardinality(RoutineFired(w)') <= Cardinality(RoutineFired(w)) /\ Cardinality(RoutineFired(w)') \in Nat
    BY <1>2, RoutineFireFinite, FS_Subset, FS_CardinalityType
  <2>2. Cardinality(RoutineEmitters(w)') <= Cardinality(RoutineEmitters(w)) /\ Cardinality(RoutineEmitters(w)') \in Nat
    BY <1>2, RoutineFireFinite, FS_Subset, FS_CardinalityType
  <2>3. Cardinality(RoutineFired(w)) + Cardinality(RoutineEmitters(w)) <= 1 + spent.overlap /\ spent.overlap \in Nat
    BY <1>2 DEF RoutineFireInv, RoutineCounters
  <2>4. QED BY <2>1, <2>2, <2>3, RoutineFireFinite
<1>3. Cardinality(RoutineBusy) <= 1 + spent.overlap /\ spent.overlap \in Nat
  BY DEF RoutineFireInv, RoutineCounters
<1>4. Cardinality(RoutineBusy') <= 1 + spent'.overlap BY <1>1, <1>3, RoutineFireFinite
<1>5. QED BY <1>2, <1>4 DEF RoutineFireInv

\* CHOOSE finds the first of some wakeups.
LEMMA RoutineLeastWake ==
  ASSUME NEW rows \in SUBSET R!Wake, rows # {}
  PROVE  (CHOOSE w \in rows : \A v \in rows : w <= v) \in rows
<1> DEFINE Less == {ss \in Nat \X Nat : ss[1] < ss[2]}
<1>1. rows \subseteq Nat BY BoundsAreNumbers DEF R!Wake
<1>2. IsWellFoundedOn(Less, Nat) BY NatLessThanWellFounded DEF OpToRel
<1>3. \A m, v \in Nat : v < m => <<v, m>> \in Less OBVIOUS
<1> HIDE DEF Less
<1>4. PICK m \in rows : \A v \in rows : ~(<<v, m>> \in Less) BY <1>1, <1>2, WFMin
<1>5. \A v \in rows : m \in Nat /\ v \in Nat /\ ~(v < m) BY <1>1, <1>3, <1>4
<1>6. \A v \in rows : m <= v BY <1>5
<1>7. QED BY <1>6

LEMMA RoutineFireStep == RoutineBookInv /\ RoutineFireInv /\ [R!Next]_R!rvars => RoutineFireInv'
<1> SUFFICES ASSUME RoutineBookInv, RoutineFireInv, [R!Next]_R!rvars PROVE RoutineFireInv'
  OBVIOUS
<1>1. /\ event \in [R!Event -> RoutineEventRows] /\ tick \in [Replica -> RoutineTicks] /\ spent \in RoutineCounters
      /\ spent' \in RoutineCounters
      /\ \/ spent'.overlap = spent.overlap
         \/ \E r \in Replica : R!BeginTick(r) /\ spent'.overlap = spent.overlap + RoutineBeside(r)
  BY RoutineCountersMove DEF RoutineFireInv
<1>2. ASSUME \A r \in Replica : ~R!BeginTick(r) PROVE spent'.overlap = spent.overlap BY <1>1, <1>2
<1>3. CASE UNCHANGED <<event, tick>>
  <2>1. RoutineBusy' = RoutineBusy /\ \A w : RoutineFired(w)' = RoutineFired(w) /\ RoutineEmitters(w)' = RoutineEmitters(w)
    BY <1>3 DEF RoutineBusy, RoutineFired, R!Events, RoutineEmitters
  <2>2. CASE spent'.overlap = spent.overlap BY <1>1, <1>3, <2>1, <2>2, RoutineNobodyEmits
  <2>3. CASE \E r \in Replica : R!BeginTick(r) /\ spent'.overlap = spent.overlap + RoutineBeside(r)
    <3>1. PICK r \in Replica : spent'.overlap = spent.overlap + RoutineBeside(r) BY <2>3
    <3>2. spent.overlap \in Nat /\ spent'.overlap \in Nat /\ spent'.overlap >= spent.overlap
      <4> DEFINE k == RoutineBeside(r)
      <4>1. k \in Nat /\ spent'.overlap = spent.overlap + k BY <3>1, RoutineBesideCounts
      <4> HIDE DEF k
      <4>2. QED BY <1>1, <4>1 DEF RoutineCounters
    <3>3. Cardinality(RoutineBusy') <= 1 + spent'.overlap
      BY <2>1, <3>2, RoutineFireFinite DEF RoutineFireInv
    <3>4. \A w \in R!Wake : Cardinality(RoutineFired(w)') + Cardinality(RoutineEmitters(w)') <= 1 + spent'.overlap
      BY <2>1, <3>2, RoutineFireFinite DEF RoutineFireInv
    <3>5. QED BY <1>1, <1>3, <3>3, <3>4 DEF RoutineFireInv
  <2>4. QED BY <1>1, <2>2, <2>3
<1>4. ASSUME NEW e \in R!Event, event[e].state # "none",
             NEW s \in {"running", "dropped", "completed", "failed"},
             event' = [event EXCEPT ![e].state = s], UNCHANGED tick, spent'.overlap = spent.overlap
      PROVE  RoutineFireInv'
  <2> DEFINE x == [state |-> s, key |-> event[e].key]
  <2>1. event' = [event EXCEPT ![e] = x]
    <3>1. event[e] \in RoutineEventRows BY <1>1
    <3>2. [event[e] EXCEPT !.state = s] = x BY <3>1 DEF RoutineEventRows
    <3>3. QED BY <1>4, <3>2
  <2>2. x \in RoutineEventRows /\ x.state # "none" /\ x.key = event[e].key
    BY <1>1, <1>4 DEF RoutineEventRows
  <2> HIDE DEF x
  <2>3. event' \in [R!Event -> RoutineEventRows] /\ \A f \in R!Event : event'[f] = IF f = e THEN x ELSE event[f]
    BY <1>1, <2>1, <2>2
  <2>4. \A w : RoutineFired(w)' = RoutineFired(w) BY <1>4, <2>2, <2>3 DEF RoutineFired, R!Events
  <2>5. RoutineBusy' = RoutineBusy /\ \A w : RoutineEmitters(w)' = RoutineEmitters(w)
    BY <1>4 DEF RoutineBusy, RoutineEmitters
  <2>6. QED BY <1>1, <1>4, <2>3, <2>4, <2>5, RoutineNobodyEmits
<1>5. ASSUME NEW e \in R!Event, R!Execute(e) PROVE RoutineFireInv'
  <2>1. (\A r \in Replica : ~R!BeginTick(r)) \/ UNCHANGED event
    BY DEF R!BeginTick
  <2>2. UNCHANGED spent BY <1>5 DEF R!Execute
  <2>3. /\ event[e].state # "none" /\ UNCHANGED tick
        /\ \E s \in {"running", "dropped"} : event' = [event EXCEPT ![e].state = s]
    BY <1>5 DEF R!Execute
  <2>4. QED BY <1>4, <2>2, <2>3
<1>6. ASSUME NEW e \in R!Event, R!RunEnds(e) PROVE RoutineFireInv'
  <2>1. /\ UNCHANGED spent /\ event[e].state # "none" /\ UNCHANGED tick
        /\ \E s \in {"completed", "failed"} : event' = [event EXCEPT ![e].state = s]
    BY <1>6 DEF R!RunEnds
  <2>2. QED BY <1>4, <2>1
<1>7. ASSUME NEW k \in R!Wake \cup {0}, R!Append(k)
      PROVE  \E e \in R!Event \ R!Events :
               /\ event' \in [R!Event -> RoutineEventRows]
               /\ \A w : RoutineFired(w)' = IF w = k THEN RoutineFired(w) \cup {e} ELSE RoutineFired(w)
               /\ e \notin RoutineFired(k)
  <2> DEFINE x == [state |-> "pending", key |-> k]
  <2>1. PICK e \in R!Event \ R!Events : event' = [event EXCEPT ![e] = x] BY <1>7 DEF R!Append
  <2>2. x \in RoutineEventRows /\ x.state # "none" /\ x.key = k BY <1>7 DEF RoutineEventRows
  <2> HIDE DEF x
  <2>3. event' \in [R!Event -> RoutineEventRows] /\ \A f \in R!Event : event'[f] = IF f = e THEN x ELSE event[f]
    BY <1>1, <2>1, <2>2
  <2>4. event[e].state = "none" BY <2>1 DEF R!Events
  <2>5. \A w : RoutineFired(w)' = IF w = k THEN RoutineFired(w) \cup {e} ELSE RoutineFired(w)
    BY <2>1, <2>2, <2>3, <2>4 DEF RoutineFired, R!Events
  <2>6. QED BY <2>1, <2>3, <2>5 DEF RoutineFired
<1>8. CASE R!Fire
  <2>1. R!Append(0) /\ UNCHANGED <<tick, spent>> BY <1>8 DEF R!Fire
  <2>2. event' \in [R!Event -> RoutineEventRows] /\ \A w : w # 0 => RoutineFired(w)' = RoutineFired(w)
    BY <1>7, <2>1
  <2>3. \A w \in R!Wake : w # 0 BY BoundsAreNumbers DEF R!Wake
  <2>4. RoutineBusy' = RoutineBusy /\ \A w : RoutineEmitters(w)' = RoutineEmitters(w)
    BY <2>1 DEF RoutineBusy, RoutineEmitters
  <2>5. QED BY <1>1, <2>1, <2>2, <2>3, <2>4, RoutineNobodyEmits
<1>9. ASSUME NEW r \in Replica, NEW x \in RoutineTicks, tick' = [tick EXCEPT ![r] = x], UNCHANGED event
      PROVE  /\ tick' \in [Replica -> RoutineTicks]
             /\ \A q \in Replica : tick'[q] = IF q = r THEN x ELSE tick[q]
             /\ \A w : RoutineFired(w)' = RoutineFired(w)
             /\ x.at # "emit" => \A w : RoutineEmitters(w)' = RoutineEmitters(w) \ {r}
             /\ x.at # "emit" /\ tick[r].at # "idle" /\ spent'.overlap = spent.overlap => RoutineFireInv'
  <2>1. tick' \in [Replica -> RoutineTicks] /\ \A q \in Replica : tick'[q] = IF q = r THEN x ELSE tick[q]
    BY <1>1, <1>9
  <2>2. \A w : RoutineFired(w)' = RoutineFired(w) BY <1>9 DEF RoutineFired, R!Events
  <2>3. x.at # "emit" => \A w : RoutineEmitters(w)' = RoutineEmitters(w) \ {r}
    BY <2>1 DEF RoutineEmitters
  <2>4. tick[r].at # "idle" => RoutineBusy' \subseteq RoutineBusy BY <2>1 DEF RoutineBusy
  <2>5. QED BY <1>1, <1>9, <2>1, <2>2, <2>3, <2>4, RoutineNobodyEmits
<1>10. ASSUME NEW r \in Replica, NEW rows \in SUBSET R!Wake, R!NextWake(r, rows)
       PROVE  \E x \in RoutineTicks : tick' = [tick EXCEPT ![r] = x] /\ x.at # "emit"
  <2>1. CASE rows = {}
    <3>1. tick' = [tick EXCEPT ![r] = R!Resting] BY <1>10, <2>1 DEF R!NextWake
    <3>2. R!Resting \in RoutineTicks /\ R!Resting.at # "emit" BY DEF R!Resting, RoutineTicks
    <3>3. QED BY <3>1, <3>2
  <2>2. CASE rows # {}
    <3> DEFINE w == CHOOSE w \in rows : \A v \in rows : w <= v
               x == [at |-> "look", rows |-> rows, outcome |-> "none", row |-> w]
    <3>1. tick' = [tick EXCEPT ![r] = x] BY <1>10, <2>2 DEF R!NextWake
    <3>2. w \in rows BY <1>10, <2>2, RoutineLeastWake
    <3> HIDE DEF w
    <3>3. x \in RoutineTicks /\ x.at # "emit" BY <1>10, <3>2 DEF RoutineTicks
    <3> HIDE DEF x
    <3>4. QED BY <3>1, <3>3
  <2>3. QED BY <2>1, <2>2
<1>11. ASSUME NEW r \in Replica, R!BeginTick(r) PROVE RoutineFireInv'
  <2>1. /\ tick[r].at = "idle" /\ UNCHANGED event
        /\ R!NextWake(r, {w \in R!Woken("pending") : wakeup[w].due})
        /\ spent' = [spent EXCEPT !["overlap"] = spent["overlap"] + RoutineBeside(r)]
    BY <1>11, SameSize DEF R!BeginTick, RoutineBeside, R!Spend
  <2>2. {w \in R!Woken("pending") : wakeup[w].due} \in SUBSET R!Wake BY DEF R!Woken
  <2>3. PICK x \in RoutineTicks : tick' = [tick EXCEPT ![r] = x] /\ x.at # "emit"
    BY <1>10, <2>1, <2>2
  <2>4. RoutineBeside(r) = Cardinality(RoutineBusy)
    <3>1. {q \in Replica \ {r} : tick[q].at # "idle"} = RoutineBusy BY <2>1 DEF RoutineBusy
    <3>2. QED BY <3>1 DEF RoutineBeside
  <2> DEFINE k == Cardinality(RoutineBusy)
  <2>5. spent' = [spent EXCEPT !["overlap"] = spent["overlap"] + k] BY <2>1, <2>4
  <2>6. k \in Nat BY RoutineFireFinite
  <2>7. Cardinality(RoutineBusy') <= 1 + k
    <3>1. RoutineBusy' \subseteq RoutineBusy \cup {r} BY <1>9, <2>1, <2>3 DEF RoutineBusy
    <3>2. IsFiniteSet(RoutineBusy \cup {r}) /\ Cardinality(RoutineBusy \cup {r}) <= Cardinality(RoutineBusy) + 1
      <4> DEFINE es == RoutineBusy
      <4>1. IsFiniteSet(es) /\ Cardinality(es) \in Nat BY RoutineFireFinite
      <4> HIDE DEF es
      <4>2. /\ IsFiniteSet(es \cup {r})
            /\ Cardinality(es \cup {r}) = IF r \in es THEN Cardinality(es) ELSE Cardinality(es) + 1
        BY <4>1, FS_AddElement
      <4>3. QED BY <4>1, <4>2 DEF es
    <3>3. Cardinality(RoutineBusy') <= Cardinality(RoutineBusy \cup {r}) /\ Cardinality(RoutineBusy') \in Nat
      BY <3>1, <3>2, FS_Subset, FS_CardinalityType
    <3>4. Cardinality(RoutineBusy \cup {r}) \in Nat BY <3>2, FS_CardinalityType
    <3>5. QED BY <3>2, <3>3, <3>4, RoutineFireFinite
  <2>8. \A w \in R!Wake : /\ RoutineFired(w)' = RoutineFired(w)
                        /\ Cardinality(RoutineEmitters(w)') <= Cardinality(RoutineEmitters(w)) /\ Cardinality(RoutineEmitters(w)') \in Nat
    <3>1. \A w : RoutineFired(w)' = RoutineFired(w) /\ RoutineEmitters(w)' = RoutineEmitters(w) \ {r}
      <4>1. UNCHANGED event BY <2>1
      <4>2. tick' = [tick EXCEPT ![r] = x] /\ x.at # "emit" BY <2>3
      <4>3. QED BY <1>9, <4>1, <4>2
    <3>2. QED BY <3>1, RoutineFireFinite, FS_Subset, FS_CardinalityType
  <2>9. IsFiniteSet(RoutineBusy') /\ Cardinality(RoutineBusy') \in Nat
    <3>1. RoutineBusy' \subseteq Replica BY DEF RoutineBusy
    <3>2. QED BY <3>1, ReplicasAreFinite, FS_Subset, FS_CardinalityType
  <2> HIDE DEF k
  <2>10. spent'.overlap = spent.overlap + k /\ spent.overlap \in Nat
    BY <1>1, <2>5, <2>6 DEF RoutineCounters
  <2>11. Cardinality(RoutineBusy') <= 1 + spent'.overlap BY <2>6, <2>7, <2>9, <2>10
  <2>12. ASSUME NEW w \in R!Wake
         PROVE  Cardinality(RoutineFired(w)') + Cardinality(RoutineEmitters(w)') <= 1 + spent'.overlap
    <3>1. Cardinality(RoutineFired(w)) + Cardinality(RoutineEmitters(w)) <= 1 + spent.overlap
      BY <2>12 DEF RoutineFireInv
    <3>2. QED BY <2>6, <2>8, <2>10, <2>12, <3>1, RoutineFireFinite
  <2>13. tick' \in [Replica -> RoutineTicks] /\ event' \in [R!Event -> RoutineEventRows]
    BY <1>1, <1>9, <2>1, <2>3
  <2>14. QED BY <1>1, <2>11, <2>12, <2>13 DEF RoutineFireInv
<1>12. ASSUME NEW r \in Replica, R!Mark(r) PROVE RoutineFireInv'
  <2>1. tick[r].at # "idle" /\ UNCHANGED <<event, spent>> /\ R!NextWake(r, tick[r].rows \ {tick[r].row})
    BY <1>12 DEF R!Mark
  <2>2. tick[r].rows \ {tick[r].row} \in SUBSET R!Wake BY <1>1 DEF RoutineTicks
  <2>3. PICK x \in RoutineTicks : tick' = [tick EXCEPT ![r] = x] /\ x.at # "emit"
    BY <1>10, <2>1, <2>2
  <2>4. QED BY <1>9, <2>1, <2>3
<1>13. ASSUME NEW r \in Replica, R!CutTick(r) PROVE RoutineFireInv'
  <2>1. tick[r].at # "idle" /\ UNCHANGED event /\ tick' = [tick EXCEPT ![r] = R!Resting]
    BY <1>13 DEF R!CutTick
  <2>2. R!Resting \in RoutineTicks /\ R!Resting.at # "emit" BY DEF R!Resting, RoutineTicks
  <2>3. spent' = [spent EXCEPT !["cut"] = spent["cut"] + 1] BY <1>13 DEF R!CutTick, R!Spend
  <2>4. spent'.overlap = spent.overlap BY <1>1, <2>3 DEF RoutineCounters
  <2>5. QED BY <1>9, <2>1, <2>2, <2>4
<1>14. ASSUME NEW r \in Replica, R!Emit(r) PROVE RoutineFireInv'
  <2> DEFINE k == tick[r].row
             x == [at |-> "mark", rows |-> tick[r].rows, row |-> k, outcome |-> tick[r].outcome]
  <2>1. tick[r].at = "emit" /\ R!Append(k) /\ UNCHANGED spent /\ tick' = [tick EXCEPT ![r] = x]
    <3>1. tick[r] \in RoutineTicks BY <1>1
    <3>2. [tick[r] EXCEPT !.at = "mark"] = x BY <3>1 DEF RoutineTicks
    <3>3. QED BY <1>14, <3>2 DEF R!Emit
  <2>2. x \in RoutineTicks /\ x.at = "mark" /\ k \in R!Wake \cup {0} BY <1>1 DEF RoutineTicks
  <2>3. PICK e \in R!Event \ R!Events :
               /\ event' \in [R!Event -> RoutineEventRows]
               /\ \A w : RoutineFired(w)' = IF w = k THEN RoutineFired(w) \cup {e} ELSE RoutineFired(w)
               /\ e \notin RoutineFired(k)
    BY <1>7, <2>1, <2>2
  <2> HIDE DEF x
  <2>4. tick' \in [Replica -> RoutineTicks] /\ \A q \in Replica : tick'[q] = IF q = r THEN x ELSE tick[q]
    BY <1>1, <2>1, <2>2
  <2>5. RoutineBusy' = RoutineBusy BY <2>1, <2>2, <2>4 DEF RoutineBusy
  <2>6. \A w : RoutineEmitters(w)' = RoutineEmitters(w) \ {r} BY <2>2, <2>4 DEF RoutineEmitters
  <2>7. r \in RoutineEmitters(k) BY <2>1 DEF RoutineEmitters
  <2>8. ASSUME NEW w \in R!Wake
        PROVE  Cardinality(RoutineFired(w)') + Cardinality(RoutineEmitters(w)') <= 1 + spent'.overlap
    <3>1. Cardinality(RoutineFired(w)) + Cardinality(RoutineEmitters(w)) <= 1 + spent.overlap /\ spent.overlap \in Nat
      BY <2>8 DEF RoutineFireInv, RoutineCounters
    <3>2. CASE w = k
      <4>1. Cardinality(RoutineFired(w) \cup {e}) = Cardinality(RoutineFired(w)) + 1
        BY <2>3, <3>2, RoutineFireFinite, FS_AddElement
      <4>2. Cardinality(RoutineEmitters(w) \ {r}) = Cardinality(RoutineEmitters(w)) - 1
        BY <2>7, <3>2, RoutineFireFinite, FS_RemoveElement
      <4>3. RoutineFired(w)' = RoutineFired(w) \cup {e} /\ RoutineEmitters(w)' = RoutineEmitters(w) \ {r}
        BY <2>3, <2>6, <3>2
      <4>4. Cardinality(RoutineFired(w)') + Cardinality(RoutineEmitters(w)') = Cardinality(RoutineFired(w)) + Cardinality(RoutineEmitters(w))
        BY <4>1, <4>2, <4>3, RoutineFireFinite
      <4>5. QED BY <2>1, <3>1, <4>4
    <3>3. CASE w # k
      <4>1. RoutineFired(w)' = RoutineFired(w) BY <2>3, <3>3
      <4>2. RoutineEmitters(w)' = RoutineEmitters(w) BY <2>6, <2>7, <3>3 DEF RoutineEmitters
      <4>3. QED BY <2>1, <3>1, <4>1, <4>2
    <3>4. QED BY <3>2, <3>3
  <2>9. QED BY <1>1, <2>1, <2>3, <2>4, <2>5, <2>8 DEF RoutineFireInv
<1>15. ASSUME NEW r \in Replica, R!Look(r) PROVE RoutineFireInv'
  <2> PICK k \in R!Wake \cup {0} : k = tick[r].row BY <1>1 DEF RoutineTicks
  <2> DEFINE gone == R!Superseded(k) \/ R!Killed \/ R!Known(k)
             x == [at |-> IF gone THEN "mark" ELSE "emit", rows |-> tick[r].rows, row |-> k,
                   outcome |-> IF gone THEN "expired" ELSE "fired"]
  <2>1. tick[r].at = "look" /\ UNCHANGED <<event, spent>> /\ tick' = [tick EXCEPT ![r] = x]
    <3>1. tick[r] \in RoutineTicks BY <1>1
    <3>2. gone => [[tick[r] EXCEPT !.at = "mark"] EXCEPT !.outcome = "expired"] = x
      <4> DEFINE e == [at |-> "mark", rows |-> tick[r].rows, row |-> k, outcome |-> "expired"]
      <4>1. [[tick[r] EXCEPT !.at = "mark"] EXCEPT !.outcome = "expired"] = e
        <5> DEFINE h == [tick[r] EXCEPT !.at = "mark"]
        <5>1. h = [at |-> "mark", rows |-> tick[r].rows, row |-> k, outcome |-> tick[r].outcome]
          BY <3>1 DEF RoutineTicks
        <5> HIDE DEF h
        <5>2. [h EXCEPT !.outcome = "expired"] = e BY <5>1
        <5>3. QED BY <5>2 DEF h
      <4> HIDE DEF gone
      <4>2. gone => x = e OBVIOUS
      <4>3. QED BY <4>1, <4>2
    <3>3. ~gone => [[tick[r] EXCEPT !.at = "emit"] EXCEPT !.outcome = "fired"] = x
      <4> DEFINE e == [at |-> "emit", rows |-> tick[r].rows, row |-> k, outcome |-> "fired"]
      <4>1. [[tick[r] EXCEPT !.at = "emit"] EXCEPT !.outcome = "fired"] = e
        <5> DEFINE h == [tick[r] EXCEPT !.at = "emit"]
        <5>1. h = [at |-> "emit", rows |-> tick[r].rows, row |-> k, outcome |-> tick[r].outcome]
          BY <3>1 DEF RoutineTicks
        <5> HIDE DEF h
        <5>2. [h EXCEPT !.outcome = "fired"] = e BY <5>1
        <5>3. QED BY <5>2 DEF h
      <4> HIDE DEF gone
      <4>2. ~gone => x = e OBVIOUS
      <4>3. QED BY <4>1, <4>2
    <3> HIDE DEF x
    <3>4. tick' = [tick EXCEPT ![r] = IF gone THEN [[tick[r] EXCEPT !.at = "mark"] EXCEPT !.outcome = "expired"]
                                      ELSE [[tick[r] EXCEPT !.at = "emit"] EXCEPT !.outcome = "fired"]]
      BY <1>15 DEF R!Look
    <3>5. tick[r].at = "look" /\ UNCHANGED <<event, spent>> BY <1>15 DEF R!Look
    <3> HIDE DEF gone
    <3>6. CASE gone BY <3>2, <3>4, <3>5, <3>6
    <3>7. CASE ~gone BY <3>3, <3>4, <3>5, <3>7
    <3>8. QED BY <3>6, <3>7
  <2>2. x \in RoutineTicks /\ x.row = k /\ (x.at = "emit" => ~R!Known(k)) /\ x.at # "idle"
    BY <1>1 DEF RoutineTicks
  <2> HIDE DEF x, gone
  <2>3. CASE x.at # "emit" BY <1>9, <2>1, <2>2, <2>3
  <2>4. CASE x.at = "emit"
    <3>1. tick' \in [Replica -> RoutineTicks] /\ \A q \in Replica : tick'[q] = IF q = r THEN x ELSE tick[q]
      BY <1>1, <2>1, <2>2
    <3>2. RoutineBusy' = RoutineBusy BY <2>1, <2>2, <3>1 DEF RoutineBusy
    <3>3. \A w : RoutineFired(w)' = RoutineFired(w) BY <2>1 DEF RoutineFired, R!Events
    <3>4. RoutineFired(k) = {} BY <2>2, <2>4 DEF R!Known, RoutineFired
    <3>5. \A w : w # k => RoutineEmitters(w)' = RoutineEmitters(w)
      BY <2>1, <2>2, <3>1 DEF RoutineEmitters
    <3>6. Cardinality(RoutineEmitters(k)') <= Cardinality(RoutineBusy) /\ Cardinality(RoutineEmitters(k)') \in Nat
      <4>1. RoutineEmitters(k)' \subseteq RoutineBusy'
        BY <2>2, <3>1 DEF RoutineEmitters, RoutineBusy
      <4>2. QED BY <3>2, <4>1, RoutineFireFinite, FS_Subset, FS_CardinalityType
    <3>7. ASSUME NEW w \in R!Wake
          PROVE  Cardinality(RoutineFired(w)') + Cardinality(RoutineEmitters(w)') <= 1 + spent'.overlap
      <4>1. CASE w = k
        <5>1. Cardinality(RoutineFired(w)') = 0 BY <3>3, <3>4, <4>1, FS_EmptySet
        <5>2. Cardinality(RoutineBusy) <= 1 + spent.overlap /\ spent.overlap \in Nat
          BY DEF RoutineFireInv, RoutineCounters
        <5>3. Cardinality(RoutineEmitters(w)') <= Cardinality(RoutineBusy) /\ Cardinality(RoutineEmitters(w)') \in Nat
          <6>1. RoutineEmitters(w)' = RoutineEmitters(k)' BY <4>1 DEF RoutineEmitters
          <6>2. QED BY <3>6, <6>1
        <5>4. QED BY <2>1, <5>1, <5>2, <5>3, RoutineFireFinite
      <4>2. CASE w # k BY <2>1, <3>3, <3>5, <3>7, <4>2 DEF RoutineFireInv
      <4>3. QED BY <4>1, <4>2
    <3>8. QED BY <1>1, <2>1, <3>1, <3>2, <3>7 DEF RoutineFireInv
  <2>5. QED BY <2>3, <2>4
<1>16. CASE R!Next
  <2>1. CASE R!Toggle BY <1>3, <2>1 DEF R!Toggle
  <2>2. CASE \E e \in R!Event : R!Forgive(e) \/ R!ReadFailures(e) \/ R!CountFailure(e) \/ R!Room(e) \/ R!BookWakeup(e)
    BY <1>3, <2>2 DEF R!Forgive, R!ReadFailures, R!CountFailure, R!Room, R!BookWakeup
  <2>3. CASE \E e \in R!Event : R!Lose(e) \/ R!AgentWakeup(e)
    BY <1>3, <2>3 DEF R!Lose, R!AgentWakeup
  <2>4. CASE \E w \in R!Wake : R!CancelWakeup(w) \/ R!Later(w)
    BY <1>3, <2>4 DEF R!CancelWakeup, R!Later
  <2>5. QED
    BY <1>5, <1>6, <1>8, <1>11, <1>12, <1>13, <1>14, <1>15, <1>16, <2>1, <2>2, <2>3, <2>4 DEF R!Next
<1>17. QED BY <1>3, <1>16 DEF R!rvars

-----------------------------------------------------------------------------
RoutineInv == RoutineBookInv /\ RoutineFireInv

LEMMA RoutineInit == R!Init => RoutineInv
BY RoutineBookInit, RoutineFireInit DEF RoutineInv

LEMMA RoutineStep == RoutineInv /\ [R!Next]_R!rvars => RoutineInv'
BY RoutineBookStep, RoutineFireStep DEF RoutineInv

\* One of the parts of what FireInv counts.
LEMMA RoutineHolds == RoutineInv => R!WakeupFiresOnce /\ R!FailingRoutineStops
<1> SUFFICES ASSUME RoutineInv PROVE R!WakeupFiresOnce /\ R!FailingRoutineStops
  OBVIOUS
<1>1. ASSUME NEW w \in R!Wake PROVE Cardinality({e \in R!Events : event[e].key = w}) <= 1 + spent.overlap
  <2>1. Cardinality(RoutineFired(w)) + Cardinality(RoutineEmitters(w)) <= 1 + spent.overlap /\ spent.overlap \in Nat
    BY <1>1 DEF RoutineInv, RoutineFireInv, RoutineCounters
  <2>2. Cardinality(RoutineFired(w)) <= 1 + spent.overlap BY <2>1, RoutineFireFinite
  <2>3. QED BY <2>2 DEF RoutineFired
<1>2. R!WakeupFiresOnce BY <1>1, SameSize DEF R!WakeupFiresOnce
<1>3. R!FailingRoutineStops BY DEF RoutineInv, RoutineBookInv, RoutineNotYet, R!FailingRoutineStops
<1>4. QED BY <1>2, <1>3

\* WakeupFiresOnce: rows a tick has looked at and not yet emitted are counted with the
\* events there are, and only a tick begun beside another lets one more through
\* (fire_due_wakeups, emit_event).
THEOREM WakeupsFireOnce == Spec => []WakeupFiresOnce
<1>1. Init => RoutineInv
  BY RoutineInit DEF Init
<1>2. RoutineInv /\ [Next]_vars => RoutineInv'
  BY RoutineStep, OnePartMoves
<1>3. RoutineInv => WakeupFiresOnce
  BY RoutineHolds DEF WakeupFiresOnce
<1>4. QED
  BY <1>1, <1>2, <1>3, PTL DEF Spec

\* FailingRoutineStops: who counts a failure up to the limit read the routine on, and
\* the failures only fall when a run completed (finish_ambient_run).
THEOREM FailuresPause == Spec => []FailingRoutineStops
<1>1. Init => RoutineInv
  BY RoutineInit DEF Init
<1>2. RoutineInv /\ [Next]_vars => RoutineInv'
  BY RoutineStep, OnePartMoves
<1>3. RoutineInv => FailingRoutineStops
  BY RoutineHolds DEF FailingRoutineStops
<1>4. QED
  BY <1>1, <1>2, <1>3, PTL DEF Spec


-----------------------------------------------------------------------------
(* Schedules (Schedules) *)

\* The first of the triggers that are left; whether a tick has an event of t behind it
\* and its stamp before it; whether it may still come to an event of t.
ScheduleFirst(left)    == CHOOSE t \in left : \A u \in left : t <= u
ScheduleStamping(k, t) == k.at = "stamp" /\ ScheduleFirst(k.left) = t
ScheduleBefore(k, t)   == k.at # "idle" /\ t \in k.left /\ ~ScheduleStamping(k, t)
ScheduleAwaiting(t)    == {r \in Replica : ScheduleBefore(sTick[r], t)}
ScheduleBusy           == {r \in Replica : sTick[r].at # "idle"}

\* No event of t is later than `when`.
ScheduleCovers(when, t, es) == \A i \in DOMAIN es : es[i].trigger = t => es[i].slot <= when
ScheduleUntil(t, when) == ScheduleCovers(when, t, events)

\* Those that may still come to an event of t read a stamp that covers all there are:
\* the first of them to fire does so in time.
ScheduleFresh(t) == ScheduleAwaiting(t) # {} /\ \A r \in ScheduleAwaiting(t) : ScheduleUntil(t, sTick[r].last)

\* The stamp covers the events of t once everybody is done: nobody is there, or one
\* alone, whose stamps cover them, and who stamps if the stamp there is does not.
ScheduleCloses(t, k) ==
  /\ ScheduleUntil(t, k.now)
  /\ ScheduleUntil(t, sRoutine.last) \/ ScheduleStamping(k, t) \/ (ScheduleBefore(k, t) /\ ~ScheduleFresh(t))
ScheduleSettled(t) ==
  \/ ScheduleBusy = {} /\ ScheduleUntil(t, sRoutine.last)
  \/ \E r \in Replica : ScheduleBusy = {r} /\ ScheduleCloses(t, sTick[r])

\* What has been fired too soon, what may still be by somebody who is there, and once
\* more if the stamp is left behind: all of it is paid for. Of those who read a stamp
\* that covers everything one will be in time.
ScheduleOwed(t) == Cardinality(ScheduleAwaiting(t)) + (IF ScheduleSettled(t) THEN 0 ELSE 1)
ScheduleSpare(t) == IF ScheduleFresh(t) THEN 1 ELSE 0
SchedulePaid(t) == Cardinality(S!TooSoon(t)) + ScheduleOwed(t) <= sSpent.cut + 2 * sSpent.overlap + ScheduleSpare(t)

ScheduleTicks == [at : {"idle", "look", "insert", "stamp"}, last : Nat, left : SUBSET Trigger, now : Nat]
ScheduleFired == [trigger : Trigger \cup {0}, slot : Nat]
ScheduleCounters == [cut : Nat, overlap : Nat, broken : Nat, toggle : Nat]

ScheduleShapeOK ==
  /\ minute \in Nat \ {0}
  /\ sRoutine.last \in Nat /\ sRoutine.last <= minute /\ sRoutine.armed \subseteq Trigger
  /\ sRoutine = [sRoutine EXCEPT !.last = sRoutine.last]
  /\ DOMAIN sRoutine = {"status", "failures", "last", "armed"}
  /\ events \in Seq(ScheduleFired) /\ \A i \in DOMAIN events : events[i].slot \in 1..minute
  /\ sTick \in [Replica -> ScheduleTicks]
  /\ sSpent \in ScheduleCounters

ScheduleTickOK(k) ==
  k.at # "idle" =>
    /\ k.left # {} /\ k.now \in 1..minute /\ k.last <= k.now
    /\ k.at = "insert" => S!Due(ScheduleFirst(k.left), k.last, k.now)

ScheduleStepsOK == \A r \in Replica : ScheduleTickOK(sTick[r])

ScheduleInv == ScheduleShapeOK /\ ScheduleStepsOK /\ \A t \in Trigger : SchedulePaid(t)

-----------------------------------------------------------------------------
LEMMA ScheduleFirstIsOne ==
  ASSUME NEW left \in SUBSET Trigger, left # {}
  PROVE  ScheduleFirst(left) \in left
<1> DEFINE Less == {ss \in Nat \X Nat : ss[1] < ss[2]}
<1>1. left \subseteq Nat BY TriggersAreNumbers
<1>2. IsWellFoundedOn(Less, Nat) BY NatLessThanWellFounded DEF OpToRel
<1>3. \A m, v \in Nat : v < m => <<v, m>> \in Less OBVIOUS
<1> HIDE DEF Less
<1>4. PICK m \in left : \A v \in left : ~(<<v, m>> \in Less) BY <1>1, <1>2, WFMin
<1>5. \A v \in left : m \in Nat /\ v \in Nat /\ ~(v < m) BY <1>1, <1>3, <1>4
<1>6. \A v \in left : m <= v BY <1>5
<1>7. QED BY <1>6 DEF ScheduleFirst

LEMMA ScheduleCounted ==
  ASSUME ScheduleShapeOK
  PROVE  /\ IsFiniteSet(ScheduleBusy) /\ Cardinality(ScheduleBusy) \in Nat
         /\ \A t : IsFiniteSet(ScheduleAwaiting(t)) /\ Cardinality(ScheduleAwaiting(t)) \in Nat
         /\ \A t : IsFiniteSet(S!TooSoon(t)) /\ Cardinality(S!TooSoon(t)) \in Nat
<1>1. ScheduleBusy \subseteq Replica /\ \A t : ScheduleAwaiting(t) \subseteq Replica
  BY DEF ScheduleBusy, ScheduleAwaiting
<1>2. DOMAIN events = 1..Len(events) /\ Len(events) \in Nat BY DEF ScheduleShapeOK
<1>3. IsFiniteSet(DOMAIN events) BY <1>2, FS_Interval
<1>4. \A t : S!TooSoon(t) \subseteq DOMAIN events BY DEF S!TooSoon
<1>5. QED BY <1>1, <1>3, <1>4, ReplicasAreFinite, FS_Subset, FS_CardinalityType

\* Those who may come to an event are there.
LEMMA ScheduleAwaitingAreBusy == \A t : ScheduleAwaiting(t) \subseteq ScheduleBusy
BY DEF ScheduleAwaiting, ScheduleBusy, ScheduleBefore
-----------------------------------------------------------------------------
(* What a step may do to one trigger *)

\* The step neither pays nor fires t too soon, and nobody comes or goes.
LEMMA ScheduleNobodyMoves ==
  ASSUME ScheduleShapeOK, NEW t \in Trigger, SchedulePaid(t), S!TooSoon(t)' = S!TooSoon(t), ScheduleAwaiting(t)' = ScheduleAwaiting(t),
         ScheduleFresh(t)' = ScheduleFresh(t), ScheduleSettled(t) => ScheduleSettled(t)',
         sSpent'.cut \in Nat, sSpent'.overlap \in Nat,
         sSpent'.cut >= sSpent.cut, sSpent'.overlap >= sSpent.overlap
  PROVE  SchedulePaid(t)'
<1>1. Cardinality(S!TooSoon(t)) \in Nat /\ Cardinality(ScheduleAwaiting(t)) \in Nat
  BY ScheduleCounted
<1>2. sSpent.cut \in Nat /\ sSpent.overlap \in Nat BY DEF ScheduleShapeOK, ScheduleCounters
<1>3. Cardinality(S!TooSoon(t)') = Cardinality(S!TooSoon(t)) /\ Cardinality(ScheduleAwaiting(t)') = Cardinality(ScheduleAwaiting(t))
  OBVIOUS
<1>4. ScheduleSpare(t)' = ScheduleSpare(t) BY DEF ScheduleSpare
<1>5. ScheduleSpare(t) \in 0..1 BY DEF ScheduleSpare
<1>6. QED BY <1>1, <1>2, <1>3, <1>4, <1>5 DEF SchedulePaid, ScheduleOwed

\* One of those who may come to an event of t goes.
LEMMA ScheduleOneLeaves ==
  ASSUME ScheduleShapeOK, NEW t \in Trigger, SchedulePaid(t), NEW r \in ScheduleAwaiting(t), ScheduleAwaiting(t)' = ScheduleAwaiting(t) \ {r},
         \/ S!TooSoon(t)' = S!TooSoon(t)
         \/ ~ScheduleFresh(t) /\ \E i : S!TooSoon(t)' = S!TooSoon(t) \cup {i},
         ScheduleSettled(t) => ScheduleSettled(t)',
         sSpent'.cut = sSpent.cut, sSpent'.overlap = sSpent.overlap
  PROVE  SchedulePaid(t)'
<1>1. /\ IsFiniteSet(S!TooSoon(t)) /\ Cardinality(S!TooSoon(t)) \in Nat
      /\ IsFiniteSet(ScheduleAwaiting(t)) /\ Cardinality(ScheduleAwaiting(t)) \in Nat
  BY ScheduleCounted
<1>2. sSpent.cut \in Nat /\ sSpent.overlap \in Nat BY DEF ScheduleShapeOK, ScheduleCounters
<1>3. Cardinality(ScheduleAwaiting(t)') = Cardinality(ScheduleAwaiting(t)) - 1
  BY <1>1, FS_RemoveElement
<1>4. \/ Cardinality(S!TooSoon(t)') = Cardinality(S!TooSoon(t))
      \/ ~ScheduleFresh(t) /\ Cardinality(S!TooSoon(t)') \in {Cardinality(S!TooSoon(t)), Cardinality(S!TooSoon(t)) + 1}
  <2>1. CASE S!TooSoon(t)' = S!TooSoon(t) BY <2>1
  <2>2. CASE ~ScheduleFresh(t) /\ \E i : S!TooSoon(t)' = S!TooSoon(t) \cup {i}
    BY <1>1, <2>2, FS_AddElement
  <2>3. QED BY <2>1, <2>2
<1>5. ScheduleSpare(t) = (IF ScheduleFresh(t) THEN 1 ELSE 0) /\ ScheduleSpare(t)' \in 0..1
  BY DEF ScheduleSpare
<1>6. ScheduleOwed(t)' - Cardinality(ScheduleAwaiting(t)') <= ScheduleOwed(t) - Cardinality(ScheduleAwaiting(t))
  <2>1. CASE ScheduleSettled(t) BY <1>1, <1>3, <2>1 DEF ScheduleOwed
  <2>2. CASE ~ScheduleSettled(t) BY <1>1, <1>3, <2>2 DEF ScheduleOwed
  <2>3. QED BY <2>1, <2>2
<1>7. ScheduleOwed(t) \in Nat /\ ScheduleOwed(t)' \in Int BY <1>1, <1>3 DEF ScheduleOwed
<1>8. ScheduleOwed(t)' <= ScheduleOwed(t) - 1 BY <1>1, <1>3, <1>6, <1>7
<1>9. Cardinality(S!TooSoon(t)) + ScheduleOwed(t) <= sSpent.cut + 2 * sSpent.overlap + ScheduleSpare(t)
  BY DEF SchedulePaid
<1>10. Cardinality(S!TooSoon(t)') + ScheduleOwed(t)' <= sSpent'.cut + 2 * sSpent'.overlap + ScheduleSpare(t)'
  <2>1. CASE ScheduleFresh(t)
    <3>1. Cardinality(S!TooSoon(t)') = Cardinality(S!TooSoon(t)) /\ ScheduleSpare(t) = 1
      BY <1>4, <1>5, <2>1
    <3>2. QED BY <1>1, <1>2, <1>5, <1>7, <1>8, <1>9, <3>1
  <2>2. CASE ~ScheduleFresh(t)
    <3>1. Cardinality(S!TooSoon(t)') <= Cardinality(S!TooSoon(t)) + 1 /\ Cardinality(S!TooSoon(t)') \in Nat /\ ScheduleSpare(t) = 0
      BY <1>1, <1>4, <1>5, <2>2
    <3>2. QED BY <1>1, <1>2, <1>5, <1>7, <1>8, <1>9, <3>1
  <2>3. QED BY <2>1, <2>2
<1>11. QED BY <1>10 DEF SchedulePaid

\* Somebody is cut, which pays for what he may leave behind.
LEMMA ScheduleOneIsCut ==
  ASSUME ScheduleShapeOK, NEW t \in Trigger, SchedulePaid(t), NEW r, ScheduleAwaiting(t)' = ScheduleAwaiting(t) \ {r},
         S!TooSoon(t)' = S!TooSoon(t), r \notin ScheduleAwaiting(t) => ScheduleFresh(t)' = ScheduleFresh(t),
         sSpent'.cut = sSpent.cut + 1, sSpent'.overlap = sSpent.overlap
  PROVE  SchedulePaid(t)'
<1>1. /\ Cardinality(S!TooSoon(t)) \in Nat /\ Cardinality(S!TooSoon(t)') = Cardinality(S!TooSoon(t))
      /\ IsFiniteSet(ScheduleAwaiting(t)) /\ Cardinality(ScheduleAwaiting(t)) \in Nat
  BY ScheduleCounted
<1>2. sSpent.cut \in Nat /\ sSpent.overlap \in Nat BY DEF ScheduleShapeOK, ScheduleCounters
<1>3. ScheduleSpare(t) \in 0..1 /\ ScheduleSpare(t)' \in 0..1 /\ (r \notin ScheduleAwaiting(t) => ScheduleSpare(t)' = ScheduleSpare(t))
  BY DEF ScheduleSpare
<1>4. Cardinality(ScheduleAwaiting(t)') = Cardinality(ScheduleAwaiting(t)) - (IF r \in ScheduleAwaiting(t) THEN 1 ELSE 0)
  <2>1. CASE r \in ScheduleAwaiting(t) BY <1>1, <2>1, FS_RemoveElement
  <2>2. CASE r \notin ScheduleAwaiting(t)
    <3>1. ScheduleAwaiting(t)' = ScheduleAwaiting(t) BY <2>2
    <3>2. QED BY <1>1, <2>2, <3>1
  <2>3. QED BY <2>1, <2>2
<1>5. ScheduleOwed(t) >= Cardinality(ScheduleAwaiting(t)) /\ ScheduleOwed(t) \in Nat
  BY <1>1 DEF ScheduleOwed
<1>6. ScheduleOwed(t)' <= Cardinality(ScheduleAwaiting(t)') + 1 /\ ScheduleOwed(t)' \in Int
  BY <1>1, <1>4 DEF ScheduleOwed
<1>7. Cardinality(S!TooSoon(t)) + ScheduleOwed(t) <= sSpent.cut + 2 * sSpent.overlap + ScheduleSpare(t)
  BY DEF SchedulePaid
<1>8. Cardinality(S!TooSoon(t)') + ScheduleOwed(t)' <= sSpent'.cut + 2 * sSpent'.overlap + ScheduleSpare(t)'
  <2>1. CASE r \in ScheduleAwaiting(t) BY <1>1, <1>2, <1>3, <1>4, <1>5, <1>6, <1>7, <2>1
  <2>2. CASE r \notin ScheduleAwaiting(t) BY <1>1, <1>2, <1>3, <1>4, <1>5, <1>6, <1>7, <2>2
  <2>3. QED BY <2>1, <2>2
<1>9. QED BY <1>8 DEF SchedulePaid

\* One goes who would have been too late for his stamp anyway, and fires nothing.
LEMMA ScheduleLateOneLeaves ==
  ASSUME ScheduleShapeOK, NEW t \in Trigger, SchedulePaid(t), NEW r \in ScheduleAwaiting(t), ScheduleAwaiting(t)' = ScheduleAwaiting(t) \ {r},
         S!TooSoon(t)' = S!TooSoon(t), ~ScheduleFresh(t),
         sSpent'.cut = sSpent.cut, sSpent'.overlap = sSpent.overlap
  PROVE  SchedulePaid(t)'
<1>1. /\ Cardinality(S!TooSoon(t)) \in Nat /\ Cardinality(S!TooSoon(t)') = Cardinality(S!TooSoon(t))
      /\ IsFiniteSet(ScheduleAwaiting(t)) /\ Cardinality(ScheduleAwaiting(t)) \in Nat
  BY ScheduleCounted
<1>2. sSpent.cut \in Nat /\ sSpent.overlap \in Nat BY DEF ScheduleShapeOK, ScheduleCounters
<1>3. Cardinality(ScheduleAwaiting(t)') = Cardinality(ScheduleAwaiting(t)) - 1
  BY <1>1, FS_RemoveElement
<1>4. ScheduleSpare(t) = 0 /\ ScheduleSpare(t)' \in 0..1 BY DEF ScheduleSpare
<1>5. ScheduleOwed(t) >= Cardinality(ScheduleAwaiting(t)) /\ ScheduleOwed(t) \in Nat
  BY <1>1 DEF ScheduleOwed
<1>6. ScheduleOwed(t)' <= Cardinality(ScheduleAwaiting(t)') + 1 /\ ScheduleOwed(t)' \in Int
  BY <1>1, <1>3 DEF ScheduleOwed
<1>7. QED BY <1>1, <1>2, <1>3, <1>4, <1>5, <1>6 DEF SchedulePaid

\* A tick begins beside nobody.
LEMMA ScheduleOneComesAlone ==
  ASSUME ScheduleShapeOK, NEW t \in Trigger, SchedulePaid(t), S!TooSoon(t)' = S!TooSoon(t), ScheduleAwaiting(t) = {},
         NEW r, \/ ScheduleAwaiting(t)' = {} /\ (ScheduleSettled(t) => ScheduleSettled(t)')
                \/ ScheduleAwaiting(t)' = {r} /\ ScheduleSettled(t)' /\ (ScheduleSettled(t) => ScheduleFresh(t)'),
         sSpent'.cut = sSpent.cut, sSpent'.overlap = sSpent.overlap
  PROVE  SchedulePaid(t)'
<1>1. Cardinality(S!TooSoon(t)) \in Nat /\ Cardinality(S!TooSoon(t)') = Cardinality(S!TooSoon(t))
  BY ScheduleCounted
<1>2. sSpent.cut \in Nat /\ sSpent.overlap \in Nat BY DEF ScheduleShapeOK, ScheduleCounters
<1>3. ScheduleSpare(t) = 0 /\ ScheduleSpare(t)' \in 0..1 BY DEF ScheduleSpare, ScheduleFresh
<1>4. Cardinality(ScheduleAwaiting(t)) = 0 /\ ScheduleOwed(t) = (IF ScheduleSettled(t) THEN 0 ELSE 1)
  BY FS_EmptySet DEF ScheduleOwed
<1>5. ScheduleOwed(t)' <= ScheduleOwed(t) + ScheduleSpare(t)' /\ ScheduleOwed(t)' \in Int
  <2>1. CASE ScheduleAwaiting(t)' = {} /\ (ScheduleSettled(t) => ScheduleSettled(t)')
    <3>1. Cardinality(ScheduleAwaiting(t)') = 0 BY <2>1, FS_EmptySet
    <3>2. ScheduleOwed(t)' = (IF ScheduleSettled(t)' THEN 0 ELSE 1) BY <3>1 DEF ScheduleOwed
    <3>3. QED BY <1>3, <1>4, <2>1, <3>2
  <2>2. CASE ScheduleAwaiting(t)' = {r} /\ ScheduleSettled(t)' /\ (ScheduleSettled(t) => ScheduleFresh(t)')
    <3>1. Cardinality(ScheduleAwaiting(t)') = 1 BY <2>2, FS_Singleton
    <3>2. ScheduleOwed(t)' = 1 BY <2>2, <3>1 DEF ScheduleOwed
    <3>3. ScheduleSpare(t)' = IF ScheduleFresh(t)' THEN 1 ELSE 0 BY DEF ScheduleSpare
    <3>4. QED BY <1>3, <1>4, <2>2, <3>2, <3>3
  <2>3. QED BY <2>1, <2>2
<1>6. QED BY <1>1, <1>2, <1>3, <1>4, <1>5 DEF SchedulePaid

\* A tick begins beside others, and pays for itself and for what it may spoil.
LEMMA ScheduleOneComesBeside ==
  ASSUME ScheduleShapeOK, NEW t \in Trigger, SchedulePaid(t), S!TooSoon(t)' = S!TooSoon(t),
         NEW r, ScheduleAwaiting(t)' \in {ScheduleAwaiting(t), ScheduleAwaiting(t) \cup {r}},
         ScheduleFresh(t) /\ ScheduleSettled(t) => ScheduleFresh(t)',
         sSpent'.cut = sSpent.cut, NEW n \in Nat \ {0}, sSpent'.overlap = sSpent.overlap + n
  PROVE  SchedulePaid(t)'
<1>1. /\ Cardinality(S!TooSoon(t)) \in Nat /\ Cardinality(S!TooSoon(t)') = Cardinality(S!TooSoon(t))
      /\ IsFiniteSet(ScheduleAwaiting(t)) /\ Cardinality(ScheduleAwaiting(t)) \in Nat
  BY ScheduleCounted
<1>2. sSpent.cut \in Nat /\ sSpent.overlap \in Nat BY DEF ScheduleShapeOK, ScheduleCounters
<1>3. Cardinality(ScheduleAwaiting(t)') \in {Cardinality(ScheduleAwaiting(t)), Cardinality(ScheduleAwaiting(t)) + 1}
  <2>1. CASE ScheduleAwaiting(t)' = ScheduleAwaiting(t) BY <2>1
  <2>2. CASE ScheduleAwaiting(t)' = ScheduleAwaiting(t) \cup {r}
    <3>1. Cardinality(ScheduleAwaiting(t) \cup {r}) \in {Cardinality(ScheduleAwaiting(t)), Cardinality(ScheduleAwaiting(t)) + 1}
      BY <1>1, FS_AddElement
    <3>2. QED BY <2>2, <3>1
  <2>3. QED BY <2>1, <2>2
<1>4. ScheduleOwed(t)' <= Cardinality(ScheduleAwaiting(t)') + 1 /\ ScheduleOwed(t)' \in Int
  BY <1>1, <1>3 DEF ScheduleOwed
<1>5. ScheduleOwed(t)' + ScheduleSpare(t) <= ScheduleOwed(t) + ScheduleSpare(t)' + 2 /\ ScheduleOwed(t) \in Int /\ ScheduleSpare(t) \in 0..1 /\ ScheduleSpare(t)' \in 0..1
  <2>1. ScheduleSpare(t) \in 0..1 /\ ScheduleSpare(t)' \in 0..1 BY DEF ScheduleSpare
  <2>2. ScheduleOwed(t) >= Cardinality(ScheduleAwaiting(t)) /\ ScheduleOwed(t) \in Int
    BY <1>1 DEF ScheduleOwed
  <2>3. CASE ScheduleFresh(t) /\ ~ScheduleSettled(t)
    <3>1. ScheduleOwed(t) = Cardinality(ScheduleAwaiting(t)) + 1 BY <1>1, <2>3 DEF ScheduleOwed
    <3>2. QED BY <1>1, <1>3, <1>4, <2>1, <3>1
  <2>4. CASE ~ScheduleFresh(t)
    <3>1. ScheduleSpare(t) = 0 BY <2>4 DEF ScheduleSpare
    <3>2. QED BY <1>1, <1>3, <1>4, <2>1, <2>2, <3>1
  <2>5. CASE ScheduleFresh(t)'
    <3>1. ScheduleSpare(t)' = 1 BY <2>5 DEF ScheduleSpare
    <3>2. QED BY <1>1, <1>3, <1>4, <2>1, <2>2, <3>1
  <2>6. QED BY <2>3, <2>4, <2>5
<1>6. QED BY <1>1, <1>2, <1>4, <1>5 DEF SchedulePaid
-----------------------------------------------------------------------------
(* What a step does to a sTick *)

LEMMA ScheduleTickGoes ==
  ASSUME ScheduleShapeOK, NEW r \in Replica, NEW k \in ScheduleTicks, sTick' = [sTick EXCEPT ![r] = k]
  PROVE  /\ sTick' \in [Replica -> ScheduleTicks]
         /\ \A q \in Replica : sTick'[q] = IF q = r THEN k ELSE sTick[q]
         /\ ScheduleBusy' = IF k.at = "idle" THEN ScheduleBusy \ {r} ELSE ScheduleBusy \cup {r}
         /\ \A t : ScheduleAwaiting(t)' = IF ScheduleBefore(k, t) THEN ScheduleAwaiting(t) \cup {r} ELSE ScheduleAwaiting(t) \ {r}
<1>1. sTick \in [Replica -> ScheduleTicks] BY DEF ScheduleShapeOK
<1>2. sTick' \in [Replica -> ScheduleTicks] /\ \A q \in Replica : sTick'[q] = IF q = r THEN k ELSE sTick[q]
  BY <1>1
<1>3. ScheduleBusy' = IF k.at = "idle" THEN ScheduleBusy \ {r} ELSE ScheduleBusy \cup {r}
  BY <1>2 DEF ScheduleBusy
<1>4. \A t : ScheduleAwaiting(t)' = {q \in Replica : ScheduleBefore(sTick'[q], t)}
  BY DEF ScheduleAwaiting, ScheduleBefore, ScheduleStamping
<1>5. \A t : ScheduleAwaiting(t)' = IF ScheduleBefore(k, t) THEN ScheduleAwaiting(t) \cup {r} ELSE ScheduleAwaiting(t) \ {r}
  BY <1>2, <1>4 DEF ScheduleAwaiting
<1>6. QED BY <1>2, <1>3, <1>5

\* Who stays before t stays with the stamp he read.
LEMMA ScheduleTickStays ==
  ASSUME ScheduleShapeOK, NEW r \in Replica, NEW k \in ScheduleTicks, sTick' = [sTick EXCEPT ![r] = k], NEW t,
         \A when : ScheduleCovers(when, t, events') <=> ScheduleCovers(when, t, events),
         ScheduleBefore(k, t) <=> ScheduleBefore(sTick[r], t), ScheduleBefore(k, t) => k.last = sTick[r].last
  PROVE  ScheduleAwaiting(t)' = ScheduleAwaiting(t) /\ ScheduleFresh(t)' = ScheduleFresh(t)
<1>1. ScheduleAwaiting(t)' = ScheduleAwaiting(t) BY ScheduleTickGoes DEF ScheduleAwaiting
<1>2. \A q \in ScheduleAwaiting(t) : sTick'[q].last = sTick[q].last
  BY ScheduleTickGoes DEF ScheduleAwaiting
<1>3. ScheduleFresh(t)' <=> ScheduleAwaiting(t)' # {} /\ \A q \in ScheduleAwaiting(t)' : ScheduleCovers(sTick'[q].last, t, events')
  BY DEF ScheduleFresh, ScheduleUntil
<1>4. ScheduleFresh(t) <=> ScheduleAwaiting(t) # {} /\ \A q \in ScheduleAwaiting(t) : ScheduleCovers(sTick[q].last, t, events)
  BY DEF ScheduleFresh, ScheduleUntil
<1>5. ScheduleFresh(t)' <=> ScheduleFresh(t) BY <1>1, <1>2, <1>3, <1>4
<1>6. ScheduleFresh(t) \in BOOLEAN /\ ScheduleFresh(t)' \in BOOLEAN BY DEF ScheduleFresh
<1>7. QED BY <1>1, <1>5, <1>6

\* Who is there while the stamp is settled is there alone.
LEMMA ScheduleSettledAlone ==
  ASSUME NEW r \in Replica, sTick[r].at # "idle", NEW t, ScheduleSettled(t)
  PROVE  /\ ScheduleBusy = {r}
         /\ ScheduleCovers(sTick[r].now, t, events)
         /\ \/ ScheduleCovers(sRoutine.last, t, events)
            \/ ScheduleStamping(sTick[r], t)
            \/ ScheduleBefore(sTick[r], t) /\ ~ScheduleFresh(t)
<1>1. r \in ScheduleBusy BY DEF ScheduleBusy
<1>2. QED BY <1>1 DEF ScheduleSettled, ScheduleCloses, ScheduleUntil

LEMMA ScheduleAloneSettles ==
  ASSUME ScheduleShapeOK, NEW r \in Replica, NEW k \in ScheduleTicks, sTick' = [sTick EXCEPT ![r] = k], NEW t,
         ScheduleBusy \subseteq {r},
         \/ k.at = "idle" /\ ScheduleCovers(sRoutine'.last, t, events')
         \/ /\ k.at # "idle" /\ ScheduleCovers(k.now, t, events')
            /\ \/ ScheduleCovers(sRoutine'.last, t, events')
               \/ ScheduleStamping(k, t)
               \/ ScheduleBefore(k, t) /\ ~ScheduleFresh(t)'
  PROVE  ScheduleSettled(t)'
<1>1. sTick'[r] = k BY ScheduleTickGoes
<1>2. CASE k.at = "idle" /\ ScheduleCovers(sRoutine'.last, t, events')
  <2>1. ScheduleBusy' = {} BY <1>2, ScheduleTickGoes
  <2>2. QED BY <1>2, <2>1 DEF ScheduleSettled, ScheduleUntil
<1>3. CASE /\ k.at # "idle" /\ ScheduleCovers(k.now, t, events')
           /\ \/ ScheduleCovers(sRoutine'.last, t, events')
              \/ ScheduleStamping(k, t)
              \/ ScheduleBefore(k, t) /\ ~ScheduleFresh(t)'
  <2>1. ScheduleBusy' = {r} BY <1>3, ScheduleTickGoes
  <2>2. ScheduleCloses(t, k)' BY <1>3 DEF ScheduleCloses, ScheduleUntil
  <2>3. ScheduleCloses(t, sTick[r])'
    <3>1. ScheduleCovers(sTick'[r].now, t, events') BY <1>1, <1>3
    <3>2. \/ ScheduleCovers(sRoutine'.last, t, events') 
          \/ ScheduleStamping(sTick'[r], t)
          \/ ScheduleBefore(sTick'[r], t) /\ ~ScheduleFresh(t)'
      BY <1>1, <1>3
    <3>3. QED BY <3>1, <3>2 DEF ScheduleCloses, ScheduleUntil, ScheduleStamping, ScheduleBefore
  <2>4. QED BY <2>1, <2>3 DEF ScheduleSettled
<1>4. QED BY <1>2, <1>3

\* The tick goes on to the next trigger, or is at its end.
LEMMA ScheduleRestOnly ==
  ASSUME ScheduleShapeOK, NEW r \in Replica, sTick[r].at # "idle", ScheduleTickOK(sTick[r])
  PROVE  /\ S!Current(r) = ScheduleFirst(sTick[r].left) /\ S!Current(r) \in Trigger /\ S!Current(r) \in sTick[r].left
         /\ S!Rest(r) \in ScheduleTicks /\ ScheduleTickOK(S!Rest(r))
         /\ S!Rest(r).at # "idle" => /\ S!Rest(r).at = "look"
                                   /\ S!Rest(r).last = sTick[r].last /\ S!Rest(r).now = sTick[r].now
         /\ \A t : ScheduleBefore(S!Rest(r), t) <=> t \in sTick[r].left \ {S!Current(r)}
         /\ \A t : ~ScheduleStamping(S!Rest(r), t)
<1>1. sTick[r] \in ScheduleTicks BY DEF ScheduleShapeOK
<1>2. sTick[r].left # {} /\ sTick[r].left \in SUBSET Trigger
  BY <1>1 DEF ScheduleTickOK, ScheduleTicks
<1>3. S!Current(r) = ScheduleFirst(sTick[r].left) BY DEF S!Current, ScheduleFirst
<1>4. S!Current(r) \in sTick[r].left BY <1>2, <1>3, ScheduleFirstIsOne
<1> DEFINE left == sTick[r].left \ {S!Current(r)}
<1>5. CASE left = {}
  <2>1. S!Rest(r) = S!Resting BY <1>5 DEF S!Rest
  <2>2. S!Resting \in ScheduleTicks /\ S!Resting.at = "idle" BY DEF S!Resting, ScheduleTicks
  <2>3. QED
    BY <1>2, <1>3, <1>4, <1>5, <2>1, <2>2 DEF ScheduleTickOK, ScheduleBefore, ScheduleStamping
<1>6. CASE left # {}
  <2>1. S!Rest(r) = [at |-> "look", last |-> sTick[r].last, left |-> left, now |-> sTick[r].now]
    BY <1>1, <1>6 DEF S!Rest, ScheduleTicks
  <2>2. sTick[r].now \in 1..minute /\ sTick[r].last <= sTick[r].now BY DEF ScheduleTickOK
  <2>3. S!Rest(r) \in ScheduleTicks BY <1>1, <2>1 DEF ScheduleTicks
  <2>4. ScheduleTickOK(S!Rest(r)) BY <1>6, <2>1, <2>2 DEF ScheduleTickOK
  <2>5. QED BY <1>2, <1>3, <1>4, <2>1, <2>3, <2>4 DEF ScheduleBefore, ScheduleStamping
<1>7. QED BY <1>5, <1>6
-----------------------------------------------------------------------------
(* The steps *)

\* A step on one tick, from `look` or `stamp`, that goes on or ends there.
LEMMA ScheduleLookPays ==
  ASSUME ScheduleShapeOK, ScheduleStepsOK, \A t \in Trigger : SchedulePaid(t), NEW r \in Replica, S!Look(r)
  PROVE  \A t \in Trigger : SchedulePaid(t)'
<1>1. sTick[r].at = "look" /\ UNCHANGED <<sRoutine, events, minute, sSpent>> BY DEF S!Look
<1>2. sTick[r] \in ScheduleTicks /\ ScheduleTickOK(sTick[r]) /\ sSpent \in ScheduleCounters
  BY DEF ScheduleShapeOK, ScheduleStepsOK
<1>3. sSpent.cut \in Nat /\ sSpent.overlap \in Nat BY <1>2 DEF ScheduleCounters
<1>4. SUFFICES ASSUME NEW t \in Trigger PROVE SchedulePaid(t)'
  OBVIOUS
<1>5. S!TooSoon(t)' = S!TooSoon(t) /\ SchedulePaid(t) BY <1>1 DEF S!TooSoon
<1>6. \A when : ScheduleCovers(when, t, events') <=> ScheduleCovers(when, t, events) BY <1>1
<1>7. ScheduleBefore(sTick[r], t) <=> t \in sTick[r].left
  BY <1>1 DEF ScheduleBefore, ScheduleStamping
<1>8. CASE sTick' = [sTick EXCEPT ![r] = [sTick[r] EXCEPT !.at = "insert"]]
  <2> DEFINE k == [sTick[r] EXCEPT !.at = "insert"]
  <2>1. k \in ScheduleTicks /\ k.at = "insert" /\ k.left = sTick[r].left /\ k.last = sTick[r].last /\ k.now = sTick[r].now
    BY <1>2 DEF ScheduleTicks
  <2>2. sTick' = [sTick EXCEPT ![r] = k] BY <1>8
  <2>3. (ScheduleBefore(k, t) <=> ScheduleBefore(sTick[r], t)) /\ ~ScheduleStamping(sTick[r], t)
    BY <1>1, <1>7, <2>1 DEF ScheduleBefore, ScheduleStamping
  <2> HIDE DEF k
  <2>4. ScheduleAwaiting(t)' = ScheduleAwaiting(t) /\ ScheduleFresh(t)' = ScheduleFresh(t)
    BY <1>6, <2>1, <2>2, <2>3, ScheduleTickStays
  <2>5. ASSUME ScheduleSettled(t) PROVE ScheduleSettled(t)'
    <3>1. ScheduleBusy = {r} /\ ScheduleCovers(k.now, t, events')
          /\ (ScheduleCovers(sRoutine'.last, t, events') \/ (ScheduleBefore(k, t) /\ ~ScheduleFresh(t)'))
      BY <1>1, <2>1, <2>3, <2>4, <2>5, ScheduleSettledAlone
    <3>2. QED BY <2>1, <2>2, <3>1, ScheduleAloneSettles
  <2>6. QED BY <1>1, <1>3, <1>5, <2>4, <2>5, ScheduleNobodyMoves
<1>9. CASE sTick' = [sTick EXCEPT ![r] = S!Rest(r)]
  <2> DEFINE k == S!Rest(r)
  <2>1. /\ k \in ScheduleTicks /\ ScheduleTickOK(k) /\ S!Current(r) \in sTick[r].left
        /\ k.at # "idle" => k.last = sTick[r].last /\ k.now = sTick[r].now
        /\ ScheduleBefore(k, t) <=> t \in sTick[r].left \ {S!Current(r)}
    BY <1>1, <1>2, ScheduleRestOnly
  <2>2. sTick' = [sTick EXCEPT ![r] = k] BY <1>9
  <2> HIDE DEF k
  <2>3. ASSUME ScheduleSettled(t), ScheduleCovers(sRoutine.last, t, events) \/ (ScheduleBefore(k, t) /\ ~ScheduleFresh(t)') PROVE ScheduleSettled(t)'
    <3>1. ScheduleBusy = {r} /\ ScheduleCovers(sTick[r].now, t, events)
      BY <1>1, <2>3, ScheduleSettledAlone
    <3>2. ScheduleBefore(k, t) => k.at # "idle" BY DEF ScheduleBefore
    <3>3. CASE k.at = "idle"
      <4>1. ScheduleCovers(sRoutine'.last, t, events') BY <1>1, <2>3, <3>2, <3>3
      <4>2. QED BY <2>1, <2>2, <3>1, <3>3, <4>1, ScheduleAloneSettles
    <3>4. CASE k.at # "idle"
      <4>1. ScheduleCovers(k.now, t, events') BY <1>1, <2>1, <3>1, <3>4
      <4>2. ScheduleCovers(sRoutine'.last, t, events') \/ (ScheduleBefore(k, t) /\ ~ScheduleFresh(t)')
        BY <1>1, <2>3
      <4>3. QED BY <2>1, <2>2, <3>1, <3>4, <4>1, <4>2, ScheduleAloneSettles
    <3>5. QED BY <3>3, <3>4
  <2>4. ~ScheduleStamping(sTick[r], t) BY <1>1 DEF ScheduleStamping
  <2>5. CASE t = S!Current(r)
    <3>1. ScheduleBefore(sTick[r], t) /\ ~ScheduleBefore(k, t) BY <1>7, <2>1, <2>5
    <3>2. r \in ScheduleAwaiting(t) /\ ScheduleAwaiting(t)' = ScheduleAwaiting(t) \ {r}
      <4>1. r \in ScheduleAwaiting(t) BY <3>1 DEF ScheduleAwaiting
      <4>2. QED BY <2>1, <2>2, <3>1, <4>1, ScheduleTickGoes
    <3>3. CASE ScheduleFresh(t)
      <4>1. ScheduleSettled(t) => ScheduleSettled(t)'
        BY <1>1, <2>3, <2>4, <3>3, ScheduleSettledAlone
      <4>2. QED BY <1>1, <1>5, <3>2, <4>1, ScheduleOneLeaves
    <3>4. CASE ~ScheduleFresh(t)
      BY <1>1, <1>5, <3>2, <3>4, ScheduleLateOneLeaves
    <3>5. QED BY <3>3, <3>4
  <2>6. CASE t # S!Current(r)
    <3>1. ScheduleBefore(k, t) <=> ScheduleBefore(sTick[r], t) BY <1>7, <2>1, <2>6
    <3>2. ScheduleBefore(k, t) => k.last = sTick[r].last BY <2>1 DEF ScheduleBefore
    <3>3. ScheduleAwaiting(t)' = ScheduleAwaiting(t) /\ ScheduleFresh(t)' = ScheduleFresh(t)
      BY <1>6, <2>1, <2>2, <3>1, <3>2, ScheduleTickStays
    <3>4. ScheduleSettled(t) => ScheduleSettled(t)'
      BY <1>1, <2>3, <2>4, <3>1, <3>3, ScheduleSettledAlone
    <3>5. QED BY <1>1, <1>3, <1>5, <3>3, <3>4, ScheduleNobodyMoves
  <2>7. QED BY <2>5, <2>6
<1>10. QED BY <1>8, <1>9 DEF S!Look

LEMMA ScheduleStampPays ==
  ASSUME ScheduleShapeOK, ScheduleStepsOK, \A t \in Trigger : SchedulePaid(t), NEW r \in Replica, S!Stamp(r)
  PROVE  \A t \in Trigger : SchedulePaid(t)'
<1>1. sTick[r].at = "stamp" /\ UNCHANGED <<events, minute, sSpent>> /\ sTick' = [sTick EXCEPT ![r] = S!Rest(r)]
  BY DEF S!Stamp
<1>2. sRoutine'.last = sTick[r].now BY DEF S!Stamp, ScheduleShapeOK
<1>3. sTick[r] \in ScheduleTicks /\ ScheduleTickOK(sTick[r]) /\ sSpent \in ScheduleCounters
  BY DEF ScheduleShapeOK, ScheduleStepsOK
<1>4. sSpent.cut \in Nat /\ sSpent.overlap \in Nat BY <1>3 DEF ScheduleCounters
<1>5. SUFFICES ASSUME NEW t \in Trigger PROVE SchedulePaid(t)'
  OBVIOUS
<1>6. S!TooSoon(t)' = S!TooSoon(t) /\ SchedulePaid(t) BY <1>1 DEF S!TooSoon
<1> DEFINE k == S!Rest(r)
<1>7. /\ k \in ScheduleTicks /\ S!Current(r) = ScheduleFirst(sTick[r].left)
      /\ k.at # "idle" => k.last = sTick[r].last /\ k.now = sTick[r].now
      /\ ScheduleBefore(k, t) <=> t \in sTick[r].left \ {S!Current(r)}
  BY <1>1, <1>3, ScheduleRestOnly
<1>8. sTick' = [sTick EXCEPT ![r] = k] BY <1>1
<1> HIDE DEF k
<1>9. ScheduleBefore(k, t) <=> ScheduleBefore(sTick[r], t)
  BY <1>1, <1>7 DEF ScheduleBefore, ScheduleStamping
<1>10. ScheduleBefore(k, t) => k.last = sTick[r].last BY <1>7 DEF ScheduleBefore
<1>11. ScheduleAwaiting(t)' = ScheduleAwaiting(t) /\ ScheduleFresh(t)' = ScheduleFresh(t)
  BY <1>1, <1>7, <1>8, <1>9, <1>10, ScheduleTickStays
<1>12. ASSUME ScheduleSettled(t) PROVE ScheduleSettled(t)'
  <2>1. ScheduleBusy = {r} /\ ScheduleCovers(sTick[r].now, t, events)
    BY <1>1, <1>12, ScheduleSettledAlone
  <2>2. ScheduleCovers(sRoutine'.last, t, events') BY <1>1, <1>2, <2>1
  <2>3. k.at # "idle" => ScheduleCovers(k.now, t, events') BY <1>1, <1>7, <2>1
  <2>4. QED BY <1>7, <1>8, <2>1, <2>2, <2>3, ScheduleAloneSettles
<1>13. QED BY <1>1, <1>4, <1>6, <1>11, <1>12, ScheduleNobodyMoves

LEMMA ScheduleRaisePays ==
  ASSUME ScheduleShapeOK, ScheduleStepsOK, \A t \in Trigger : SchedulePaid(t), NEW r \in Replica, S!Raise(r), sSpent' \in ScheduleCounters,
         sSpent'.cut = sSpent.cut, sSpent'.overlap = sSpent.overlap
  PROVE  \A t \in Trigger : SchedulePaid(t)'
<1>1. sTick[r].at = "look" /\ UNCHANGED <<events, minute>> /\ sTick' = [sTick EXCEPT ![r] = S!Resting]
  BY DEF S!Raise
<1>2. sRoutine'.last = sRoutine.last
  <2> DEFINE f == sRoutine.failures + 1
             s == IF f >= QuarantineAfter THEN "error" ELSE sRoutine.status
  <2>1. sRoutine' = [sRoutine EXCEPT !.failures = f, !.status = s] BY DEF S!Raise
  <2> HIDE DEF f, s
  <2>2. QED BY <2>1 DEF ScheduleShapeOK
<1>3. sTick[r] \in ScheduleTicks /\ sSpent \in ScheduleCounters /\ S!Resting \in ScheduleTicks /\ S!Resting.at = "idle"
  BY DEF ScheduleShapeOK, S!Resting, ScheduleTicks
<1>4. sSpent.cut \in Nat /\ sSpent.overlap \in Nat BY <1>3 DEF ScheduleCounters
<1>5. SUFFICES ASSUME NEW t \in Trigger PROVE SchedulePaid(t)'
  OBVIOUS
<1>6. S!TooSoon(t)' = S!TooSoon(t) /\ SchedulePaid(t) BY <1>1 DEF S!TooSoon
<1>7. ~ScheduleBefore(S!Resting, t) /\ ~ScheduleStamping(sTick[r], t)
  BY <1>1, <1>3 DEF ScheduleBefore, ScheduleStamping
<1>8. ASSUME ScheduleSettled(t), ScheduleCovers(sRoutine.last, t, events) PROVE ScheduleSettled(t)'
  <2>1. ScheduleBusy = {r} BY <1>1, <1>8, ScheduleSettledAlone
  <2>2. ScheduleCovers(sRoutine'.last, t, events') BY <1>1, <1>2, <1>8
  <2>3. QED BY <1>1, <1>3, <2>1, <2>2, ScheduleAloneSettles
<1>9. CASE ScheduleBefore(sTick[r], t)
  <2>1. r \in ScheduleAwaiting(t) /\ ScheduleAwaiting(t)' = ScheduleAwaiting(t) \ {r}
    <3>1. r \in ScheduleAwaiting(t) BY <1>9 DEF ScheduleAwaiting
    <3>2. QED BY <1>1, <1>3, <1>7, <3>1, ScheduleTickGoes
  <2>2. CASE ScheduleFresh(t)
    <3>1. ScheduleSettled(t) => ScheduleSettled(t)' BY <1>1, <1>7, <1>8, <2>2, ScheduleSettledAlone
    <3>2. QED BY <1>6, <2>1, <3>1, ScheduleOneLeaves
  <2>3. CASE ~ScheduleFresh(t)
    BY <1>6, <2>1, <2>3, ScheduleLateOneLeaves
  <2>4. QED BY <2>2, <2>3
<1>10. CASE ~ScheduleBefore(sTick[r], t)
  <2>1. ScheduleAwaiting(t)' = ScheduleAwaiting(t) /\ ScheduleFresh(t)' = ScheduleFresh(t)
    BY <1>1, <1>3, <1>7, <1>10, ScheduleTickStays
  <2>2. ScheduleSettled(t) => ScheduleSettled(t)' BY <1>1, <1>7, <1>8, <1>10, ScheduleSettledAlone
  <2>3. QED BY <1>4, <1>6, <2>1, <2>2, ScheduleNobodyMoves
<1>11. QED BY <1>9, <1>10

LEMMA ScheduleCutPays ==
  ASSUME ScheduleShapeOK, \A t \in Trigger : SchedulePaid(t), NEW r \in Replica, S!Cut(r),
         sSpent'.cut = sSpent.cut + 1, sSpent'.overlap = sSpent.overlap
  PROVE  \A t \in Trigger : SchedulePaid(t)'
<1>1. UNCHANGED events /\ sTick' = [sTick EXCEPT ![r] = S!Resting] BY DEF S!Cut
<1>2. S!Resting \in ScheduleTicks /\ S!Resting.at = "idle" BY DEF S!Resting, ScheduleTicks
<1>3. SUFFICES ASSUME NEW t \in Trigger PROVE SchedulePaid(t)'
  OBVIOUS
<1>4. S!TooSoon(t)' = S!TooSoon(t) /\ SchedulePaid(t) BY <1>1 DEF S!TooSoon
<1>5. ~ScheduleBefore(S!Resting, t) BY <1>2 DEF ScheduleBefore
<1>6. ScheduleAwaiting(t)' = ScheduleAwaiting(t) \ {r} BY <1>1, <1>2, <1>5, ScheduleTickGoes
<1>7. ASSUME r \notin ScheduleAwaiting(t) PROVE ScheduleFresh(t)' = ScheduleFresh(t)
  <2>1. ~ScheduleBefore(sTick[r], t) BY <1>7 DEF ScheduleAwaiting
  <2>2. QED BY <1>1, <1>2, <1>5, <2>1, ScheduleTickStays
<1>8. QED BY <1>4, <1>6, <1>7, ScheduleOneIsCut

\* An event of another trigger, or of none.
LEMMA ScheduleElsewhereAppended ==
  ASSUME ScheduleShapeOK, NEW e \in ScheduleFired, events' = Append(events, e), NEW t, e.trigger # t
  PROVE  /\ \A when : ScheduleCovers(when, t, events') <=> ScheduleCovers(when, t, events)
         /\ S!TooSoon(t)' = S!TooSoon(t)
<1>1. /\ events \in Seq(ScheduleFired) /\ Len(events) \in Nat /\ DOMAIN events = 1..Len(events)
      /\ DOMAIN events' = 1..(Len(events) + 1)
      /\ events'[Len(events) + 1] = e /\ \A i \in 1..Len(events) : events'[i] = events[i]
  BY DEF ScheduleShapeOK
<1>2. \A when : ScheduleCovers(when, t, events') <=> ScheduleCovers(when, t, events)
  BY <1>1 DEF ScheduleCovers
<1>3. S!TooSoon(t)' = S!TooSoon(t) BY <1>1 DEF S!TooSoon
<1>4. QED BY <1>2, <1>3

\* An event of the trigger: too soon itself at most.
LEMMA ScheduleHereAppended ==
  ASSUME ScheduleShapeOK, NEW t \in Trigger, NEW slot \in Nat,
         events' = Append(events, [trigger |-> t, slot |-> slot])
  PROVE  /\ \A when \in Nat : ScheduleCovers(when, t, events) /\ slot <= when => ScheduleCovers(when, t, events')
         /\ S!TooSoon(t)' \in {S!TooSoon(t), S!TooSoon(t) \cup {Len(events) + 1}}
         /\ \/ S!TooSoon(t)' = S!TooSoon(t)
            \/ \E j \in 1..Len(events) :
                 /\ events[j].trigger = t
                 /\ (Every[t] = 0 \/ slot - events[j].slot < Every[t])
<1>1. /\ events \in Seq(ScheduleFired) /\ Len(events) \in Nat /\ DOMAIN events = 1..Len(events)
      /\ DOMAIN events' = 1..(Len(events) + 1)
      /\ events'[Len(events) + 1] = [trigger |-> t, slot |-> slot]
      /\ \A i \in 1..Len(events) : events'[i] = events[i]
  BY DEF ScheduleShapeOK, ScheduleFired
<1>2. \A when \in Nat : ScheduleCovers(when, t, events) /\ slot <= when => ScheduleCovers(when, t, events')
  BY <1>1 DEF ScheduleCovers
<1> DEFINE Early == \E j \in 1..Len(events) : /\ events[j].trigger = t
                                              /\ (Every[t] = 0 \/ slot - events[j].slot < Every[t])
<1>3. \A i \in 1..Len(events) : i \in S!TooSoon(t)' <=> i \in S!TooSoon(t)
  BY <1>1 DEF S!TooSoon
<1>4. Len(events) + 1 \in S!TooSoon(t)' <=> Early
  BY <1>1 DEF S!TooSoon
<1>5. S!TooSoon(t) \subseteq 1..Len(events) /\ S!TooSoon(t)' \subseteq 1..(Len(events) + 1)
  BY <1>1 DEF S!TooSoon
<1>6. CASE Early
  <2>1. S!TooSoon(t)' = S!TooSoon(t) \cup {Len(events) + 1} BY <1>1, <1>3, <1>4, <1>5, <1>6
  <2>2. QED BY <1>2, <1>6, <2>1
<1>7. CASE ~Early
  <2>1. S!TooSoon(t)' = S!TooSoon(t)
    <3>1. \A i : i \in S!TooSoon(t)' => i \in S!TooSoon(t) BY <1>1, <1>3, <1>4, <1>5, <1>7
    <3>2. \A i : i \in S!TooSoon(t) => i \in S!TooSoon(t)' BY <1>1, <1>3, <1>5
    <3>3. QED BY <3>1, <3>2
  <2>2. QED BY <1>2, <2>1
<1>8. QED BY <1>6, <1>7

LEMMA ScheduleInsertPays ==
  ASSUME ScheduleShapeOK, ScheduleStepsOK, \A t \in Trigger : SchedulePaid(t), NEW r \in Replica, S!Insert(r)
  PROVE  \A t \in Trigger : SchedulePaid(t)'
<1> DEFINE c == S!Current(r)
           k == [sTick[r] EXCEPT !.at = "stamp"]
<1>1. /\ sTick[r].at = "insert" /\ UNCHANGED <<sRoutine, minute, sSpent>> /\ sTick' = [sTick EXCEPT ![r] = k]
      /\ events' = Append(events, [trigger |-> c, slot |-> sTick[r].now])
  BY DEF S!Insert
<1>2. sTick[r] \in ScheduleTicks /\ ScheduleTickOK(sTick[r]) /\ sSpent \in ScheduleCounters
  BY DEF ScheduleShapeOK, ScheduleStepsOK
<1>3. sSpent.cut \in Nat /\ sSpent.overlap \in Nat BY <1>2 DEF ScheduleCounters
<1>4. c = ScheduleFirst(sTick[r].left) /\ c \in Trigger /\ c \in sTick[r].left
  BY <1>1, <1>2, ScheduleRestOnly
<1>5. /\ k \in ScheduleTicks /\ k.at = "stamp" /\ k.left = sTick[r].left /\ k.now = sTick[r].now /\ k.last = sTick[r].last
  BY <1>2 DEF ScheduleTicks
<1> HIDE DEF c, k
<1>6. sTick[r].now \in Nat BY <1>2 DEF ScheduleTicks
<1>7. SUFFICES ASSUME NEW t \in Trigger PROVE SchedulePaid(t)'
  OBVIOUS
<1>8. SchedulePaid(t) /\ ~ScheduleStamping(sTick[r], t) BY <1>1 DEF ScheduleStamping
<1>9. CASE t # c
  <2>1. [trigger |-> c, slot |-> sTick[r].now] \in ScheduleFired BY <1>4, <1>6 DEF ScheduleFired
  <2>2. (\A when : ScheduleCovers(when, t, events') <=> ScheduleCovers(when, t, events)) /\ S!TooSoon(t)' = S!TooSoon(t)
    BY <1>1, <1>9, <2>1, ScheduleElsewhereAppended
  <2>3. ScheduleBefore(k, t) <=> ScheduleBefore(sTick[r], t)
    BY <1>1, <1>4, <1>5, <1>9 DEF ScheduleBefore, ScheduleStamping
  <2>4. ScheduleAwaiting(t)' = ScheduleAwaiting(t) /\ ScheduleFresh(t)' = ScheduleFresh(t)
    BY <1>1, <1>5, <2>2, <2>3, ScheduleTickStays
  <2>5. ASSUME ScheduleSettled(t) PROVE ScheduleSettled(t)'
    <3>1. /\ ScheduleBusy = {r} /\ ScheduleCovers(sTick[r].now, t, events)
          /\ ScheduleCovers(sRoutine.last, t, events) \/ (ScheduleBefore(sTick[r], t) /\ ~ScheduleFresh(t))
      BY <1>1, <1>8, <2>5, ScheduleSettledAlone
    <3>2. /\ ScheduleCovers(k.now, t, events')
          /\ ScheduleCovers(sRoutine'.last, t, events') \/ (ScheduleBefore(k, t) /\ ~ScheduleFresh(t)')
      BY <1>1, <1>5, <2>2, <2>3, <2>4, <3>1
    <3>3. QED BY <1>1, <1>5, <3>1, <3>2, ScheduleAloneSettles
  <2>6. QED BY <1>1, <1>3, <1>8, <2>2, <2>4, <2>5, ScheduleNobodyMoves
<1>10. CASE t = c
  <2>1. ScheduleBefore(sTick[r], t) /\ ~ScheduleBefore(k, t) /\ ScheduleStamping(k, t)
    BY <1>1, <1>4, <1>5, <1>10 DEF ScheduleBefore, ScheduleStamping
  <2>2. r \in ScheduleAwaiting(t) /\ ScheduleAwaiting(t)' = ScheduleAwaiting(t) \ {r}
    <3>1. r \in ScheduleAwaiting(t) BY <2>1 DEF ScheduleAwaiting
    <3>2. QED BY <1>1, <1>5, <2>1, <3>1, ScheduleTickGoes
  <2>3. /\ ScheduleCovers(sTick[r].now, t, events) => ScheduleCovers(sTick[r].now, t, events')
        /\ S!TooSoon(t)' \in {S!TooSoon(t), S!TooSoon(t) \cup {Len(events) + 1}}
        /\ \/ S!TooSoon(t)' = S!TooSoon(t)
           \/ \E j \in 1..Len(events) :
                /\ events[j].trigger = t
                /\ (Every[t] = 0 \/ sTick[r].now - events[j].slot < Every[t])
    <3>1. events' = Append(events, [trigger |-> t, slot |-> sTick[r].now]) BY <1>1, <1>10
    <3>2. QED BY <1>6, <3>1, ScheduleHereAppended
  <2>4. ScheduleSettled(t) => ScheduleSettled(t)'
    <3>1. ASSUME ScheduleSettled(t) PROVE ScheduleBusy = {r} /\ ScheduleCovers(k.now, t, events')
      BY <1>1, <1>5, <2>3, <3>1, ScheduleSettledAlone
    <3>2. QED BY <1>1, <1>5, <2>1, <3>1, ScheduleAloneSettles
  <2>5. ASSUME ScheduleFresh(t) PROVE S!TooSoon(t)' = S!TooSoon(t)
    <3>1. ScheduleCovers(sTick[r].last, t, events) BY <2>2, <2>5 DEF ScheduleFresh, ScheduleUntil
    <3>2. S!Due(t, sTick[r].last, sTick[r].now) BY <1>1, <1>2, <1>4, <1>10 DEF ScheduleTickOK
    <3>3. SUFFICES ASSUME NEW j \in 1..Len(events), events[j].trigger = t,
                          Every[t] = 0 \/ sTick[r].now - events[j].slot < Every[t]
                   PROVE  FALSE
      BY <2>3
    <3>4. events[j].slot \in Nat /\ events[j].slot >= 1 /\ events[j].slot <= sTick[r].last
      <4>1. j \in DOMAIN events /\ minute \in Nat /\ events[j].slot \in 1..minute
        BY DEF ScheduleShapeOK
      <4>2. QED BY <3>1, <3>3, <4>1 DEF ScheduleCovers
    <3>5. sTick[r].last \in Nat BY <1>2 DEF ScheduleTicks
    <3>6. Every[t] \in Nat BY TriggersAreNumbers
    <3>7. Every[t] # 0 /\ sTick[r].now - sTick[r].last >= Every[t]
      BY <3>2, <3>4, <3>5, <3>6 DEF S!Due
    <3>8. sTick[r].now - events[j].slot < Every[t] BY <3>3, <3>7
    <3>9. \A m, last, slot, every \in Nat : m - last >= every /\ slot <= last => ~(m - slot < every)
      OBVIOUS
    <3>10. QED BY <1>6, <3>4, <3>5, <3>6, <3>7, <3>8, <3>9
  <2>6. \/ S!TooSoon(t)' = S!TooSoon(t)
        \/ ~ScheduleFresh(t) /\ \E i : S!TooSoon(t)' = S!TooSoon(t) \cup {i}
    BY <2>3, <2>5
  <2>7. QED BY <1>1, <1>8, <2>2, <2>4, <2>6, ScheduleOneLeaves
<1>11. QED BY <1>9, <1>10

LEMMA ScheduleBeginPays ==
  ASSUME ScheduleShapeOK, \A t \in Trigger : SchedulePaid(t), NEW r \in Replica, S!Begin(r),
         sSpent'.cut = sSpent.cut, sSpent'.overlap = sSpent.overlap + Cardinality(ScheduleBusy)
  PROVE  \A t \in Trigger : SchedulePaid(t)'
<1> DEFINE k == [at |-> "look", last |-> sRoutine.last, left |-> sRoutine.armed, now |-> minute]
<1>1. sTick[r].at = "idle" /\ UNCHANGED <<sRoutine, events, minute>> /\ sTick' = [sTick EXCEPT ![r] = k]
  BY DEF S!Begin
<1>2. /\ k \in ScheduleTicks /\ k.at = "look" /\ k.last = sRoutine.last /\ k.now = minute
      /\ sRoutine.last \in Nat /\ sRoutine.last <= minute /\ minute \in Nat
  BY DEF ScheduleShapeOK, ScheduleTicks
<1>3. SUFFICES ASSUME NEW t \in Trigger PROVE SchedulePaid(t)'
  OBVIOUS
<1>4. ~ScheduleStamping(k, t) BY DEF ScheduleStamping
<1> HIDE DEF k
<1>5. S!TooSoon(t)' = S!TooSoon(t) /\ SchedulePaid(t) BY <1>1 DEF S!TooSoon
<1>6. ScheduleCovers(minute, t, events) BY <1>1 DEF ScheduleShapeOK, ScheduleCovers
<1>7. r \notin ScheduleBusy /\ r \notin ScheduleAwaiting(t)
  BY <1>1 DEF ScheduleBusy, ScheduleAwaiting, ScheduleBefore
<1>8. sTick'[r] = k /\ \A q \in Replica \ {r} : sTick'[q] = sTick[q] BY <1>1, <1>2, ScheduleTickGoes
<1>9. ScheduleAwaiting(t)' = IF ScheduleBefore(k, t) THEN ScheduleAwaiting(t) \cup {r} ELSE ScheduleAwaiting(t)
  <2>1. ScheduleAwaiting(t)' = IF ScheduleBefore(k, t) THEN ScheduleAwaiting(t) \cup {r} ELSE ScheduleAwaiting(t) \ {r}
    BY <1>1, <1>2, ScheduleTickGoes
  <2>2. QED BY <1>7, <2>1
<1>10. ScheduleFresh(t)' <=> ScheduleAwaiting(t)' # {} /\ \A q \in ScheduleAwaiting(t)' : ScheduleCovers(sTick'[q].last, t, events)
  BY <1>1 DEF ScheduleFresh, ScheduleUntil
<1>11. CASE ScheduleBusy = {}
  <2>1. ScheduleAwaiting(t) = {} /\ sSpent'.overlap = sSpent.overlap
    BY <1>11, ScheduleAwaitingAreBusy, FS_EmptySet DEF ScheduleShapeOK, ScheduleCounters
  <2>2. ScheduleSettled(t) => ScheduleCovers(sRoutine.last, t, events)
    BY <1>11 DEF ScheduleSettled, ScheduleUntil
  <2>3. CASE ScheduleBefore(k, t)
    <3>1. ScheduleAwaiting(t)' = {r} BY <1>9, <2>1, <2>3
    <3>2. ScheduleFresh(t)' <=> ScheduleCovers(sRoutine.last, t, events) BY <1>2, <1>8, <1>10, <3>1
    <3>3. ScheduleCovers(k.now, t, events') /\ (ScheduleCovers(sRoutine'.last, t, events') \/ ~ScheduleFresh(t)')
      BY <1>1, <1>2, <1>6, <3>2
    <3>4. ScheduleSettled(t)' BY <1>1, <1>2, <1>11, <2>3, <3>3, ScheduleAloneSettles
    <3>5. QED BY <1>5, <2>1, <2>2, <3>1, <3>2, <3>4, ScheduleOneComesAlone
  <2>4. CASE ~ScheduleBefore(k, t)
    <3>1. ScheduleAwaiting(t)' = {} BY <1>9, <2>1, <2>4
    <3>2. ASSUME ScheduleSettled(t) PROVE ScheduleSettled(t)'
      <4>1. ScheduleCovers(k.now, t, events') /\ ScheduleCovers(sRoutine'.last, t, events')
        BY <1>1, <1>2, <1>6, <2>2, <3>2
      <4>2. QED BY <1>1, <1>2, <1>11, <4>1, ScheduleAloneSettles
    <3>3. QED BY <1>5, <2>1, <3>1, <3>2, ScheduleOneComesAlone
  <2>5. QED BY <2>3, <2>4
<1>12. CASE ScheduleBusy # {}
  <2>1. Cardinality(ScheduleBusy) \in Nat \ {0} BY <1>12, ScheduleCounted, FS_EmptySet
  <2>2. ASSUME ScheduleFresh(t), ScheduleSettled(t) PROVE ScheduleFresh(t)'
    <3>1. PICK q \in ScheduleAwaiting(t) : TRUE BY <2>2 DEF ScheduleFresh
    <3>2. q \in Replica /\ ScheduleBefore(sTick[q], t) /\ sTick[q].at # "idle" /\ ~ScheduleStamping(sTick[q], t)
      BY <3>1 DEF ScheduleAwaiting, ScheduleBefore
    <3>3. ScheduleCovers(sRoutine.last, t, events) BY <2>2, <3>2, ScheduleSettledAlone
    <3>4. \A p \in ScheduleAwaiting(t) : ScheduleCovers(sTick[p].last, t, events) /\ p \in Replica \ {r}
      BY <1>7, <2>2 DEF ScheduleFresh, ScheduleUntil, ScheduleAwaiting
    <3>5. \A p \in ScheduleAwaiting(t) : ScheduleCovers(sTick'[p].last, t, events) BY <1>8, <3>4
    <3>6. ScheduleCovers(sTick'[r].last, t, events) BY <1>2, <1>8, <3>3
    <3>7. QED BY <1>9, <1>10, <3>1, <3>5, <3>6
  <2>3. ScheduleAwaiting(t)' \in {ScheduleAwaiting(t), ScheduleAwaiting(t) \cup {r}} BY <1>9
  <2>4. QED BY <1>5, <2>1, <2>2, <2>3, ScheduleOneComesBeside
<1>13. QED BY <1>11, <1>12

\* What leaves the ticks alone.
LEMMA ScheduleOthersPay ==
  ASSUME ScheduleShapeOK, \A t \in Trigger : SchedulePaid(t), UNCHANGED sTick,
         \/ UNCHANGED events /\ sRoutine'.last = sRoutine.last
         \/ S!Fire,
         sSpent'.cut = sSpent.cut, sSpent'.overlap = sSpent.overlap
  PROVE  \A t \in Trigger : SchedulePaid(t)'
<1>1. SUFFICES ASSUME NEW t \in Trigger PROVE SchedulePaid(t)'
  OBVIOUS
<1>2. /\ \A when : ScheduleCovers(when, t, events') <=> ScheduleCovers(when, t, events)
      /\ S!TooSoon(t)' = S!TooSoon(t)
      /\ ScheduleCovers(sRoutine.last, t, events) => ScheduleCovers(sRoutine'.last, t, events')
  <2>1. CASE UNCHANGED events /\ sRoutine'.last = sRoutine.last BY <2>1 DEF S!TooSoon
  <2>2. CASE S!Fire
    <3>1. events' = Append(events, [trigger |-> 0, slot |-> minute]) BY <2>2 DEF S!Fire
    <3>2. sRoutine'.last = minute BY <2>2 DEF S!Fire, ScheduleShapeOK
    <3>3. [trigger |-> 0, slot |-> minute] \in ScheduleFired BY DEF ScheduleFired, ScheduleShapeOK
    <3>4. t # 0 BY TriggersAreNumbers
    <3>5. /\ \A when : ScheduleCovers(when, t, events') <=> ScheduleCovers(when, t, events)
          /\ S!TooSoon(t)' = S!TooSoon(t)
      BY <3>1, <3>3, <3>4, ScheduleElsewhereAppended
    <3>6. ScheduleCovers(minute, t, events) BY DEF ScheduleShapeOK, ScheduleCovers
    <3>7. QED BY <3>2, <3>5, <3>6
  <2>3. QED BY <2>1, <2>2
<1>3. ScheduleAwaiting(t)' = ScheduleAwaiting(t) /\ ScheduleBusy' = ScheduleBusy
  BY DEF ScheduleAwaiting, ScheduleBefore, ScheduleStamping, ScheduleBusy
<1>4. ScheduleFresh(t)' = ScheduleFresh(t)
  <2>1. ScheduleFresh(t)' <=> ScheduleAwaiting(t)' # {} /\ \A q \in ScheduleAwaiting(t)' : ScheduleCovers(sTick[q].last, t, events')
    BY DEF ScheduleFresh, ScheduleUntil
  <2>2. ScheduleFresh(t) <=> ScheduleAwaiting(t) # {} /\ \A q \in ScheduleAwaiting(t) : ScheduleCovers(sTick[q].last, t, events)
    BY DEF ScheduleFresh, ScheduleUntil
  <2>3. ScheduleFresh(t)' <=> ScheduleFresh(t) BY <1>2, <1>3, <2>1, <2>2
  <2>4. ScheduleFresh(t) \in BOOLEAN /\ ScheduleFresh(t)' \in BOOLEAN BY DEF ScheduleFresh
  <2>5. QED BY <2>3, <2>4
<1>5. ASSUME ScheduleSettled(t) PROVE ScheduleSettled(t)'
  <2>1. CASE ScheduleBusy = {}
    <3>1. ScheduleCovers(sRoutine.last, t, events) BY <1>5, <2>1 DEF ScheduleSettled, ScheduleUntil
    <3>2. QED BY <1>2, <1>3, <2>1, <3>1 DEF ScheduleSettled, ScheduleUntil
  <2>2. CASE ScheduleBusy # {}
    <3>1. PICK r \in Replica : ScheduleBusy = {r} BY <1>5, <2>2 DEF ScheduleSettled
    <3>2. sTick[r].at # "idle" BY <3>1 DEF ScheduleBusy
    <3>3. /\ ScheduleCovers(sTick[r].now, t, events)
          /\ \/ ScheduleCovers(sRoutine.last, t, events)
             \/ ScheduleStamping(sTick[r], t)
             \/ ScheduleBefore(sTick[r], t) /\ ~ScheduleFresh(t)
      BY <1>5, <3>2, ScheduleSettledAlone
    <3>4. ScheduleCloses(t, sTick[r])'
      <4>1. ScheduleCovers(sTick'[r].now, t, events') BY <1>2, <3>3
      <4>2. \/ ScheduleCovers(sRoutine'.last, t, events')
            \/ ScheduleStamping(sTick'[r], t)
            \/ ScheduleBefore(sTick'[r], t) /\ ~ScheduleFresh(t)'
        BY <1>2, <1>4, <3>3
      <4>3. QED BY <4>1, <4>2 DEF ScheduleCloses, ScheduleUntil, ScheduleStamping, ScheduleBefore
    <3>5. QED BY <1>3, <3>1, <3>4 DEF ScheduleSettled
  <2>3. QED BY <2>1, <2>2
<1>6. sSpent.cut \in Nat /\ sSpent.overlap \in Nat BY DEF ScheduleShapeOK, ScheduleCounters
<1>7. QED BY <1>2, <1>3, <1>4, <1>5, <1>6, ScheduleNobodyMoves
-----------------------------------------------------------------------------
(* The shapes, and the steps together *)

\* What the steps spend.
LEMMA ScheduleSpentBy ==
  ASSUME ScheduleShapeOK, NEW r \in Replica
  PROVE  /\ S!Begin(r) => /\ sSpent' \in ScheduleCounters /\ sSpent'.cut = sSpent.cut
                        /\ sSpent'.overlap = sSpent.overlap + Cardinality(ScheduleBusy)
         /\ S!Cut(r) => /\ sSpent' \in ScheduleCounters /\ sSpent'.cut = sSpent.cut + 1
                      /\ sSpent'.overlap = sSpent.overlap
         /\ S!Raise(r) \/ S!Toggle => /\ sSpent' \in ScheduleCounters /\ sSpent'.cut = sSpent.cut
                                  /\ sSpent'.overlap = sSpent.overlap
<1>1. sSpent \in ScheduleCounters BY DEF ScheduleShapeOK
<1>2. ASSUME S!Begin(r)
      PROVE  /\ sSpent' \in ScheduleCounters /\ sSpent'.cut = sSpent.cut
             /\ sSpent'.overlap = sSpent.overlap + Cardinality(ScheduleBusy)
  <2> DEFINE k == Cardinality(ScheduleBusy)
  <2>1. {q \in Replica \ {r} : sTick[q].at # "idle"} = ScheduleBusy
    BY <1>2 DEF S!Begin, ScheduleBusy
  <2>2. sSpent' = [sSpent EXCEPT !["overlap"] = sSpent["overlap"] + k]
    BY <1>2, <2>1, SameSize DEF S!Begin, S!Spend
  <2>3. k \in Nat BY ScheduleCounted
  <2> HIDE DEF k
  <2>4. sSpent' \in ScheduleCounters /\ sSpent'.cut = sSpent.cut /\ sSpent'.overlap = sSpent.overlap + k
    BY <1>1, <2>2, <2>3 DEF ScheduleCounters
  <2>5. QED BY <2>4 DEF k
<1>3. ASSUME S!Cut(r)
      PROVE  sSpent' \in ScheduleCounters /\ sSpent'.cut = sSpent.cut + 1 /\ sSpent'.overlap = sSpent.overlap
  <2>1. sSpent' = [sSpent EXCEPT !["cut"] = sSpent["cut"] + 1] BY <1>3 DEF S!Cut, S!Spend
  <2>2. QED BY <1>1, <2>1 DEF ScheduleCounters
<1>4. ASSUME S!Raise(r)
      PROVE  sSpent' \in ScheduleCounters /\ sSpent'.cut = sSpent.cut /\ sSpent'.overlap = sSpent.overlap
  <2>1. sSpent' = [sSpent EXCEPT !["broken"] = sSpent["broken"] + 1] BY <1>4 DEF S!Raise, S!Spend
  <2>2. QED BY <1>1, <2>1 DEF ScheduleCounters
<1>5. ASSUME S!Toggle
      PROVE  sSpent' \in ScheduleCounters /\ sSpent'.cut = sSpent.cut /\ sSpent'.overlap = sSpent.overlap
  <2>1. sSpent' = [sSpent EXCEPT !["toggle"] = sSpent["toggle"] + 1] BY <1>5 DEF S!Toggle, S!Spend
  <2>2. QED BY <1>1, <2>1 DEF ScheduleCounters
<1>6. QED BY <1>2, <1>3, <1>4, <1>5

ScheduleRoutineOK(f) ==
  /\ f.last \in Nat /\ f.armed \subseteq Trigger
  /\ f = [f EXCEPT !.last = f.last]
  /\ DOMAIN f = {"status", "failures", "last", "armed"}

\* The routine is stamped with a time that was.
LEMMA ScheduleRoutineStays ==
  ASSUME ScheduleShapeOK, ScheduleStepsOK, [S!Next]_S!svars
  PROVE  ScheduleRoutineOK(sRoutine') /\ sRoutine'.last <= minute
<1>1. ScheduleRoutineOK(sRoutine) /\ sRoutine.last <= minute /\ minute \in Nat
  BY DEF ScheduleShapeOK, ScheduleRoutineOK
<1>2. CASE UNCHANGED sRoutine BY <1>1, <1>2
<1>3. ASSUME NEW r \in Replica, S!Stamp(r) PROVE ScheduleRoutineOK(sRoutine') /\ sRoutine'.last <= minute
  <2>1. sTick[r].at = "stamp" /\ ScheduleTickOK(sTick[r]) BY <1>3 DEF S!Stamp, ScheduleStepsOK
  <2>2. sTick[r].now \in 1..minute BY <2>1 DEF ScheduleTickOK
  <2> DEFINE armed == IF Every[S!Current(r)] = 0 THEN sRoutine.armed \ {S!Current(r)} ELSE sRoutine.armed
             m == sTick[r].now
  <2>3. sRoutine' = [sRoutine EXCEPT !.last = m, !.armed = armed] BY <1>3 DEF S!Stamp
  <2>4. armed \subseteq Trigger /\ m \in Nat /\ m <= minute BY <1>1, <2>2 DEF ScheduleRoutineOK
  <2> HIDE DEF armed, m
  <2>5. QED BY <1>1, <2>3, <2>4 DEF ScheduleRoutineOK
<1>4. ASSUME NEW r \in Replica, S!Raise(r) PROVE ScheduleRoutineOK(sRoutine') /\ sRoutine'.last <= minute
  <2> DEFINE f == sRoutine.failures + 1
             s == IF f >= QuarantineAfter THEN "error" ELSE sRoutine.status
  <2>1. sRoutine' = [sRoutine EXCEPT !.failures = f, !.status = s] BY <1>4 DEF S!Raise
  <2> HIDE DEF f, s
  <2>2. QED BY <1>1, <2>1 DEF ScheduleRoutineOK
<1>5. CASE S!Fire
  <2> DEFINE m == minute
  <2>1. sRoutine' = [sRoutine EXCEPT !.last = m] /\ m \in Nat /\ m <= minute
    BY <1>1, <1>5 DEF S!Fire
  <2> HIDE DEF m
  <2>2. sRoutine'.last = m /\ sRoutine'.armed = sRoutine.armed BY <1>1, <2>1 DEF ScheduleRoutineOK
  <2>3. DOMAIN sRoutine' = DOMAIN sRoutine /\ sRoutine' = [sRoutine' EXCEPT !.last = sRoutine'.last]
    BY <1>1, <2>1 DEF ScheduleRoutineOK
  <2>4. QED BY <1>1, <2>1, <2>2, <2>3 DEF ScheduleRoutineOK
<1>6. CASE S!Toggle
  <2>1. \/ sRoutine' = [sRoutine EXCEPT !.status = "paused"]
        \/ sRoutine' = [sRoutine EXCEPT !.status = "active", !.failures = 0] BY <1>6 DEF S!Toggle
  <2>2. QED BY <1>1, <2>1 DEF ScheduleRoutineOK
<1>7. ASSUME NEW r \in Replica, S!Begin(r) \/ S!Look(r) \/ S!Insert(r) \/ S!Cut(r) PROVE UNCHANGED sRoutine
  BY <1>7 DEF S!Begin, S!Look, S!Insert, S!Cut
<1>8. CASE S!NextMinute BY <1>2, <1>8 DEF S!NextMinute
<1>9. CASE UNCHANGED S!svars BY <1>2, <1>9 DEF S!svars
<1>10. QED BY <1>2, <1>3, <1>4, <1>5, <1>6, <1>7, <1>8, <1>9 DEF S!Next

LEMMA ScheduleEventsStay ==
  ASSUME ScheduleShapeOK, ScheduleStepsOK, [S!Next]_S!svars
  PROVE  events' \in Seq(ScheduleFired) /\ \A i \in DOMAIN events' : events'[i].slot \in 1..minute
<1>1. /\ events \in Seq(ScheduleFired) /\ \A i \in DOMAIN events : events[i].slot \in 1..minute
      /\ minute \in Nat \ {0}
  BY DEF ScheduleShapeOK
<1>2. ASSUME NEW e \in ScheduleFired, e.slot \in 1..minute, events' = Append(events, e)
      PROVE  events' \in Seq(ScheduleFired) /\ \A i \in DOMAIN events' : events'[i].slot \in 1..minute
  <2>1. /\ events' \in Seq(ScheduleFired) /\ DOMAIN events' = 1..(Len(events) + 1) /\ DOMAIN events = 1..Len(events)
        /\ events'[Len(events) + 1] = e /\ \A i \in 1..Len(events) : events'[i] = events[i]
        /\ Len(events) \in Nat
    BY <1>1, <1>2
  <2>2. QED BY <1>1, <1>2, <2>1
<1>3. ASSUME NEW r \in Replica, S!Insert(r)
      PROVE  events' \in Seq(ScheduleFired) /\ \A i \in DOMAIN events' : events'[i].slot \in 1..minute
  <2>1. sTick[r].at = "insert" /\ ScheduleTickOK(sTick[r]) BY <1>3 DEF S!Insert, ScheduleStepsOK
  <2>2. sTick[r].now \in 1..minute /\ S!Current(r) \in Trigger
    BY <2>1, ScheduleRestOnly DEF ScheduleTickOK
  <2> DEFINE e == [trigger |-> S!Current(r), slot |-> sTick[r].now]
  <2>3. e \in ScheduleFired /\ e.slot \in 1..minute BY <1>1, <2>2 DEF ScheduleFired
  <2>4. events' = Append(events, e) BY <1>3 DEF S!Insert
  <2> HIDE DEF e
  <2>5. QED BY <1>2, <2>3, <2>4
<1>4. CASE S!Fire
  <2> DEFINE e == [trigger |-> 0, slot |-> minute]
  <2>1. e \in ScheduleFired /\ e.slot \in 1..minute BY <1>1 DEF ScheduleFired
  <2>2. events' = Append(events, e) BY <1>4 DEF S!Fire
  <2> HIDE DEF e
  <2>3. QED BY <1>2, <2>1, <2>2
<1>5. CASE UNCHANGED events BY <1>1, <1>5
<1>6. ASSUME NEW r \in Replica, S!Begin(r) \/ S!Look(r) \/ S!Stamp(r) \/ S!Raise(r) \/ S!Cut(r) PROVE UNCHANGED events
  BY <1>6 DEF S!Begin, S!Look, S!Stamp, S!Raise, S!Cut
<1>7. CASE S!Toggle \/ S!NextMinute \/ UNCHANGED S!svars
  BY <1>5, <1>7 DEF S!Toggle, S!NextMinute, S!svars
<1>8. QED BY <1>3, <1>4, <1>5, <1>6, <1>7 DEF S!Next

\* Each tick's own step leaves it in shape, and nobody touches another's.
LEMMA ScheduleTicksStay ==
  ASSUME ScheduleShapeOK, ScheduleStepsOK, [S!Next]_S!svars
  PROVE  sTick' \in [Replica -> ScheduleTicks] /\ \A r \in Replica : ScheduleTickOK(sTick'[r])
<1>1. sTick \in [Replica -> ScheduleTicks] /\ minute \in Nat \ {0} /\ sRoutine.last \in Nat /\ sRoutine.last <= minute
  BY DEF ScheduleShapeOK
<1>2. ASSUME NEW r \in Replica, NEW k \in ScheduleTicks, ScheduleTickOK(k), sTick' = [sTick EXCEPT ![r] = k]
      PROVE  sTick' \in [Replica -> ScheduleTicks] /\ \A q \in Replica : ScheduleTickOK(sTick'[q])
  <2>1. sTick' \in [Replica -> ScheduleTicks] /\ \A q \in Replica : sTick'[q] = IF q = r THEN k ELSE sTick[q]
    BY <1>1, <1>2
  <2>2. QED BY <1>2, <2>1 DEF ScheduleStepsOK
<1>3. CASE UNCHANGED sTick BY <1>1, <1>3 DEF ScheduleStepsOK
<1>4. ASSUME NEW r \in Replica, S!Begin(r) PROVE sTick' \in [Replica -> ScheduleTicks] /\ \A q \in Replica : ScheduleTickOK(sTick'[q])
  <2> DEFINE k == [at |-> "look", last |-> sRoutine.last, left |-> sRoutine.armed, now |-> minute]
  <2>1. sTick' = [sTick EXCEPT ![r] = k] /\ sRoutine.armed # {} /\ sRoutine.armed \subseteq Trigger
    BY <1>4 DEF S!Begin, ScheduleShapeOK
  <2>2. k \in ScheduleTicks /\ ScheduleTickOK(k) BY <1>1, <2>1 DEF ScheduleTicks, ScheduleTickOK
  <2> HIDE DEF k
  <2>3. QED BY <1>2, <2>1, <2>2
<1>5. ASSUME NEW r \in Replica, S!Look(r) PROVE sTick' \in [Replica -> ScheduleTicks] /\ \A q \in Replica : ScheduleTickOK(sTick'[q])
  <2>1. sTick[r].at = "look" /\ sTick[r] \in ScheduleTicks /\ ScheduleTickOK(sTick[r])
    BY <1>1, <1>5 DEF S!Look, ScheduleStepsOK
  <2>2. CASE sTick' = [sTick EXCEPT ![r] = S!Rest(r)] BY <1>2, <2>1, <2>2, ScheduleRestOnly
  <2>3. CASE sTick' # [sTick EXCEPT ![r] = S!Rest(r)]
    <3> DEFINE k == [sTick[r] EXCEPT !.at = "insert"]
    <3>1. sTick' = [sTick EXCEPT ![r] = k] /\ S!Due(S!Current(r), sTick[r].last, sTick[r].now)
      BY <1>5, <2>3 DEF S!Look
    <3>2. k \in ScheduleTicks /\ k.left = sTick[r].left /\ k.last = sTick[r].last /\ k.now = sTick[r].now
      BY <2>1 DEF ScheduleTicks
    <3> HIDE DEF k
    <3>3. S!Current(r) = ScheduleFirst(sTick[r].left) BY <2>1, ScheduleRestOnly
    <3>4. S!Due(ScheduleFirst(k.left), k.last, k.now) BY <3>1, <3>2, <3>3
    <3>5. sTick[r].left # {} /\ sTick[r].now \in 1..minute /\ sTick[r].last <= sTick[r].now
      BY <2>1 DEF ScheduleTickOK
    <3>6. ScheduleTickOK(k) BY <3>2, <3>4, <3>5 DEF ScheduleTickOK
    <3>7. QED BY <1>2, <3>1, <3>2, <3>6
  <2>4. QED BY <2>2, <2>3
<1>6. ASSUME NEW r \in Replica, S!Insert(r) PROVE sTick' \in [Replica -> ScheduleTicks] /\ \A q \in Replica : ScheduleTickOK(sTick'[q])
  <2> DEFINE k == [sTick[r] EXCEPT !.at = "stamp"]
  <2>1. sTick[r].at = "insert" /\ sTick[r] \in ScheduleTicks /\ ScheduleTickOK(sTick[r]) /\ sTick' = [sTick EXCEPT ![r] = k]
    BY <1>1, <1>6 DEF S!Insert, ScheduleStepsOK
  <2>2. /\ k \in ScheduleTicks /\ k.at = "stamp" /\ k.left = sTick[r].left /\ k.last = sTick[r].last /\ k.now = sTick[r].now
    BY <2>1 DEF ScheduleTicks
  <2> HIDE DEF k
  <2>3. ScheduleTickOK(k) BY <2>1, <2>2 DEF ScheduleTickOK
  <2>4. QED BY <1>2, <2>1, <2>2, <2>3
<1>7. ASSUME NEW r \in Replica, S!Stamp(r) PROVE sTick' \in [Replica -> ScheduleTicks] /\ \A q \in Replica : ScheduleTickOK(sTick'[q])
  <2>1. sTick[r].at = "stamp" /\ ScheduleTickOK(sTick[r]) /\ sTick' = [sTick EXCEPT ![r] = S!Rest(r)]
    BY <1>7 DEF S!Stamp, ScheduleStepsOK
  <2>2. QED BY <1>2, <2>1, ScheduleRestOnly
<1>8. ASSUME NEW r \in Replica, S!Raise(r) \/ S!Cut(r)
      PROVE  sTick' \in [Replica -> ScheduleTicks] /\ \A q \in Replica : ScheduleTickOK(sTick'[q])
  <2>1. sTick' = [sTick EXCEPT ![r] = S!Resting] BY <1>8 DEF S!Raise, S!Cut
  <2>2. S!Resting \in ScheduleTicks /\ ScheduleTickOK(S!Resting)
    BY DEF S!Resting, ScheduleTicks, ScheduleTickOK
  <2>3. QED BY <1>2, <2>1, <2>2
<1>9. CASE S!Fire \/ S!Toggle \/ S!NextMinute \/ UNCHANGED S!svars
  BY <1>3, <1>9 DEF S!Fire, S!Toggle, S!NextMinute, S!svars
<1>10. QED BY <1>3, <1>4, <1>5, <1>6, <1>7, <1>8, <1>9 DEF S!Next

LEMMA ScheduleShapeStep == ScheduleShapeOK /\ ScheduleStepsOK /\ [S!Next]_S!svars => ScheduleShapeOK' /\ ScheduleStepsOK'
<1> SUFFICES ASSUME ScheduleShapeOK, ScheduleStepsOK, [S!Next]_S!svars PROVE ScheduleShapeOK' /\ ScheduleStepsOK'
  OBVIOUS
<1>1. minute \in Nat \ {0} /\ sSpent \in ScheduleCounters BY DEF ScheduleShapeOK
<1>2. minute' \in {minute, minute + 1}
  <2>1. CASE S!NextMinute BY <2>1 DEF S!NextMinute
  <2>2. CASE UNCHANGED minute BY <2>2
  <2>3. ASSUME NEW r \in Replica, S!Begin(r) \/ S!Look(r) \/ S!Insert(r) \/ S!Stamp(r) \/ S!Raise(r) \/ S!Cut(r)
        PROVE  UNCHANGED minute
    BY <2>3 DEF S!Begin, S!Look, S!Insert, S!Stamp, S!Raise, S!Cut
  <2>4. CASE S!Fire \/ S!Toggle \/ UNCHANGED S!svars BY <2>2, <2>4 DEF S!Fire, S!Toggle, S!svars
  <2>5. QED BY <2>1, <2>2, <2>3, <2>4 DEF S!Next
<1>3. sSpent' \in ScheduleCounters
  <2>1. CASE UNCHANGED sSpent BY <1>1, <2>1
  <2>2. ASSUME NEW r \in Replica, S!Begin(r) \/ S!Raise(r) \/ S!Cut(r) PROVE sSpent' \in ScheduleCounters
    BY <2>2, ScheduleSpentBy
  <2>3. CASE S!Toggle
    <3>1. sSpent' = [sSpent EXCEPT !["toggle"] = sSpent["toggle"] + 1] BY <2>3 DEF S!Toggle, S!Spend
    <3>2. QED BY <1>1, <3>1 DEF ScheduleCounters
  <2>4. ASSUME NEW r \in Replica, S!Look(r) \/ S!Insert(r) \/ S!Stamp(r) PROVE UNCHANGED sSpent
    BY <2>4 DEF S!Look, S!Insert, S!Stamp
  <2>5. CASE S!Fire \/ S!NextMinute \/ UNCHANGED S!svars
    BY <2>1, <2>5 DEF S!Fire, S!NextMinute, S!svars
  <2>6. QED BY <2>1, <2>2, <2>3, <2>4, <2>5 DEF S!Next
<1>4. /\ ScheduleRoutineOK(sRoutine') /\ sRoutine'.last <= minute
      /\ events' \in Seq(ScheduleFired) /\ \A i \in DOMAIN events' : events'[i].slot \in 1..minute
      /\ sTick' \in [Replica -> ScheduleTicks] /\ \A r \in Replica : ScheduleTickOK(sTick'[r])
  BY ScheduleRoutineStays, ScheduleEventsStay, ScheduleTicksStay
<1>5. minute' \in Nat \ {0} /\ minute <= minute' /\ 1..minute \subseteq 1..minute' BY <1>1, <1>2
<1>6. sRoutine'.last <= minute' BY <1>1, <1>4, <1>5 DEF ScheduleRoutineOK
<1>7. ScheduleShapeOK' BY <1>3, <1>4, <1>5, <1>6 DEF ScheduleShapeOK, ScheduleRoutineOK
<1>8. ASSUME NEW r \in Replica PROVE ScheduleTickOK(sTick[r])'
  BY <1>4, <1>5 DEF ScheduleTickOK, S!Due
<1>9. QED BY <1>7, <1>8 DEF ScheduleStepsOK

LEMMA ScheduleInit == S!Init => ScheduleInv
<1> SUFFICES ASSUME S!Init PROVE ScheduleInv
  OBVIOUS
<1>1. ScheduleShapeOK BY DEF S!Init, ScheduleShapeOK, S!Resting, ScheduleTicks, ScheduleCounters
<1>2. ScheduleStepsOK BY DEF S!Init, ScheduleStepsOK, S!Resting, ScheduleTickOK
<1>3. ASSUME NEW t \in Trigger PROVE SchedulePaid(t)
  <2>1. events = <<>> /\ DOMAIN events = {} BY DEF S!Init
  <2>2. S!TooSoon(t) = {} BY <2>1 DEF S!TooSoon
  <2>3. ScheduleBusy = {} BY DEF S!Init, S!Resting, ScheduleBusy
  <2>4. ScheduleAwaiting(t) = {} BY <2>3, ScheduleAwaitingAreBusy
  <2>5. ScheduleSettled(t) BY <2>1, <2>3 DEF ScheduleSettled, ScheduleUntil, ScheduleCovers
  <2>6. ~ScheduleFresh(t) BY <2>4 DEF ScheduleFresh
  <2>7. sSpent.cut = 0 /\ sSpent.overlap = 0 BY DEF S!Init
  <2>8. ScheduleOwed(t) = 0 /\ ScheduleSpare(t) = 0 /\ Cardinality(S!TooSoon(t)) = 0
    BY <2>2, <2>4, <2>5, <2>6, FS_EmptySet DEF ScheduleOwed, ScheduleSpare
  <2>9. QED BY <2>7, <2>8 DEF SchedulePaid
<1>4. QED BY <1>1, <1>2, <1>3 DEF ScheduleInv

LEMMA ScheduleStep == ScheduleInv /\ [S!Next]_S!svars => ScheduleInv'
<1> SUFFICES ASSUME ScheduleShapeOK, ScheduleStepsOK, \A t \in Trigger : SchedulePaid(t), [S!Next]_S!svars
             PROVE  \A t \in Trigger : SchedulePaid(t)'
  BY ScheduleShapeStep DEF ScheduleInv
<1>1. ScheduleShapeOK' BY ScheduleShapeStep
<1>2. sSpent' \in ScheduleCounters BY <1>1 DEF ScheduleShapeOK
<1>3. ASSUME NEW r \in Replica, S!Begin(r) PROVE \A t \in Trigger : SchedulePaid(t)'
  BY <1>3, ScheduleSpentBy, ScheduleBeginPays
<1>4. ASSUME NEW r \in Replica, S!Look(r) PROVE \A t \in Trigger : SchedulePaid(t)'
  BY <1>4, ScheduleLookPays
<1>5. ASSUME NEW r \in Replica, S!Insert(r) PROVE \A t \in Trigger : SchedulePaid(t)'
  BY <1>5, ScheduleInsertPays
<1>6. ASSUME NEW r \in Replica, S!Stamp(r) PROVE \A t \in Trigger : SchedulePaid(t)'
  BY <1>6, ScheduleStampPays
<1>7. ASSUME NEW r \in Replica, S!Raise(r) PROVE \A t \in Trigger : SchedulePaid(t)'
  BY <1>7, ScheduleSpentBy, ScheduleRaisePays
<1>8. ASSUME NEW r \in Replica, S!Cut(r) PROVE \A t \in Trigger : SchedulePaid(t)'
  BY <1>8, ScheduleSpentBy, ScheduleCutPays
<1>9. CASE S!Fire
  <2>1. UNCHANGED sTick /\ UNCHANGED sSpent BY <1>9 DEF S!Fire
  <2>2. QED BY <1>9, <2>1, ScheduleOthersPay
<1>10. CASE S!Toggle
  <2>1. UNCHANGED <<sTick, events>> BY <1>10 DEF S!Toggle
  <2>2. sRoutine'.last = sRoutine.last
    <3>1. \/ sRoutine' = [sRoutine EXCEPT !.status = "paused"]
          \/ sRoutine' = [sRoutine EXCEPT !.status = "active", !.failures = 0] BY <1>10 DEF S!Toggle
    <3>2. QED BY <3>1 DEF ScheduleShapeOK
  <2>3. sSpent'.cut = sSpent.cut /\ sSpent'.overlap = sSpent.overlap
    <3>1. sSpent' = [sSpent EXCEPT !["toggle"] = sSpent["toggle"] + 1]
      BY <1>10 DEF S!Toggle, S!Spend
    <3>2. QED BY <3>1 DEF ScheduleShapeOK, ScheduleCounters
  <2>4. QED BY <2>1, <2>2, <2>3, ScheduleOthersPay
<1>11. CASE S!NextMinute \/ UNCHANGED S!svars
  <2>1. UNCHANGED <<sRoutine, events, sTick, sSpent>> BY <1>11 DEF S!NextMinute, S!svars
  <2>2. QED BY <2>1, ScheduleOthersPay
<1>12. QED BY <1>3, <1>4, <1>5, <1>6, <1>7, <1>8, <1>9, <1>10, <1>11 DEF S!Next

\* All that was fired too soon is paid for.
LEMMA ScheduleHolds == ScheduleInv => S!FiresOncePerInterval
<1> SUFFICES ASSUME ScheduleInv, NEW t \in Trigger PROVE Cardinality(S!TooSoon(t)) <= sSpent.cut + 2 * sSpent.overlap
  BY SameSize DEF S!FiresOncePerInterval
<1>1. ScheduleShapeOK /\ SchedulePaid(t) BY DEF ScheduleInv
<1>2. Cardinality(S!TooSoon(t)) \in Nat /\ IsFiniteSet(ScheduleAwaiting(t)) /\ Cardinality(ScheduleAwaiting(t)) \in Nat
  BY <1>1, ScheduleCounted
<1>3. sSpent.cut \in Nat /\ sSpent.overlap \in Nat BY <1>1 DEF ScheduleShapeOK, ScheduleCounters
<1>4. ScheduleSpare(t) <= ScheduleOwed(t) /\ ScheduleOwed(t) \in Nat /\ ScheduleSpare(t) \in 0..1
  <2>1. ScheduleOwed(t) >= Cardinality(ScheduleAwaiting(t)) /\ ScheduleOwed(t) \in Nat
    BY <1>2 DEF ScheduleOwed
  <2>2. CASE ScheduleFresh(t)
    <3>1. Cardinality(ScheduleAwaiting(t)) # 0 BY <1>2, <2>2, FS_EmptySet DEF ScheduleFresh
    <3>2. QED BY <1>2, <2>1, <2>2, <3>1 DEF ScheduleSpare
  <2>3. CASE ~ScheduleFresh(t) BY <2>1, <2>3 DEF ScheduleSpare
  <2>4. QED BY <2>2, <2>3
<1>5. QED BY <1>1, <1>2, <1>3, <1>4 DEF SchedulePaid

\* FiresOncePerInterval: whoever reads the stamp while it covers the events there are
\* fires in time, unless another who read it so did before him; and the last to leave
\* stamps after all events, unless he was beside another or was cut
\* (evaluate_schedules, _evaluate_routine_schedules).
THEOREM FiresInTime == Spec => []FiresOncePerInterval
<1>1. Init => ScheduleInv
  BY ScheduleInit DEF Init
<1>2. ScheduleInv /\ [Next]_vars => ScheduleInv'
  BY ScheduleStep, OnePartMoves
<1>3. ScheduleInv => FiresOncePerInterval
  BY ScheduleHolds DEF FiresOncePerInterval
<1>4. QED
  BY <1>1, <1>2, <1>3, PTL DEF Spec


-----------------------------------------------------------------------------
(* A watch (Watches) *)

\* Watches without repetition, in which what comes later is not far behind.
WatchRecent(s) ==
  /\ s \in Seq(W!Item)
  /\ \A i, j \in DOMAIN s : i # j => s[i] # s[j]
  /\ \A i \in DOMAIN s : s[i] <= published
  /\ \A i, j \in DOMAIN s : i < j => s[i] < s[j] + FeedSize

\* An item is on the list, or has left the feed, or was forgotten.
WatchKnown(x, s) == x \in W!ToSet(s) \/ x + FeedSize <= published \/ x \in forgotten

\* A list of published items
WatchListed(s) == s \in Seq(W!Item) /\ \A i \in DOMAIN s : s[i] <= published

WatchTypes ==
  /\ published \in Nat /\ published <= MaxItem
  /\ DOMAIN watch = {"status", "seen", "interval", "last"}
  /\ poll \in [at : {"due", "commit", "emit", "done"}, fresh : Seq(W!Item), seen : Seq(W!Item)]
  /\ emitted \in [W!Item -> Nat] /\ forgotten \subseteq W!Item

\* What is in hand is new, unless it was forgotten, and each of it once.
WatchFreshOK ==
  /\ \A i, j \in DOMAIN poll.fresh : i # j => poll.fresh[i] # poll.fresh[j]
  /\ \A i \in DOMAIN poll.fresh : emitted[poll.fresh[i]] = 0 \/ poll.fresh[i] \in forgotten

\* Once the list is committed, what is in hand is known.
WatchListOK ==
  /\ WatchListed(watch.seen)
  /\ poll.at = "commit" => WatchListed(poll.seen) /\ WatchListed(poll.fresh)
  /\ poll.at # "commit" => \A i \in DOMAIN poll.fresh : WatchKnown(poll.fresh[i], watch.seen)

\* What was reported is known, and was reported once, unless it was forgotten.
WatchReportedOK ==
  \A x \in W!Item :
    /\ emitted[x] \in {0, 1} \/ x \in forgotten
    /\ emitted[x] # 0 => WatchKnown(x, watch.seen)

\* The list to be committed has what the old one had, and what is in hand.
WatchRecentOK ==
  /\ WatchRecent(watch.seen) /\ forgotten = {}
  /\ poll.at = "commit" =>
       /\ WatchRecent(poll.seen)
       /\ \A x \in W!Item : WatchKnown(x, watch.seen) => WatchKnown(x, poll.seen)
       /\ \A i \in DOMAIN poll.fresh : WatchKnown(poll.fresh[i], poll.seen)

WatchInv == WatchTypes /\ WatchFreshOK /\ WatchListOK /\ WatchReportedOK /\ (W!ListOutlastsFeed => WatchRecentOK)

-----------------------------------------------------------------------------
\* Of a sequence, the last n elements.
LEMMA WatchLastOfIs ==
  ASSUME NEW s \in Seq(W!Item), NEW n \in Nat
  PROVE  /\ W!LastOf(s, n) \in Seq(W!Item)
         /\ Len(W!LastOf(s, n)) = W!Least(Len(s), n)
         /\ \A i \in DOMAIN W!LastOf(s, n) :
              /\ Len(s) - W!Least(Len(s), n) + i \in DOMAIN s
              /\ W!LastOf(s, n)[i] = s[Len(s) - W!Least(Len(s), n) + i]
<1> DEFINE l == W!Least(Len(s), n)
           a == Len(s) - l + 1
<1>1. Len(s) \in Nat /\ DOMAIN s = 1..Len(s) /\ l \in Nat /\ l <= Len(s) BY DEF W!Least
<1>2. a \in Int /\ Len(s) \in Int BY <1>1
<1>3. \A i \in a..Len(s) : s[i] \in W!Item BY <1>1
<1>4. /\ SubSeq(s, a, Len(s)) \in Seq(W!Item)
      /\ Len(SubSeq(s, a, Len(s))) = IF a <= Len(s) THEN Len(s) - a + 1 ELSE 0
      /\ \A i \in 1..Len(s) - a + 1 : SubSeq(s, a, Len(s))[i] = s[a + i - 1]
  BY <1>2, <1>3, SubSeqProperties
<1>5. W!LastOf(s, n) = SubSeq(s, a, Len(s)) BY DEF W!LastOf
<1>6. Len(W!LastOf(s, n)) = l BY <1>1, <1>4, <1>5
<1>7. W!LastOf(s, n) \in Seq(W!Item) BY <1>4, <1>5
<1>8. DOMAIN W!LastOf(s, n) = 1..l BY <1>6, <1>7
<1>9. ASSUME NEW i \in 1..l
      PROVE  Len(s) - l + i \in DOMAIN s /\ W!LastOf(s, n)[i] = s[Len(s) - l + i]
  <2>1. Len(s) - l + i \in 1..Len(s) BY <1>1
  <2>2. i \in 1..Len(s) - a + 1 /\ a + i - 1 = Len(s) - l + i BY <1>1
  <2>3. QED BY <1>1, <1>4, <1>5, <2>1, <2>2
<1>10. QED BY <1>6, <1>7, <1>8, <1>9

\* The first n elements are elements, and as different as those.
LEMMA WatchFirstOfIs ==
  ASSUME NEW s \in Seq(W!Item), NEW n \in Nat
  PROVE  /\ W!FirstOf(s, n) \in Seq(W!Item)
         /\ \A i \in DOMAIN W!FirstOf(s, n) : i \in DOMAIN s /\ W!FirstOf(s, n)[i] = s[i]
<1> DEFINE l == W!Least(Len(s), n)
<1>1. Len(s) \in Nat /\ DOMAIN s = 1..Len(s) /\ l \in Nat /\ l <= Len(s) BY DEF W!Least
<1>2. 1 \in Int /\ l \in Int BY <1>1
<1>3. \A i \in 1..l : s[i] \in W!Item BY <1>1
<1>4. /\ SubSeq(s, 1, l) \in Seq(W!Item)
      /\ Len(SubSeq(s, 1, l)) = IF 1 <= l THEN l - 1 + 1 ELSE 0
      /\ \A i \in 1..l - 1 + 1 : SubSeq(s, 1, l)[i] = s[1 + i - 1]
  BY <1>2, <1>3, SubSeqProperties
<1>5. W!FirstOf(s, n) = SubSeq(s, 1, l) BY DEF W!FirstOf
<1>6. DOMAIN SubSeq(s, 1, l) = 1..l BY <1>1, <1>4
<1>7. ASSUME NEW i \in 1..l PROVE i \in DOMAIN s /\ W!FirstOf(s, n)[i] = s[i]
  BY <1>1, <1>4, <1>5
<1>8. QED BY <1>4, <1>5, <1>6, <1>7

\* At most 2 * FeedSize - 2 other items are near an item.
LEMMA WatchFewAreNear ==
  ASSUME NEW x \in W!Item, NEW n \in Nat, NEW f,
         f \in [1..n -> Nat],
         \A i, j \in 1..n : i # j => f[i] # f[j],
         \A i \in 1..n : f[i] # x /\ x < f[i] + FeedSize /\ f[i] < x + FeedSize
  PROVE  n + 1 < 2 * FeedSize \/ n = 0
<1> SUFFICES ASSUME n # 0 PROVE n + 1 < 2 * FeedSize OBVIOUS
<1> DEFINE near == (x - FeedSize + 1)..(x + FeedSize - 1)
           room == near \ {x}
<1>1. x \in Int /\ FeedSize \in Nat BY WatchesAreNumbers DEF W!Item
<1>2. FeedSize > 0
  <2>1. 1 \in 1..n OBVIOUS
  <2>2. f[1] \in Nat /\ f[1] # x /\ x < f[1] + FeedSize /\ f[1] < x + FeedSize BY <2>1
  <2>3. QED BY <1>1, <2>2
<1>3. IsFiniteSet(near) /\ Cardinality(near) = 2 * FeedSize - 1
  <2>1. x - FeedSize + 1 \in Int /\ x + FeedSize - 1 \in Int BY <1>1
  <2>2. IsFiniteSet(near) /\ Cardinality(near) = IF x - FeedSize + 1 > x + FeedSize - 1 THEN 0
                                                 ELSE (x + FeedSize - 1) - (x - FeedSize + 1) + 1
    BY <2>1, FS_Interval
  <2>3. QED BY <1>1, <1>2, <2>2
<1>4. IsFiniteSet(room) /\ Cardinality(room) = 2 * FeedSize - 2
  <2>1. x \in near BY <1>1, <1>2
  <2>2. IsFiniteSet(room) /\ Cardinality(room) = Cardinality(near) - 1
    BY <1>3, <2>1, FS_RemoveElement
  <2>3. QED BY <1>1, <1>3, <2>2
<1>5. IsFiniteSet(1..n) /\ Cardinality(1..n) = n
  BY <1>1, FS_Interval
<1>6. f \in [1..n -> room]
  <2>1. ASSUME NEW i \in 1..n PROVE f[i] \in room
    <3>1. f[i] \in Nat /\ f[i] # x /\ x < f[i] + FeedSize /\ f[i] < x + FeedSize OBVIOUS
    <3>2. QED BY <1>1, <3>1
  <2>2. QED BY <2>1
<1>7. ~(Cardinality(room) < Cardinality(1..n))
  BY <1>4, <1>5, <1>6, FS_PigeonHole
<1>8. QED BY <1>1, <1>2, <1>4, <1>5, <1>7

\* What the cut drops has left the feed: the list behind it is too long to be near it.
LEMMA WatchCutForgetsTheGone ==
  ASSUME W!ListOutlastsFeed, WatchTypes, NEW s, WatchRecent(s)
  PROVE  /\ WatchRecent(W!LastOf(s, SeenCap))
         /\ \A x \in W!Item : WatchKnown(x, s) => WatchKnown(x, W!LastOf(s, SeenCap))
<1> DEFINE t == W!LastOf(s, SeenCap)
           l == W!Least(Len(s), SeenCap)
           d == Len(s) - l
<1>1. s \in Seq(W!Item) /\ SeenCap \in Nat /\ published \in Nat
  BY WatchesAreNumbers DEF WatchRecent, WatchTypes
<1>2. /\ t \in Seq(W!Item) /\ Len(t) = l
      /\ \A i \in DOMAIN t : d + i \in DOMAIN s /\ t[i] = s[d + i]
  BY <1>1, WatchLastOfIs
<1>3. /\ Len(s) \in Nat /\ DOMAIN s = 1..Len(s) /\ l \in Nat /\ l <= Len(s)
      /\ d \in Nat /\ d + l = Len(s) /\ DOMAIN t = 1..l
      /\ d # 0 => l = SeenCap
  BY <1>1, <1>2 DEF W!Least
<1> HIDE DEF t, l, d
<1>4. WatchRecent(t)
  <2>1. \A i, j \in DOMAIN t : i # j => t[i] # t[j] BY <1>2, <1>3 DEF WatchRecent
  <2>2. \A i \in DOMAIN t : t[i] <= published BY <1>2 DEF WatchRecent
  <2>3. ASSUME NEW i \in DOMAIN t, NEW j \in DOMAIN t, i < j PROVE t[i] < t[j] + FeedSize
    <3>1. d + i < d + j BY <1>3, <2>3
    <3>2. s[d + i] < s[d + j] + FeedSize BY <1>2, <3>1 DEF WatchRecent
    <3>3. QED BY <1>2, <3>2
  <2>4. QED BY <1>2, <2>1, <2>2, <2>3 DEF WatchRecent
<1>5. ASSUME NEW x \in W!Item, x \in W!ToSet(s), x \notin W!ToSet(t), ~(x + FeedSize <= published)
      PROVE  FALSE
  <2>1. PICK k \in DOMAIN s : s[k] = x BY <1>5 DEF W!ToSet
  <2>2. k <= d
    <3> SUFFICES ASSUME ~(k <= d) PROVE FALSE OBVIOUS
    <3>1. k \in 1..Len(s) BY <1>3
    <3>2. k - d \in 1..l /\ d + (k - d) = k BY <1>3, <3>1
    <3>3. t[k - d] = x BY <1>2, <1>3, <2>1, <3>2
    <3>4. QED BY <1>3, <1>5, <3>2, <3>3 DEF W!ToSet
  <2>3. l = SeenCap BY <1>3, <2>2
  <2>4. t \in [1..l -> Nat]
    <3>1. t \in [1..l -> W!Item] BY <1>2
    <3>2. W!Item \subseteq Nat BY DEF W!Item
    <3>3. QED BY <3>1, <3>2
  <2>5. \A i, j \in 1..l : i # j => t[i] # t[j] BY <1>3, <1>4 DEF WatchRecent
  <2>6. ASSUME NEW i \in 1..l PROVE t[i] # x /\ x < t[i] + FeedSize /\ t[i] < x + FeedSize
    <3>1. d + i \in DOMAIN s /\ t[i] = s[d + i] BY <1>2, <1>3
    <3>2. k < d + i BY <1>3, <2>2
    <3>3. t[i] # x /\ x < t[i] + FeedSize BY <2>1, <3>1, <3>2 DEF WatchRecent
    <3>4. t[i] <= published BY <3>1 DEF WatchRecent
    <3>5. t[i] \in Nat /\ x \in Nat BY <2>4 DEF W!Item
    <3>6. QED BY <1>1, <1>5, <3>3, <3>4, <3>5, WatchesAreNumbers
  <2>7. l + 1 < 2 * FeedSize \/ l = 0 BY <1>3, <2>4, <2>5, <2>6, WatchFewAreNear
  <2>8. x <= published /\ x + FeedSize > published /\ x \in Nat
    BY <1>1, <1>5, <2>1, WatchesAreNumbers DEF WatchRecent, W!Item
  <2>9. QED BY <1>1, <2>3, <2>7, <2>8, WatchesAreNumbers DEF W!ListOutlastsFeed
<1>6. QED BY <1>4, <1>5 DEF WatchKnown, t

\* The orders of a set of items are lists of them, without repetition.
LEMMA WatchOrdersAre ==
  ASSUME WatchTypes, NEW items \in SUBSET W!Feed, NEW t \in W!SetToSeqs(items)
  PROVE  /\ t \in Seq(W!Item)
         /\ \A i, j \in DOMAIN t : i # j => t[i] # t[j]
         /\ \A x : x \in items <=> x \in W!ToSet(t)
<1> DEFINE n == Cardinality(items)
<1>1. published \in Nat /\ published <= MaxItem BY DEF WatchTypes
<1>2. items \subseteq 1..published BY DEF W!Feed
<1>3. IsFiniteSet(items)
  <2>1. IsFiniteSet(1..published) BY <1>1, FS_Interval
  <2>2. QED BY <1>2, <2>1, FS_Subset
<1>4. n \in Nat BY <1>3, FS_CardinalityType
<1>5. t \in [1..n -> items] /\ \A i, j \in 1..n : i # j => t[i] # t[j]
  BY SameSize DEF W!SetToSeqs
<1>6. items \subseteq W!Item BY <1>1, <1>2, WatchesAreNumbers DEF W!Item
<1>7. t \in Seq(W!Item) BY <1>4, <1>5, <1>6
<1>8. t \in Injection(1..n, items) BY <1>5 DEF Injection, IsInjective
<1>9. Cardinality(1..n) = n BY <1>4, FS_Interval
<1>10. t \in Surjection(1..n, items) BY <1>3, <1>8, <1>9, FS_Injection
<1>11. \A x : x \in items <=> x \in W!ToSet(t) BY <1>5, <1>10 DEF Surjection, W!ToSet
<1>12. QED BY <1>5, <1>7, <1>11

\* What is in the feed is at most FeedSize behind anything.
LEMMA WatchNewGoBehind ==
  ASSUME WatchTypes, NEW s, WatchRecent(s), NEW t \in W!SetToSeqs(W!Feed \ W!ToSet(s))
  PROVE  /\ WatchRecent(s \o t)
         /\ W!ToSet(s \o t) = W!ToSet(s) \cup W!ToSet(t)
<1> DEFINE c == s \o t
<1>1. s \in Seq(W!Item) /\ published \in Nat /\ FeedSize \in Nat /\ W!Item \subseteq Nat
  BY WatchesAreNumbers DEF WatchRecent, WatchTypes, W!Item
<1>2. /\ t \in Seq(W!Item)
      /\ \A i, j \in DOMAIN t : i # j => t[i] # t[j]
      /\ \A x : x \in W!Feed \ W!ToSet(s) <=> x \in W!ToSet(t)
  BY WatchOrdersAre
<1>3. /\ c \in Seq(W!Item) /\ Len(c) = Len(s) + Len(t)
      /\ \A i \in 1..Len(s) + Len(t) : c[i] = IF i <= Len(s) THEN s[i] ELSE t[i - Len(s)]
  BY <1>1, <1>2, ConcatProperties
<1>4. /\ Len(s) \in Nat /\ Len(t) \in Nat
      /\ DOMAIN s = 1..Len(s) /\ DOMAIN t = 1..Len(t) /\ DOMAIN c = 1..Len(s) + Len(t)
  BY <1>1, <1>2, <1>3
<1> HIDE DEF c
<1>5. ASSUME NEW i \in DOMAIN c, ~(i <= Len(s))
      PROVE  /\ i - Len(s) \in DOMAIN t /\ c[i] = t[i - Len(s)]
             /\ c[i] \notin W!ToSet(s) /\ c[i] <= published /\ published < c[i] + FeedSize
  <2>1. i - Len(s) \in DOMAIN t /\ c[i] = t[i - Len(s)] BY <1>3, <1>4, <1>5
  <2>2. c[i] \in W!ToSet(t) BY <2>1 DEF W!ToSet
  <2>3. c[i] \in W!Feed /\ c[i] \notin W!ToSet(s) BY <1>2, <2>2
  <2>4. c[i] \in 1..published /\ c[i] + FeedSize > published BY <2>3 DEF W!Feed
  <2>5. QED BY <1>1, <2>1, <2>3, <2>4
<1>6. ASSUME NEW i \in DOMAIN c, i <= Len(s)
      PROVE  i \in DOMAIN s /\ c[i] = s[i] /\ c[i] \in W!ToSet(s) /\ c[i] <= published
  <2>1. i \in DOMAIN s /\ c[i] = s[i] BY <1>3, <1>4, <1>6
  <2>2. QED BY <2>1 DEF WatchRecent, W!ToSet
<1>7. \A i \in DOMAIN c : c[i] <= published BY <1>5, <1>6
<1>8. ASSUME NEW i \in DOMAIN c, NEW j \in DOMAIN c, i < j
      PROVE  c[i] # c[j] /\ c[i] < c[j] + FeedSize
  <2>1. CASE j <= Len(s)
    <3>1. i <= Len(s) BY <1>4, <1>8, <2>1
    <3>2. i \in DOMAIN s /\ j \in DOMAIN s /\ c[i] = s[i] /\ c[j] = s[j] BY <1>6, <2>1, <3>1
    <3>3. i # j BY <1>4, <1>8
    <3>4. QED BY <1>8, <3>2, <3>3 DEF WatchRecent
  <2>2. CASE ~(j <= Len(s))
    <3>1. /\ j - Len(s) \in DOMAIN t /\ c[j] = t[j - Len(s)]
          /\ c[j] \notin W!ToSet(s) /\ published < c[j] + FeedSize
      BY <1>5, <2>2
    <3>2. c[i] \in Nat /\ c[j] \in Nat
      <4>1. c[i] \in W!Item /\ c[j] \in W!Item BY <1>3
      <4>2. QED BY <1>1, <4>1
    <3>3. c[i] < c[j] + FeedSize BY <1>1, <1>7, <3>1, <3>2
    <3>4. CASE i <= Len(s) BY <1>6, <3>1, <3>3, <3>4
    <3>5. CASE ~(i <= Len(s))
      <4>1. i - Len(s) \in DOMAIN t /\ c[i] = t[i - Len(s)] BY <1>5, <3>5
      <4>2. i - Len(s) # j - Len(s) BY <1>4, <1>8
      <4>3. QED BY <1>2, <3>1, <3>3, <4>1, <4>2
    <3>6. QED BY <3>4, <3>5
  <2>3. QED BY <2>1, <2>2
<1>9. \A i, j \in DOMAIN c : i # j => c[i] # c[j]
  <2> SUFFICES ASSUME NEW i \in DOMAIN c, NEW j \in DOMAIN c, i # j PROVE c[i] # c[j]
    OBVIOUS
  <2>1. i < j \/ j < i BY <1>4
  <2>2. QED BY <1>8, <2>1
<1>10. WatchRecent(c) BY <1>3, <1>7, <1>8, <1>9 DEF WatchRecent
<1>11. ASSUME NEW x PROVE x \in W!ToSet(c) <=> x \in W!ToSet(s) \/ x \in W!ToSet(t)
  <2>1. ASSUME x \in W!ToSet(c) PROVE x \in W!ToSet(s) \/ x \in W!ToSet(t)
    <3>1. PICK i \in DOMAIN c : c[i] = x BY <2>1 DEF W!ToSet
    <3>2. CASE i <= Len(s) BY <1>6, <3>1, <3>2
    <3>3. CASE ~(i <= Len(s)) BY <1>5, <3>1, <3>3 DEF W!ToSet
    <3>4. QED BY <3>2, <3>3
  <2>2. ASSUME x \in W!ToSet(s) PROVE x \in W!ToSet(c)
    <3>1. PICK i \in DOMAIN s : s[i] = x BY <2>2 DEF W!ToSet
    <3>2. i \in DOMAIN c /\ i <= Len(s) BY <1>4, <3>1
    <3>3. QED BY <1>6, <3>1, <3>2 DEF W!ToSet
  <2>3. ASSUME x \in W!ToSet(t) PROVE x \in W!ToSet(c)
    <3>1. PICK i \in DOMAIN t : t[i] = x BY <2>3 DEF W!ToSet
    <3>2. i + Len(s) \in DOMAIN c /\ ~(i + Len(s) <= Len(s)) /\ (i + Len(s)) - Len(s) = i
      BY <1>4, <3>1
    <3>3. c[i + Len(s)] = x BY <1>5, <3>1, <3>2
    <3>4. QED BY <3>2, <3>3 DEF W!ToSet
  <2>4. QED BY <2>1, <2>2, <2>3
<1>12. QED BY <1>10, <1>11 DEF c

\* The list of a poll: what it has is recent, and what was known or is new is known.
LEMMA WatchRememberIs ==
  ASSUME W!ListOutlastsFeed, WatchTypes, NEW s, WatchRecent(s), NEW t \in W!SetToSeqs(W!Feed \ W!ToSet(s))
  PROVE  /\ WatchRecent(W!Remember(s, t))
         /\ \A x \in W!Item : WatchKnown(x, s) \/ x \in W!ToSet(t) => WatchKnown(x, W!Remember(s, t))
<1>1. t \in Seq(W!Item) BY WatchOrdersAre
<1>2. CASE t = <<>>
  <2>1. W!ToSet(t) = {} BY <1>2 DEF W!ToSet
  <2>2. QED BY <1>2, <2>1 DEF W!Remember
<1>3. CASE t # <<>>
  <2>1. W!Remember(s, t) = W!LastOf(s \o t, SeenCap) BY <1>3 DEF W!Remember
  <2>2. WatchRecent(s \o t) /\ W!ToSet(s \o t) = W!ToSet(s) \cup W!ToSet(t) BY WatchNewGoBehind
  <2>3. \A x \in W!Item : WatchKnown(x, s) \/ x \in W!ToSet(t) => WatchKnown(x, s \o t)
    BY <2>2 DEF WatchKnown
  <2>4. QED BY <2>1, <2>2, <2>3, WatchCutForgetsTheGone
<1>4. QED BY <1>2, <1>3

\* The list of a poll is one of published items, whatever the feed.
LEMMA WatchRememberLists ==
  ASSUME WatchTypes, NEW s, WatchListed(s), NEW t \in W!SetToSeqs(W!Feed \ W!ToSet(s))
  PROVE  WatchListed(t) /\ WatchListed(W!Remember(s, t))
<1>1. s \in Seq(W!Item) /\ t \in Seq(W!Item) BY WatchOrdersAre DEF WatchListed
<1>2. WatchListed(t)
  <2>1. \A x : x \in W!ToSet(t) => x \in W!Feed BY WatchOrdersAre
  <2>2. \A i \in DOMAIN t : t[i] <= published BY <2>1 DEF W!ToSet, W!Feed, WatchTypes
  <2>3. QED BY <1>1, <2>2 DEF WatchListed
<1>3. CASE t = <<>> BY <1>2, <1>3 DEF W!Remember
<1>4. CASE t # <<>>
  <2> DEFINE c == s \o t
  <2>1. /\ c \in Seq(W!Item) /\ Len(c) = Len(s) + Len(t) /\ Len(s) \in Nat /\ Len(t) \in Nat
        /\ DOMAIN c = 1..Len(s) + Len(t) /\ DOMAIN s = 1..Len(s) /\ DOMAIN t = 1..Len(t)
        /\ \A i \in 1..Len(s) + Len(t) : c[i] = IF i <= Len(s) THEN s[i] ELSE t[i - Len(s)]
    BY <1>1, ConcatProperties
  <2> HIDE DEF c
  <2>2. \A i \in DOMAIN c : c[i] <= published
    <3>1. ASSUME NEW i \in DOMAIN c, i <= Len(s) PROVE c[i] <= published
      BY <2>1, <3>1 DEF WatchListed
    <3>2. ASSUME NEW i \in DOMAIN c, ~(i <= Len(s)) PROVE c[i] <= published
      <4>1. i - Len(s) \in DOMAIN t /\ c[i] = t[i - Len(s)] BY <2>1, <3>2
      <4>2. QED BY <1>2, <4>1 DEF WatchListed
    <3>3. QED BY <3>1, <3>2
  <2>3. PICK l : l = W!LastOf(c, SeenCap) OBVIOUS
  <2>4. l \in Seq(W!Item) /\ \A i \in DOMAIN l : \E j \in DOMAIN c : l[i] = c[j]
    BY <2>1, <2>3, WatchLastOfIs, WatchesAreNumbers
  <2>5. WatchListed(l) BY <2>2, <2>4 DEF WatchListed
  <2>6. W!Remember(s, t) = l BY <1>4, <2>3 DEF W!Remember, c
  <2>7. QED BY <1>2, <2>5, <2>6
<1>5. QED BY <1>3, <1>4

-----------------------------------------------------------------------------
LEMMA WatchInit == W!Init => WatchInv
<1> SUFFICES ASSUME W!Init PROVE WatchInv OBVIOUS
<1>1. <<>> \in Seq(W!Item) /\ DOMAIN <<>> = {} OBVIOUS
<1>2. WatchTypes BY <1>1, WatchesAreNumbers DEF W!Init, W!Waiting, WatchTypes
<1>3. poll.fresh = <<>> /\ poll.at = "due" /\ watch.seen = <<>> BY DEF W!Init, W!Waiting
<1>4. WatchFreshOK BY <1>1, <1>3 DEF WatchFreshOK
<1>5. WatchListOK BY <1>1, <1>3 DEF WatchListOK, WatchListed
<1>6. WatchReportedOK BY DEF W!Init, WatchReportedOK
<1>7. forgotten = {} BY DEF W!Init
<1>8. WatchRecentOK BY <1>1, <1>3, <1>7 DEF WatchRecentOK, WatchRecent
<1>9. QED BY <1>2, <1>4, <1>5, <1>6, <1>8 DEF WatchInv

LEMMA WatchTypesStay ==
  ASSUME WatchInv, [W!Next]_W!wvars
  PROVE  WatchTypes'
<1>1. /\ published \in Nat /\ published <= MaxItem
      /\ DOMAIN watch = {"status", "seen", "interval", "last"}
      /\ poll \in [at : {"due", "commit", "emit", "done"}, fresh : Seq(W!Item), seen : Seq(W!Item)]
      /\ emitted \in [W!Item -> Nat] /\ forgotten \subseteq W!Item
  BY DEF WatchInv, WatchTypes
<1>2. WatchTypes BY DEF WatchInv
<1>3. <<>> \in Seq(W!Item) OBVIOUS
<1>4. poll.fresh \in Seq(W!Item) /\ poll.seen \in Seq(W!Item) BY <1>1
<1>5. CASE UNCHANGED W!wvars BY <1>1, <1>5 DEF W!wvars, WatchTypes
<1>6. CASE W!Expire BY <1>1, <1>6 DEF W!Expire, WatchTypes
<1>7. CASE W!Skip BY <1>1, <1>7 DEF W!Skip, WatchTypes
<1>8. CASE W!Fetch
  <2>1. PICK new \in W!NewOnes(W!Feed, watch.seen) : poll' = [at |-> "commit", fresh |-> new.fresh, seen |-> new.seen]
    BY <1>8 DEF W!Fetch
  <2>2. PICK t \in W!SetToSeqs(W!Feed \ W!ToSet(watch.seen)) : new = [fresh |-> t, seen |-> W!Remember(watch.seen, t)]
    BY <2>1 DEF W!NewOnes
  <2>3. WatchListed(watch.seen) BY DEF WatchInv, WatchListOK
  <2>4. t \in Seq(W!Item) BY <1>2, WatchOrdersAre
  <2>5. W!Remember(watch.seen, t) \in Seq(W!Item) BY <1>2, <2>3, WatchRememberLists DEF WatchListed
  <2>6. new.fresh = t /\ new.seen = W!Remember(watch.seen, t) BY <2>2
  <2>7. poll' \in [at : {"due", "commit", "emit", "done"}, fresh : Seq(W!Item), seen : Seq(W!Item)]
    BY <2>1, <2>4, <2>5, <2>6
  <2>8. UNCHANGED <<published, watch, emitted, forgotten>> BY <1>8 DEF W!Fetch
  <2>9. QED BY <1>1, <2>7, <2>8 DEF WatchTypes
<1>9. CASE W!Raise BY <1>1, <1>9 DEF W!Raise, WatchTypes
<1>10. CASE W!Commit
  <2>1. W!FirstOf(poll.fresh, PerCheck) \in Seq(W!Item) BY <1>4, WatchesAreNumbers, WatchFirstOfIs
  <2>2. poll' = [W!Waiting EXCEPT !.at = "emit", !.fresh = W!FirstOf(poll.fresh, PerCheck)]
    BY <1>10 DEF W!Commit
  <2>3. poll' \in [at : {"due", "commit", "emit", "done"}, fresh : Seq(W!Item), seen : Seq(W!Item)]
    BY <1>3, <2>1, <2>2 DEF W!Waiting
  <2>4. DOMAIN watch' = DOMAIN watch BY <1>10 DEF W!Commit
  <2>5. UNCHANGED <<published, emitted>> BY <1>10 DEF W!Commit
  <2>6. W!Feed \subseteq W!Item BY <1>1, WatchesAreNumbers DEF W!Feed, W!Item
  <2>7. forgotten' \subseteq W!Item BY <1>1, <1>10, <2>6 DEF W!Commit
  <2>8. QED BY <1>1, <2>3, <2>4, <2>5, <2>7 DEF WatchTypes
<1>11. CASE W!Emit
  <2>1. Head(poll.fresh) \in W!Item /\ Tail(poll.fresh) \in Seq(W!Item)
    BY <1>4, <1>11, HeadTailProperties DEF W!Emit
  <2>2. poll' = [poll EXCEPT !.fresh = Tail(poll.fresh)] BY <1>11 DEF W!Emit
  <2>3. poll' \in [at : {"due", "commit", "emit", "done"}, fresh : Seq(W!Item), seen : Seq(W!Item)]
    BY <1>1, <2>1, <2>2
  <2>4. emitted' \in [W!Item -> Nat] BY <1>1, <1>11, <2>1 DEF W!Emit
  <2>5. UNCHANGED <<published, watch, forgotten>> BY <1>11 DEF W!Emit
  <2>6. QED BY <1>1, <2>3, <2>4, <2>5 DEF WatchTypes
<1>12. CASE W!Finish BY <1>1, <1>12 DEF W!Finish, WatchTypes
<1>13. CASE W!Cut BY <1>1, <1>3, <1>13 DEF W!Cut, W!Waiting, WatchTypes
<1>14. CASE W!NextTick BY <1>1, <1>3, <1>14 DEF W!NextTick, W!Waiting, WatchTypes
<1>15. CASE W!Publish BY <1>1, <1>15, WatchesAreNumbers DEF W!Publish, WatchTypes
<1>16. CASE W!Unwatch BY <1>1, <1>16 DEF W!Unwatch, WatchTypes
<1>17. QED
  BY <1>5, <1>6, <1>7, <1>8, <1>9, <1>10, <1>11, <1>12, <1>13, <1>14, <1>15, <1>16 DEF W!Next

\* A list stays what it is, and what is known stays known, as the feed moves on.
LEMMA WatchFeedMovesOn ==
  ASSUME WatchTypes, WatchTypes', [W!Next]_W!wvars
  PROVE  /\ published <= published' /\ forgotten \subseteq forgotten'
         /\ \A s : WatchListed(s) => WatchListed(s)'
         /\ \A s : WatchRecent(s) => WatchRecent(s)'
         /\ \A s : \A x \in W!Item : WatchKnown(x, s) => WatchKnown(x, s)'
<1>1. published \in Nat /\ published' \in Nat /\ FeedSize \in Nat /\ W!Item \subseteq Nat
  BY WatchesAreNumbers DEF WatchTypes, W!Item
<1>2. published' = published \/ published' = published + 1
  BY DEF W!Next, W!wvars, W!Expire, W!Skip, W!Fetch, W!Raise, W!Commit, W!Emit, W!Finish, W!Cut,
     W!NextTick, W!Publish, W!Unwatch
<1>3. published <= published' BY <1>1, <1>2
<1>4. forgotten \subseteq forgotten'
  BY DEF W!Next, W!wvars, W!Expire, W!Skip, W!Fetch, W!Raise, W!Commit, W!Emit, W!Finish, W!Cut,
     W!NextTick, W!Publish, W!Unwatch
<1>5. ASSUME NEW s \in Seq(W!Item), NEW i \in DOMAIN s, s[i] <= published PROVE s[i] <= published'
  <2>1. s[i] \in W!Item OBVIOUS
  <2>2. s[i] \in Nat BY <1>1, <2>1
  <2>3. QED BY <1>1, <1>3, <1>5, <2>2
<1>6. ASSUME NEW s, WatchRecent(s) PROVE WatchRecent(s)'
  BY <1>5, <1>6 DEF WatchRecent
<1>7. ASSUME NEW s, WatchListed(s) PROVE WatchListed(s)'
  BY <1>5, <1>7 DEF WatchListed
<1>8. ASSUME NEW x \in W!Item, NEW s, WatchKnown(x, s) PROVE WatchKnown(x, s)'
  BY <1>1, <1>3, <1>4, <1>8 DEF WatchKnown
<1>9. QED BY <1>3, <1>4, <1>6, <1>7, <1>8

\* Nothing is in hand, and no list is to be committed.
LEMMA WatchNothingInHand ==
  ASSUME WatchInv, WatchTypes', [W!Next]_W!wvars, poll'.fresh = <<>>, poll'.at # "commit",
         UNCHANGED <<emitted, forgotten>>, watch'.seen = watch.seen
  PROVE  WatchFreshOK' /\ WatchListOK' /\ WatchReportedOK' /\ (WatchRecentOK => WatchRecentOK')
<1> PICK s : s = watch.seen OBVIOUS
<1>1. WatchTypes BY DEF WatchInv
<1>2. DOMAIN poll'.fresh = {} OBVIOUS
<1>3. WatchFreshOK' BY <1>2 DEF WatchFreshOK
<1>4. WatchListed(s)' /\ \A x \in W!Item : WatchKnown(x, s) => WatchKnown(x, s)'
  BY <1>1, WatchFeedMovesOn DEF WatchInv, WatchListOK
<1>5. WatchListOK' BY <1>2, <1>4 DEF WatchListOK
<1>6. WatchReportedOK' BY <1>4 DEF WatchInv, WatchReportedOK
<1>7. ASSUME WatchRecentOK PROVE WatchRecentOK'
  <2>1. WatchRecent(s)' BY <1>1, <1>7, WatchFeedMovesOn DEF WatchRecentOK
  <2>2. QED BY <1>7, <2>1 DEF WatchRecentOK
<1>8. QED BY <1>3, <1>5, <1>6, <1>7

\* The poll goes on as it was.
LEMMA WatchPollGoesOn ==
  ASSUME WatchInv, WatchTypes', [W!Next]_W!wvars, UNCHANGED <<emitted, forgotten>>, watch'.seen = watch.seen,
         poll'.fresh = poll.fresh, poll'.seen = poll.seen, poll'.at = "commit" <=> poll.at = "commit"
  PROVE  WatchFreshOK' /\ WatchListOK' /\ WatchReportedOK' /\ (WatchRecentOK => WatchRecentOK')
<1> PICK s : s = watch.seen OBVIOUS
<1> PICK new : new = poll.seen OBVIOUS
<1> PICK t : t = poll.fresh OBVIOUS
<1>1. WatchTypes /\ WatchFreshOK /\ WatchListOK /\ WatchReportedOK BY DEF WatchInv
<1>2. WatchFreshOK' BY <1>1 DEF WatchFreshOK
<1>3. /\ \A l : WatchRecent(l) => WatchRecent(l)'
      /\ \A l : WatchListed(l) => WatchListed(l)'
      /\ \A l : \A x \in W!Item : WatchKnown(x, l) => WatchKnown(x, l)'
  BY <1>1, WatchFeedMovesOn
<1>4. WatchReportedOK' BY <1>1, <1>3 DEF WatchReportedOK
<1>5. \A i \in DOMAIN t : t[i] \in W!Item BY <1>1 DEF WatchTypes
<1>6. WatchListed(s)' BY <1>1, <1>3 DEF WatchListOK
<1>7. poll.at = "commit" => WatchListed(new)' /\ WatchListed(t)' BY <1>1, <1>3 DEF WatchListOK
<1>8. ASSUME poll.at # "commit" PROVE \A i \in DOMAIN t : WatchKnown(t[i], s)'
  <2>1. \A i \in DOMAIN t : WatchKnown(t[i], s) BY <1>1, <1>8 DEF WatchListOK
  <2>2. QED BY <1>3, <1>5, <2>1
<1>9. WatchListOK' BY <1>6, <1>7, <1>8 DEF WatchListOK
<1>10. ASSUME WatchRecentOK PROVE WatchRecentOK'
  <2>1. WatchRecent(s)' BY <1>3, <1>10 DEF WatchRecentOK
  <2>2. ASSUME poll.at = "commit"
        PROVE  /\ WatchRecent(new)'
               /\ \A x \in W!Item : WatchKnown(x, s)' => WatchKnown(x, new)'
               /\ \A i \in DOMAIN t : WatchKnown(t[i], new)'
    <3>1. WatchRecent(new) /\ \A x \in W!Item : WatchKnown(x, s) => WatchKnown(x, new)
      BY <1>10, <2>2 DEF WatchRecentOK
    <3>2. \A i \in DOMAIN t : WatchKnown(t[i], new) BY <1>10, <2>2 DEF WatchRecentOK
    <3>3. ASSUME NEW x \in W!Item, WatchKnown(x, s)' PROVE WatchKnown(x, new)'
      BY <1>3, <3>1, <3>3 DEF WatchKnown
    <3>4. QED BY <1>3, <1>5, <3>1, <3>2, <3>3
  <2>3. QED BY <1>10, <2>1, <2>2 DEF WatchRecentOK
<1>11. QED BY <1>2, <1>4, <1>9, <1>10

\* What a poll fetches is not on the list and in the feed: it was not reported, or was
\* forgotten.
LEMMA WatchFetchFindsNew ==
  ASSUME WatchInv, WatchTypes', W!Fetch
  PROVE  WatchFreshOK' /\ WatchListOK' /\ WatchReportedOK' /\ (W!ListOutlastsFeed /\ WatchRecentOK => WatchRecentOK')
<1>1. WatchTypes /\ WatchFreshOK /\ WatchListOK /\ WatchReportedOK /\ WatchListed(watch.seen)
  BY DEF WatchInv, WatchListOK
<1>2. UNCHANGED <<published, watch, emitted, forgotten>> BY DEF W!Fetch
<1>3. PICK new \in W!NewOnes(W!Feed, watch.seen) : poll' = [at |-> "commit", fresh |-> new.fresh, seen |-> new.seen]
  BY DEF W!Fetch
<1>4. PICK t \in W!SetToSeqs(W!Feed \ W!ToSet(watch.seen)) : new = [fresh |-> t, seen |-> W!Remember(watch.seen, t)]
  BY <1>3 DEF W!NewOnes
<1> PICK s : s = watch.seen OBVIOUS
<1> PICK r : r = W!Remember(watch.seen, t) OBVIOUS
<1>5. poll'.at = "commit" /\ poll'.fresh = t /\ poll'.seen = r BY <1>3, <1>4
<1>6. /\ t \in Seq(W!Item)
      /\ \A i, j \in DOMAIN t : i # j => t[i] # t[j]
      /\ \A x : x \in W!Feed \ W!ToSet(s) <=> x \in W!ToSet(t)
  BY <1>1, WatchOrdersAre
<1>7. WatchListed(t) /\ WatchListed(r) BY <1>1, WatchRememberLists
<1>8. ASSUME NEW i \in DOMAIN t
      PROVE  emitted[t[i]] = 0 \/ t[i] \in forgotten
  <2>1. t[i] \in W!ToSet(t) /\ t[i] \in W!Item BY <1>6 DEF W!ToSet
  <2>2. t[i] \in W!Feed /\ t[i] \notin W!ToSet(s) BY <1>6, <2>1
  <2>3. t[i] + FeedSize > published BY <2>2 DEF W!Feed
  <2>4. ~(t[i] + FeedSize <= published)
    <3>1. t[i] + FeedSize \in Nat /\ published \in Nat
      BY <1>1, <2>1, WatchesAreNumbers DEF WatchTypes, W!Item
    <3>2. QED BY <2>3, <3>1
  <2>5. WatchKnown(t[i], watch.seen) => t[i] \in forgotten BY <2>2, <2>4 DEF WatchKnown
  <2>6. QED BY <1>1, <2>1, <2>5 DEF WatchReportedOK
<1>9. WatchFreshOK' BY <1>2, <1>5, <1>6, <1>8 DEF WatchFreshOK
<1>10. WatchListOK' BY <1>1, <1>2, <1>5, <1>7 DEF WatchListOK, WatchListed
<1>11. WatchReportedOK' BY <1>1, <1>2 DEF WatchReportedOK, WatchKnown
<1>12. ASSUME W!ListOutlastsFeed, WatchRecentOK PROVE WatchRecentOK'
  <2>1. WatchRecent(s) BY <1>12 DEF WatchRecentOK
  <2>2. WatchRecent(r) /\ \A x \in W!Item : WatchKnown(x, s) \/ x \in W!ToSet(t) => WatchKnown(x, r)
    BY <1>1, <1>12, <2>1, WatchRememberIs
  <2>3. WatchRecent(s)' /\ WatchRecent(r)' BY <1>2, <2>1, <2>2 DEF WatchRecent
  <2>4. \A x \in W!Item : (WatchKnown(x, s)' => WatchKnown(x, r)') /\ (x \in W!ToSet(t) => WatchKnown(x, r)')
    BY <1>2, <2>2 DEF WatchKnown
  <2>5. \A i \in DOMAIN t : t[i] \in W!Item /\ t[i] \in W!ToSet(t) BY <1>6 DEF W!ToSet
  <2>6. \A i \in DOMAIN t : WatchKnown(t[i], r)' BY <2>4, <2>5
  <2>7. QED BY <1>2, <1>5, <1>12, <2>3, <2>4, <2>6 DEF WatchRecentOK
<1>13. QED BY <1>9, <1>10, <1>11, <1>12

\* The list is committed before anything of it is reported, and what it loses is
\* forgotten, or has left the feed.
LEMMA WatchCommitMarksFirst ==
  ASSUME WatchInv, WatchTypes', W!Commit
  PROVE  WatchFreshOK' /\ WatchListOK' /\ WatchReportedOK' /\ (WatchRecentOK => WatchRecentOK')
<1>1. WatchTypes /\ WatchFreshOK /\ WatchListOK /\ WatchReportedOK BY DEF WatchInv
<1>2. UNCHANGED <<published, emitted>> /\ poll.at = "commit" BY DEF W!Commit
<1> PICK s : s = watch.seen OBVIOUS
<1> PICK r : r = watch'.seen OBVIOUS
<1> PICK t : t = poll.fresh OBVIOUS
<1> PICK c : c = poll'.fresh OBVIOUS
<1>3. r = IF t = <<>> THEN s ELSE poll.seen BY <1>1 DEF W!Commit, WatchTypes
<1>4. t \in Seq(W!Item) /\ WatchListed(s) /\ WatchListed(t) /\ WatchListed(r)
  BY <1>1, <1>2, <1>3 DEF WatchTypes, WatchListOK
<1>5. c = W!FirstOf(t, PerCheck) /\ poll'.at = "emit" BY DEF W!Commit, W!Waiting
<1>6. \A i \in DOMAIN c : i \in DOMAIN t /\ c[i] = t[i]
  BY <1>4, <1>5, WatchesAreNumbers, WatchFirstOfIs
<1>7. /\ forgotten' = forgotten \cup ((W!Feed \cap (W!ToSet(s) \cup W!ToSet(t))) \ W!ToSet(r))
      /\ forgotten \subseteq forgotten'
  BY DEF W!Commit
<1>8. ASSUME NEW x \in W!Item, x \in W!ToSet(s) \cup W!ToSet(t) PROVE WatchKnown(x, r)'
  <2>1. x <= published BY <1>4, <1>8 DEF W!ToSet, WatchListed
  <2>2. x \in Nat /\ published \in Nat /\ FeedSize \in Nat /\ x \in 1..MaxItem
    BY <1>1, WatchesAreNumbers DEF W!Item, WatchTypes
  <2>3. x \in W!Feed \/ x + FeedSize <= published BY <2>1, <2>2 DEF W!Feed
  <2>4. QED BY <1>2, <1>7, <1>8, <2>3 DEF WatchKnown
<1>9. ASSUME NEW x \in W!Item, WatchKnown(x, s) PROVE WatchKnown(x, r)'
  BY <1>2, <1>7, <1>8, <1>9 DEF WatchKnown
<1>10. WatchFreshOK'
  <2>1. \A i \in DOMAIN c : emitted[c[i]] = 0 \/ c[i] \in forgotten BY <1>1, <1>6 DEF WatchFreshOK
  <2>2. \A i, j \in DOMAIN c : i # j => c[i] # c[j] BY <1>1, <1>6 DEF WatchFreshOK
  <2>3. QED BY <1>2, <1>7, <2>1, <2>2 DEF WatchFreshOK
<1>11. \A i \in DOMAIN c : WatchKnown(c[i], r)'
  <2>1. ASSUME NEW i \in DOMAIN c PROVE c[i] \in W!Item /\ c[i] \in W!ToSet(t)
    BY <1>4, <1>6 DEF W!ToSet
  <2>2. QED BY <1>8, <2>1
<1>12. WatchListOK' BY <1>2, <1>4, <1>5, <1>11 DEF WatchListOK, WatchListed
<1>13. WatchReportedOK'
  <2>1. \A x \in W!Item : emitted'[x] \in {0, 1} \/ x \in forgotten'
    BY <1>1, <1>2, <1>7 DEF WatchReportedOK
  <2>2. \A x \in W!Item : emitted'[x] # 0 => WatchKnown(x, r)'
    BY <1>1, <1>2, <1>9 DEF WatchReportedOK
  <2>3. QED BY <2>1, <2>2 DEF WatchReportedOK
<1>14. ASSUME WatchRecentOK PROVE WatchRecentOK'
  <2>1. /\ WatchRecent(r) /\ forgotten = {}
        /\ \A x \in W!Item : WatchKnown(x, s) => WatchKnown(x, r)
        /\ \A i \in DOMAIN t : WatchKnown(t[i], r)
    <3>1. CASE t = <<>>
      <4>1. DOMAIN t = {} BY <3>1
      <4>2. QED BY <1>3, <1>14, <3>1, <4>1 DEF WatchRecentOK
    <3>2. CASE t # <<>> BY <1>2, <1>3, <1>14, <3>2 DEF WatchRecentOK
    <3>3. QED BY <3>1, <3>2
  <2>2. ASSUME NEW x \in W!ToSet(s) \cup W!ToSet(t), x \in W!Feed PROVE x \in W!ToSet(r)
    <3>1. x \in W!Item BY <1>1, <2>2, WatchesAreNumbers DEF W!Feed, W!Item, WatchTypes
    <3>2. WatchKnown(x, r)
      <4>1. CASE x \in W!ToSet(s) BY <2>1, <3>1, <4>1 DEF WatchKnown
      <4>2. CASE x \in W!ToSet(t) BY <2>1, <4>2 DEF W!ToSet
      <4>3. QED BY <4>1, <4>2
    <3>3. ~(x + FeedSize <= published)
      <4>1. x + FeedSize > published BY <2>2 DEF W!Feed
      <4>2. x \in Nat /\ published \in Nat /\ FeedSize \in Nat
        BY <1>1, <3>1, WatchesAreNumbers DEF W!Item, WatchTypes
      <4>3. QED BY <4>1, <4>2
    <3>4. QED BY <2>1, <3>2, <3>3 DEF WatchKnown
  <2>3. forgotten' = {} BY <1>7, <2>1, <2>2
  <2>4. WatchRecent(r)' BY <1>2, <2>1 DEF WatchRecent
  <2>5. QED BY <1>5, <2>3, <2>4 DEF WatchRecentOK
<1>15. QED BY <1>10, <1>12, <1>13, <1>14

\* An item in hand is reported for the first time, unless it was forgotten, and is not
\* in hand again.
LEMMA WatchEmitReportsOnce ==
  ASSUME WatchInv, WatchTypes', W!Emit
  PROVE  WatchFreshOK' /\ WatchListOK' /\ WatchReportedOK' /\ (WatchRecentOK => WatchRecentOK')
<1>1. WatchTypes /\ WatchFreshOK /\ WatchListOK /\ WatchReportedOK BY DEF WatchInv
<1>2. UNCHANGED <<published, watch, forgotten>> /\ poll.at = "emit" /\ poll.fresh # <<>>
  BY DEF W!Emit
<1> PICK t : t = poll.fresh OBVIOUS
<1> PICK c : c = poll'.fresh OBVIOUS
<1>3. t \in Seq(W!Item) /\ c = Tail(t) /\ poll'.at = "emit" BY <1>1, <1>2 DEF W!Emit, WatchTypes
<1>4. /\ Head(t) = t[1] /\ 1 \in DOMAIN t
      /\ \A i \in DOMAIN c : i + 1 \in DOMAIN t /\ c[i] = t[i + 1] /\ i \in Nat \ {0}
  <2>1. c \in Seq(W!Item) /\ Len(c) = Len(t) - 1 /\ \A i \in 1..Len(c) : c[i] = t[i + 1]
    BY <1>2, <1>3, HeadTailProperties
  <2>2. Len(t) \in Nat \ {0} /\ DOMAIN t = 1..Len(t) /\ DOMAIN c = 1..Len(c) /\ Len(c) \in Nat
    BY <1>2, <1>3, <2>1, EmptySeq
  <2>3. QED BY <2>1, <2>2
<1>5. t[1] \in W!Item /\ (emitted[t[1]] = 0 \/ t[1] \in forgotten) /\ WatchKnown(t[1], watch.seen)
  BY <1>1, <1>2, <1>3, <1>4 DEF WatchFreshOK, WatchListOK
<1>6. emitted' = [emitted EXCEPT ![t[1]] = emitted[t[1]] + 1] BY <1>4 DEF W!Emit
<1>7. ASSUME NEW i \in DOMAIN c PROVE emitted'[c[i]] = 0 \/ c[i] \in forgotten
  <2>1. c[i] = t[i + 1] /\ i + 1 \in DOMAIN t /\ i + 1 # 1 BY <1>4
  <2>2. c[i] # t[1] /\ (emitted[c[i]] = 0 \/ c[i] \in forgotten)
    BY <1>1, <1>4, <2>1 DEF WatchFreshOK
  <2>3. c[i] \in W!Item BY <1>3, <2>1
  <2>4. emitted'[c[i]] = emitted[c[i]] BY <1>1, <1>6, <2>2, <2>3 DEF WatchTypes
  <2>5. QED BY <2>2, <2>4
<1>8. ASSUME NEW i \in DOMAIN c, NEW j \in DOMAIN c, i # j PROVE c[i] # c[j]
  <2>1. i + 1 # j + 1 BY <1>4, <1>8
  <2>2. QED BY <1>1, <1>4, <2>1 DEF WatchFreshOK
<1>9. WatchFreshOK' BY <1>2, <1>7, <1>8 DEF WatchFreshOK
<1>10. \A i \in DOMAIN c : WatchKnown(c[i], watch.seen) BY <1>1, <1>2, <1>4 DEF WatchListOK
<1>11. WatchListOK' BY <1>1, <1>2, <1>3, <1>10 DEF WatchListOK, WatchListed, WatchKnown
<1>12. ASSUME NEW x \in W!Item
       PROVE  /\ emitted'[x] \in {0, 1} \/ x \in forgotten
              /\ emitted'[x] # 0 => WatchKnown(x, watch.seen)
  <2>1. CASE x = t[1]
    <3>1. emitted'[x] = emitted[x] + 1 BY <1>1, <1>6, <2>1 DEF WatchTypes
    <3>2. QED BY <1>5, <2>1, <3>1
  <2>2. CASE x # t[1]
    <3>1. emitted'[x] = emitted[x] BY <1>1, <1>6, <2>2 DEF WatchTypes
    <3>2. QED BY <1>1, <3>1 DEF WatchReportedOK
  <2>3. QED BY <2>1, <2>2
<1>13. WatchReportedOK' BY <1>2, <1>12 DEF WatchReportedOK, WatchKnown
<1>14. ASSUME WatchRecentOK PROVE WatchRecentOK' BY <1>2, <1>3, <1>14 DEF WatchRecentOK, WatchRecent
<1>15. QED BY <1>9, <1>11, <1>13, <1>14

LEMMA WatchStep == WatchInv /\ [W!Next]_W!wvars => WatchInv'
<1> SUFFICES ASSUME WatchInv, [W!Next]_W!wvars PROVE WatchInv' OBVIOUS
<1>1. WatchTypes' BY WatchTypesStay
<1>2. WatchTypes BY DEF WatchInv
<1>3. CASE UNCHANGED W!wvars BY <1>1, <1>3, WatchPollGoesOn DEF W!wvars, WatchInv
<1>4. CASE W!Expire
  <2>1. watch'.seen = watch.seen /\ UNCHANGED <<emitted, forgotten>>
    BY <1>2, <1>4 DEF W!Expire, WatchTypes
  <2>2. poll'.fresh = poll.fresh /\ poll'.seen = poll.seen /\ (poll'.at = "commit" <=> poll.at = "commit")
    BY <1>2, <1>4 DEF W!Expire, WatchTypes
  <2>3. QED BY <1>1, <2>1, <2>2, WatchPollGoesOn DEF WatchInv
<1>5. CASE W!Skip
  <2>1. watch'.seen = watch.seen /\ UNCHANGED <<emitted, forgotten>>
    BY <1>2, <1>5 DEF W!Skip, WatchTypes
  <2>2. poll'.fresh = poll.fresh /\ poll'.seen = poll.seen /\ (poll'.at = "commit" <=> poll.at = "commit")
    BY <1>2, <1>5 DEF W!Skip, WatchTypes
  <2>3. QED BY <1>1, <2>1, <2>2, WatchPollGoesOn DEF WatchInv
<1>6. CASE W!Fetch BY <1>1, <1>6, WatchFetchFindsNew DEF WatchInv
<1>7. CASE W!Raise
  <2>1. watch'.seen = watch.seen /\ UNCHANGED <<emitted, forgotten>>
    BY <1>2, <1>7 DEF W!Raise, WatchTypes
  <2>2. poll'.fresh = poll.fresh /\ poll'.seen = poll.seen /\ (poll'.at = "commit" <=> poll.at = "commit")
    BY <1>2, <1>7 DEF W!Raise, WatchTypes
  <2>3. QED BY <1>1, <2>1, <2>2, WatchPollGoesOn DEF WatchInv
<1>8. CASE W!Commit BY <1>1, <1>8, WatchCommitMarksFirst DEF WatchInv
<1>9. CASE W!Emit BY <1>1, <1>9, WatchEmitReportsOnce DEF WatchInv
<1>10. CASE W!Finish
  <2>1. watch'.seen = watch.seen /\ UNCHANGED <<emitted, forgotten>>
    BY <1>2, <1>10 DEF W!Finish, WatchTypes
  <2>2. poll'.fresh = poll.fresh /\ poll'.seen = poll.seen /\ (poll'.at = "commit" <=> poll.at = "commit")
    BY <1>2, <1>10 DEF W!Finish, WatchTypes
  <2>3. QED BY <1>1, <2>1, <2>2, WatchPollGoesOn DEF WatchInv
<1>11. CASE W!Cut
  <2>1. watch'.seen = watch.seen /\ UNCHANGED <<emitted, forgotten>>
    BY <1>2, <1>11 DEF W!Cut, WatchTypes
  <2>2. poll'.fresh = <<>> /\ poll'.at # "commit" BY <1>11 DEF W!Cut, W!Waiting
  <2>3. QED BY <1>1, <2>1, <2>2, WatchNothingInHand DEF WatchInv
<1>12. CASE W!NextTick
  <2>1. watch'.seen = watch.seen /\ UNCHANGED <<emitted, forgotten>>
    BY <1>2, <1>12 DEF W!NextTick, WatchTypes
  <2>2. poll'.fresh = <<>> /\ poll'.at # "commit" BY <1>12 DEF W!NextTick, W!Waiting
  <2>3. QED BY <1>1, <2>1, <2>2, WatchNothingInHand DEF WatchInv
<1>13. CASE W!Publish
  <2>1. watch'.seen = watch.seen /\ UNCHANGED <<emitted, forgotten>>
    BY <1>2, <1>13 DEF W!Publish, WatchTypes
  <2>2. poll'.fresh = poll.fresh /\ poll'.seen = poll.seen /\ (poll'.at = "commit" <=> poll.at = "commit")
    BY <1>2, <1>13 DEF W!Publish, WatchTypes
  <2>3. QED BY <1>1, <2>1, <2>2, WatchPollGoesOn DEF WatchInv
<1>14. CASE W!Unwatch
  <2>1. watch'.seen = watch.seen /\ UNCHANGED <<emitted, forgotten>>
    BY <1>2, <1>14 DEF W!Unwatch, WatchTypes
  <2>2. poll'.fresh = poll.fresh /\ poll'.seen = poll.seen /\ (poll'.at = "commit" <=> poll.at = "commit")
    BY <1>2, <1>14 DEF W!Unwatch, WatchTypes
  <2>3. QED BY <1>1, <2>1, <2>2, WatchPollGoesOn DEF WatchInv
<1>15. QED
  BY <1>3, <1>4, <1>5, <1>6, <1>7, <1>8, <1>9, <1>10, <1>11, <1>12, <1>13, <1>14 DEF W!Next

LEMMA WatchHolds == WatchInv => W!ItemReportedOnce /\ W!NothingForgotten
<1> SUFFICES ASSUME WatchInv PROVE W!ItemReportedOnce /\ W!NothingForgotten OBVIOUS
<1>1. W!ItemReportedOnce BY DEF WatchInv, WatchReportedOK, W!ItemReportedOnce
<1>2. W!NothingForgotten BY DEF WatchInv, WatchRecentOK, W!NothingForgotten
<1>3. QED BY <1>1, <1>2

\* ItemReportedOnce, whatever the feed's order and length, and however ticks are cut short
\* and sources fail: an item becomes a second event only if a later list of seen keys no
\* longer held its key while the feed still showed it (_dedupe, poll_due_intents).
THEOREM ItemsAreReportedOnce == Spec => []ItemReportedOnce
<1>1. Init => WatchInv
  BY WatchInit DEF Init
<1>2. WatchInv /\ [Next]_vars => WatchInv'
  BY WatchStep, OnePartMoves
<1>3. WatchInv => ItemReportedOnce
  BY WatchHolds DEF ItemReportedOnce
<1>4. QED
  BY <1>1, <1>2, <1>3, PTL DEF Spec

\* A feed that shows at most about half as many items as the list holds keys
\* (ListOutlastsFeed) loses no key it still shows, so that of such a feed no item is
\* reported twice at all (the cap of the seen list, sources.py).
THEOREM ShortFeedsAreKept == W!ListOutlastsFeed => (Spec => [](W!NothingForgotten /\ (\A i \in W!Item : emitted[i] <= 1)))
<1> SUFFICES ASSUME W!ListOutlastsFeed PROVE Spec => [](W!NothingForgotten /\ (\A i \in W!Item : emitted[i] <= 1))
  OBVIOUS
<1>1. Init => WatchInv
  BY WatchInit DEF Init
<1>2. WatchInv /\ [Next]_vars => WatchInv'
  BY WatchStep, OnePartMoves
<1>3. WatchInv => W!NothingForgotten /\ (\A i \in W!Item : emitted[i] <= 1)
  BY WatchHolds DEF W!NothingForgotten, W!ItemReportedOnce
<1>4. QED
  BY <1>1, <1>2, <1>3, PTL DEF Spec


-----------------------------------------------------------------------------
(* Composite patterns (Patterns) *)

PatternInstances == [state : {"armed", "matched", "expired"}, by : P!Event \cup {0}]
PatternWorks == [at : {"idle", "advance", "emit", "decide"}, e : P!Event \cup {0}, armed : Nat]
PatternExpiries == [at : {"idle", "write", "emit"}, due : SUBSET Nat]

PatternTypes ==
  /\ kind \in {"sequence", "conjunction", "absence"}
  /\ instance \in Seq(PatternInstances) /\ derived \in Seq(Nat)
  /\ work \in [Replica -> PatternWorks] /\ expiry \in [Replica -> PatternExpiries]

\* What was derived of an instance.
PatternMade(i) == {n \in DOMAIN derived : derived[n] = i}

\* Everybody has read an instance there is.
PatternKnownInstances ==
  /\ \A n \in DOMAIN derived : derived[n] \in DOMAIN instance
  /\ \A d \in Replica : work[d].at # "idle" => work[d].armed = 0 \/ work[d].armed \in DOMAIN instance
  /\ \A d \in Replica : expiry[d].due \subseteq DOMAIN instance

\* What is armed has given rise to nothing, and nobody is about to.
PatternArmedIsFresh ==
  \A i \in P!Armed :
    /\ PatternMade(i) = {}
    /\ \A d \in Replica :
         /\ work[d].at = "emit" => work[d].armed # i
         /\ expiry[d].at = "emit" => i \notin expiry[d].due

\* An absence is derived by the ticks, anything else by the drains.
PatternWhoDerives ==
  /\ kind = "absence" => \A d \in Replica : work[d].at # "emit"
  /\ \A d \in Replica : expiry[d].at = "emit" => kind = "absence"
  /\ \A d \in Replica : work[d].at = "emit" => work[d].armed # 0
  /\ \A d \in Replica : expiry[d].at = "idle" => expiry[d].due = {}

\* An event is paid for by one who read the instance armed, and where no two did so
\* together it is the only one.
PatternCounted(i) ==
  /\ Cardinality(PatternMade(i)) + Cardinality(P!Holders(i)) <= Cardinality(Replica)
  /\ i \notin met =>
       /\ \A c, d \in P!Holders(i) : c = d
       /\ PatternMade(i) # {} => P!Holders(i) = {}
       /\ Cardinality(PatternMade(i)) <= 1

PatternInv ==
  /\ PatternTypes /\ PatternKnownInstances /\ PatternArmedIsFresh /\ PatternWhoDerives
  /\ \A i \in DOMAIN instance : PatternCounted(i)

LEMMA PatternFinite ==
  ASSUME derived \in Seq(Nat)
  PROVE  \A i : /\ IsFiniteSet(PatternMade(i)) /\ Cardinality(PatternMade(i)) \in Nat
               /\ IsFiniteSet(P!Holders(i)) /\ Cardinality(P!Holders(i)) \in Nat
               /\ Cardinality(Replica) \in Nat /\ Cardinality(P!Holders(i)) <= Cardinality(Replica)
<1>1. DOMAIN derived = 1..Len(derived) /\ Len(derived) \in Nat OBVIOUS
<1>2. IsFiniteSet(DOMAIN derived) BY <1>1, FS_Interval
<1>3. \A i : PatternMade(i) \subseteq DOMAIN derived /\ P!Holders(i) \subseteq Replica
  BY DEF PatternMade, P!Holders
<1>4. QED BY <1>2, <1>3, ReplicasAreFinite, FS_Subset, FS_CardinalityType

LEMMA PatternInit == P!Init => PatternInv
<1> SUFFICES ASSUME P!Init PROVE PatternInv
  OBVIOUS
<1>1. kind \in {"sequence", "conjunction", "absence"} /\ instance = <<>> /\ derived = <<>>
  BY DEF P!Init
<1>2. DOMAIN instance = {} /\ DOMAIN derived = {} BY <1>1
<1>3. work \in [Replica -> PatternWorks] BY DEF P!Init, P!NoWork, PatternWorks
<1>4. expiry \in [Replica -> PatternExpiries] BY DEF P!Init, P!NoExpiry, PatternExpiries
<1>5. PatternTypes BY <1>1, <1>3, <1>4 DEF PatternTypes
<1>6. PatternKnownInstances BY <1>2 DEF P!Init, PatternKnownInstances, P!NoWork, P!NoExpiry
<1>7. PatternWhoDerives BY DEF P!Init, PatternWhoDerives, P!NoWork, P!NoExpiry
<1>8. PatternArmedIsFresh BY <1>2 DEF PatternArmedIsFresh, P!Armed
<1>9. QED BY <1>2, <1>5, <1>6, <1>7, <1>8 DEF PatternInv

LEMMA PatternStep == PatternInv /\ [P!Next]_P!pvars => PatternInv'
<1> SUFFICES ASSUME PatternInv, [P!Next]_P!pvars PROVE PatternInv'
  OBVIOUS
<1>1. /\ kind \in {"sequence", "conjunction", "absence"} /\ instance \in Seq(PatternInstances) /\ derived \in Seq(Nat)
      /\ work \in [Replica -> PatternWorks] /\ expiry \in [Replica -> PatternExpiries]
      /\ PatternKnownInstances /\ PatternArmedIsFresh /\ PatternWhoDerives /\ \A i \in DOMAIN instance : PatternCounted(i)
  BY DEF PatternInv, PatternTypes
<1>2. kind' = kind BY DEF P!Next, P!pvars
<1>3. DOMAIN instance = 1..Len(instance) /\ Len(instance) \in Nat /\ \A i \in DOMAIN instance : instance[i] \in PatternInstances
  BY <1>1
<1>4. 0 \notin DOMAIN instance BY <1>3
\* nothing is derived
<1>5. ASSUME UNCHANGED derived, instance' \in Seq(PatternInstances), work' \in [Replica -> PatternWorks], expiry' \in [Replica -> PatternExpiries],
             PatternKnownInstances', PatternArmedIsFresh', PatternWhoDerives', met \subseteq met',
             \A i \in DOMAIN instance' :
               \/ PatternMade(i) = {} /\ (i \notin met' => \A c, d \in P!Holders(i)' : c = d)
               \/ i \in DOMAIN instance /\ P!Holders(i)' \subseteq P!Holders(i)
      PROVE  PatternInv'
  <2>1. PatternTypes' BY <1>1, <1>2, <1>5 DEF PatternTypes
  <2>2. ASSUME NEW i \in DOMAIN instance' PROVE PatternCounted(i)'
    <3>1. PatternMade(i)' = PatternMade(i) BY <1>5 DEF PatternMade
    <3>2. /\ IsFiniteSet(P!Holders(i)) /\ Cardinality(P!Holders(i)) \in Nat /\ Cardinality(Replica) \in Nat
          /\ Cardinality(PatternMade(i)) \in Nat
      BY <1>1, PatternFinite
    <3>3. P!Holders(i)' \subseteq Replica BY DEF P!Holders
    <3>4. Cardinality(P!Holders(i)') \in Nat /\ Cardinality(P!Holders(i)') <= Cardinality(Replica)
      BY <3>3, ReplicasAreFinite, FS_Subset, FS_CardinalityType
    <3>5. CASE PatternMade(i) = {} /\ (i \notin met' => \A c, d \in P!Holders(i)' : c = d)
      <4>1. Cardinality(PatternMade(i)') = 0 BY <3>1, <3>5, FS_EmptySet
      <4>2. QED BY <3>1, <3>2, <3>4, <3>5, <4>1 DEF PatternCounted
    <3>6. CASE i \in DOMAIN instance /\ P!Holders(i)' \subseteq P!Holders(i)
      <4>1. PatternCounted(i) BY <1>1, <3>6
      <4>2. Cardinality(P!Holders(i)') <= Cardinality(P!Holders(i)) BY <3>2, <3>6, FS_Subset
      <4>3. Cardinality(PatternMade(i)') + Cardinality(P!Holders(i)') <= Cardinality(Replica)
        BY <3>1, <3>2, <3>4, <4>1, <4>2 DEF PatternCounted
      <4>4. i \notin met' => i \notin met BY <1>5
      <4>5. QED BY <3>1, <3>6, <4>1, <4>3, <4>4 DEF PatternCounted
    <3>7. QED BY <1>5, <3>5, <3>6
  <2>3. QED BY <1>5, <2>1, <2>2 DEF PatternInv
<1>6. ASSUME UNCHANGED <<instance, work, expiry, derived, met>> PROVE PatternInv'
  <2>1. PatternKnownInstances' BY <1>1, <1>6 DEF PatternKnownInstances
  <2>2. PatternArmedIsFresh' BY <1>1, <1>6 DEF PatternArmedIsFresh, P!Armed, PatternMade
  <2>3. PatternWhoDerives' BY <1>1, <1>2, <1>6 DEF PatternWhoDerives
  <2>4. \A i : P!Holders(i)' = P!Holders(i) BY <1>2, <1>6 DEF P!Holders
  <2>5. QED BY <1>1, <1>5, <1>6, <2>1, <2>2, <2>3, <2>4
<1>7. ASSUME NEW d \in Replica, NEW x \in PatternWorks, work' = [work EXCEPT ![d] = x]
      PROVE  work' \in [Replica -> PatternWorks] /\ \A c \in Replica : work'[c] = IF c = d THEN x ELSE work[c]
  BY <1>1, <1>7
<1>8. ASSUME NEW d \in Replica, NEW x \in PatternExpiries, expiry' = [expiry EXCEPT ![d] = x]
      PROVE  expiry' \in [Replica -> PatternExpiries] /\ \A c \in Replica : expiry'[c] = IF c = d THEN x ELSE expiry[c]
  BY <1>1, <1>8
<1>9. P!NoWork \in PatternWorks /\ P!NoWork.at = "idle" /\ P!NoExpiry \in PatternExpiries /\ P!NoExpiry.at = "idle" /\ P!NoExpiry.due = {}
  BY DEF P!NoWork, PatternWorks, P!NoExpiry, PatternExpiries
\* who reads what is armed is met by whoever holds it already
<1>30. ASSUME NEW d \in Replica, P!Meets, \A i : P!Holders(i)' \subseteq P!Holders(i) \cup {d}
       PROVE  met \subseteq met' /\ \A i \in P!Armed : i \notin met' => \A c, e \in P!Holders(i)' : c = e
  BY <1>30 DEF P!Meets
<1>10. ASSUME NEW d \in Replica, NEW e \in P!Event, P!Take(d, e) PROVE PatternInv'
  <2> DEFINE i == IF P!Armed = {} THEN 0 ELSE CHOOSE i \in P!Armed : TRUE
             x == [at |-> "advance", e |-> e, armed |-> i]
  <2>1. work' = [work EXCEPT ![d] = x] /\ UNCHANGED <<instance, expiry, derived>>
    BY <1>10 DEF P!Take
  <2>2. i = 0 \/ i \in P!Armed OBVIOUS
  <2> HIDE DEF i
  <2>3. i \in Nat BY <1>3, <2>2 DEF P!Armed
  <2>4. PICK k \in Nat : k = i BY <2>3
  <2>5. x \in PatternWorks /\ x.at = "advance" /\ x.armed = k BY <2>3, <2>4 DEF PatternWorks
  <2> HIDE DEF x
  <2>6. work' \in [Replica -> PatternWorks] /\ \A c \in Replica : work'[c] = IF c = d THEN x ELSE work[c]
    BY <1>7, <2>1, <2>5
  <2>7. P!Armed \subseteq DOMAIN instance BY DEF P!Armed
  <2>8. PatternKnownInstances' BY <1>1, <2>1, <2>2, <2>4, <2>5, <2>6, <2>7 DEF PatternKnownInstances
  <2>9. PatternArmedIsFresh' BY <1>1, <2>1, <2>5, <2>6 DEF PatternArmedIsFresh, P!Armed, PatternMade
  <2>10. PatternWhoDerives' BY <1>1, <1>2, <2>1, <2>5, <2>6 DEF PatternWhoDerives
  <2>11. CASE kind = "absence"
    <3>1. \A j : P!Holders(j)' = P!Holders(j) BY <1>2, <2>1, <2>11 DEF P!Holders
    <3>2. met' = met BY <1>10, <2>11 DEF P!Take
    <3>3. QED BY <1>1, <1>5, <2>1, <2>6, <2>8, <2>9, <2>10, <3>1, <3>2
  <2>12. CASE kind # "absence"
    <3>1. P!Meets BY <1>10, <2>12 DEF P!Take
    <3>2. \A j : P!Holders(j)' \subseteq P!Holders(j) \cup {d} BY <1>2, <2>6, <2>12 DEF P!Holders
    <3>3. \A j \in DOMAIN instance : j # k => P!Holders(j)' \subseteq P!Holders(j)
      BY <1>2, <2>5, <2>6, <2>12 DEF P!Holders
    <3>4. met \subseteq met' /\ \A j \in P!Armed : j \notin met' => \A c, b \in P!Holders(j)' : c = b
      BY <1>30, <3>1, <3>2
    <3>5. ASSUME NEW j \in DOMAIN instance
          PROVE  \/ PatternMade(j) = {} /\ (j \notin met' => \A c, b \in P!Holders(j)' : c = b)
                 \/ P!Holders(j)' \subseteq P!Holders(j)
      <4>1. CASE j \in P!Armed BY <1>1, <3>4, <4>1 DEF PatternArmedIsFresh
      <4>2. CASE j \notin P!Armed
        <5>1. j # k BY <1>4, <2>2, <2>4, <4>2
        <5>2. QED BY <3>3, <5>1
      <4>3. QED BY <4>1, <4>2
    <3>6. QED BY <1>1, <1>5, <2>1, <2>6, <2>8, <2>9, <2>10, <3>4, <3>5
  <2>13. QED BY <2>11, <2>12
<1>11. ASSUME NEW d \in Replica, work' = [work EXCEPT ![d] = P!NoWork], UNCHANGED <<instance, expiry, derived, met>>
       PROVE  PatternInv'
  <2>1. work' \in [Replica -> PatternWorks] /\ \A c \in Replica : work'[c] = IF c = d THEN P!NoWork ELSE work[c]
    BY <1>7, <1>9, <1>11
  <2>2. PatternKnownInstances' BY <1>1, <1>9, <1>11, <2>1 DEF PatternKnownInstances
  <2>3. PatternArmedIsFresh'
    BY <1>1, <1>9, <1>11, <2>1 DEF PatternArmedIsFresh, P!Armed, PatternMade
  <2>4. PatternWhoDerives' BY <1>1, <1>2, <1>9, <1>11, <2>1 DEF PatternWhoDerives
  <2>5. \A i : P!Holders(i)' \subseteq P!Holders(i) BY <1>2, <1>9, <1>11, <2>1 DEF P!Holders
  <2>6. QED BY <1>1, <1>5, <1>11, <2>1, <2>2, <2>3, <2>4, <2>5
<1>12. ASSUME NEW d \in Replica, P!Decide(d) \/ P!CutDrain(d) PROVE PatternInv'
  <2>1. work' = [work EXCEPT ![d] = P!NoWork] /\ UNCHANGED <<instance, expiry, derived, met>>
    BY <1>12 DEF P!Decide, P!CutDrain, P!Done
  <2>2. QED BY <1>11, <2>1
<1>13. ASSUME NEW d \in Replica, P!Arm(d) PROVE PatternInv'
  <2>1. work' = [work EXCEPT ![d] = P!NoWork] /\ UNCHANGED <<expiry, derived, met>>
    BY <1>13 DEF P!Arm, P!Done
  <2>2. work' \in [Replica -> PatternWorks] /\ \A c \in Replica : work'[c] = IF c = d THEN P!NoWork ELSE work[c]
    BY <1>7, <1>9, <2>1
  <2>3. CASE UNCHANGED instance BY <1>11, <2>1, <2>3
  <2>4. CASE P!Armed = {}
    <3> DEFINE new == [state |-> "armed", by |-> work[d].e]
    <3> PICK m \in Nat : m = Len(instance) + 1 BY <1>3
    <3>1. instance' = Append(instance, new) /\ work[d].at = "advance" BY <1>13, <2>4 DEF P!Arm
    <3>2. CASE new \in PatternInstances
      <4> HIDE DEF new
      <4>1. /\ instance' \in Seq(PatternInstances) /\ DOMAIN instance' = DOMAIN instance \cup {m} /\ m \notin DOMAIN instance
            /\ m # 0 /\ \A i \in DOMAIN instance : instance'[i] = instance[i]
        BY <1>1, <1>3, <3>1, <3>2
      <4>2. \A i : PatternMade(i)' = PatternMade(i) BY <2>1 DEF PatternMade
      <4>3. PatternMade(m) = {} BY <1>1, <4>1 DEF PatternMade, PatternKnownInstances
      <4>4. PatternKnownInstances' BY <1>1, <1>9, <2>1, <2>2, <4>1 DEF PatternKnownInstances
      <4>5. P!Armed' \subseteq {m} BY <2>4, <4>1 DEF P!Armed
      <4>6. PatternArmedIsFresh'
        <5>1. PatternMade(m)' = {} BY <4>2, <4>3
        <5>2. \A c \in Replica : work'[c].at = "emit" => work'[c].armed # m
          BY <1>1, <1>9, <2>2, <4>1 DEF PatternKnownInstances
        <5>3. \A c \in Replica : m \notin expiry'[c].due
          BY <1>1, <2>1, <4>1 DEF PatternKnownInstances
        <5>4. \A i \in P!Armed' : i = m BY <4>5
        <5>5. QED BY <5>1, <5>2, <5>3, <5>4 DEF PatternArmedIsFresh
      <4>7. PatternWhoDerives' BY <1>1, <1>2, <1>9, <2>1, <2>2, <4>2 DEF PatternWhoDerives
      <4>8. \A i : P!Holders(i)' \subseteq P!Holders(i) BY <1>2, <1>9, <2>1, <2>2 DEF P!Holders
      <4>10. P!Holders(m) = {} BY <1>1, <1>3, <4>1 DEF P!Holders, PatternKnownInstances
      <4>9. QED BY <1>1, <1>5, <2>1, <2>2, <4>1, <4>3, <4>4, <4>6, <4>7, <4>8, <4>10
    <3>3. new \in PatternInstances
      BY <1>1, <3>1 DEF PatternInstances, PatternWorks, PatternKnownInstances
    <3>4. QED BY <3>2, <3>3
  <2>5. QED BY <1>13, <2>3, <2>4 DEF P!Arm
<1>14. ASSUME NEW d \in Replica, P!Complete(d) PROVE PatternInv'
  <2> DEFINE to == IF kind = "absence" \/ d \in cooling THEN "decide" ELSE "emit"
             state == IF kind = "absence" THEN "expired" ELSE "matched"
             y == [work[d] EXCEPT !.at = to]
  <2>1. /\ work[d].at = "advance" /\ work[d].armed # 0 /\ UNCHANGED <<expiry, derived, met>>
        /\ work' = [work EXCEPT ![d] = y] /\ instance' = [instance EXCEPT ![work[d].armed].state = state]
    BY <1>14 DEF P!Complete, P!Kept
  <2>2. PICK k \in Nat : k = work[d].armed BY <1>1 DEF PatternWorks
  <2>3. k \in DOMAIN instance BY <1>1, <2>1, <2>2 DEF PatternKnownInstances
  <2>4. work[d] \in PatternWorks BY <1>1
  <2>5. y = [at |-> to, e |-> work[d].e, armed |-> work[d].armed] BY <2>4 DEF PatternWorks
  <2>6. to \in {"emit", "decide"} /\ (kind = "absence" => to # "emit") /\ state \in {"expired", "matched"}
    OBVIOUS
  <2> HIDE DEF to, state
  <2>7. y \in PatternWorks BY <2>4, <2>5, <2>6 DEF PatternWorks
  <2>8. PICK x \in PatternWorks : x = y BY <2>7
  <2>9. x.at = to /\ x.armed = k /\ work' = [work EXCEPT ![d] = x] BY <2>1, <2>2, <2>5, <2>8
  <2> HIDE DEF y
  <2>10. work' \in [Replica -> PatternWorks] /\ \A c \in Replica : work'[c] = IF c = d THEN x ELSE work[c]
    BY <1>7, <2>9
  <2> DEFINE new == [instance[k] EXCEPT !.state = state]
  <2>11. new \in PatternInstances /\ new.state = state BY <1>3, <2>3, <2>6 DEF PatternInstances
  <2>12. instance' = [instance EXCEPT ![k] = new] BY <2>1, <2>2
  <2> HIDE DEF new
  <2>13. /\ instance' \in Seq(PatternInstances) /\ DOMAIN instance' = DOMAIN instance
         /\ \A i \in DOMAIN instance : instance'[i] = (IF i = k THEN new ELSE instance[i])
    BY <1>1, <1>3, <2>3, <2>11, <2>12, ExceptSeq
  <2>14. k \notin P!Armed' /\ P!Armed' \subseteq P!Armed BY <2>6, <2>11, <2>13 DEF P!Armed
  <2>15. \A i : PatternMade(i)' = PatternMade(i) BY <2>1 DEF PatternMade
  <2>16. PatternKnownInstances' BY <1>1, <2>1, <2>3, <2>9, <2>10, <2>13 DEF PatternKnownInstances
  <2>17. PatternArmedIsFresh'
    <3>1. ASSUME NEW i \in P!Armed'
          PROVE  /\ PatternMade(i)' = {}
                 /\ \A c \in Replica : work'[c].at = "emit" => work'[c].armed # i
                 /\ \A c \in Replica : expiry'[c].at = "emit" => i \notin expiry'[c].due
      <4>1. i \in P!Armed /\ i # k BY <2>14, <3>1
      <4>2. QED BY <1>1, <2>1, <2>9, <2>10, <2>15, <4>1 DEF PatternArmedIsFresh
    <3>2. QED BY <3>1 DEF PatternArmedIsFresh
  <2>18. PatternWhoDerives'
    BY <1>1, <1>2, <2>1, <2>2, <2>6, <2>9, <2>10, <2>15 DEF PatternWhoDerives
  <2>19. \A i : P!Holders(i)' \subseteq P!Holders(i) BY <1>2, <2>1, <2>2, <2>9, <2>10 DEF P!Holders
  <2>20. QED BY <1>1, <1>5, <2>1, <2>10, <2>13, <2>16, <2>17, <2>18, <2>19
\* an event is derived of instance k
<1>15. ASSUME NEW k \in DOMAIN instance, derived' = Append(derived, k)
       PROVE  /\ derived' \in Seq(Nat) /\ \A i : i # k => PatternMade(i)' = PatternMade(i)
              /\ Cardinality(PatternMade(k)') = Cardinality(PatternMade(k)) + 1
              /\ \A j \in DOMAIN derived' : derived'[j] = k \/ (j \in DOMAIN derived /\ derived'[j] = derived[j])
  <2> DEFINE m == Len(derived) + 1
  <2>1. k \in Nat BY <1>3
  <2>2. /\ derived' \in Seq(Nat) /\ DOMAIN derived' = DOMAIN derived \cup {m} /\ m \notin DOMAIN derived
        /\ derived'[m] = k /\ \A j \in DOMAIN derived : derived'[j] = derived[j]
    BY <1>1, <1>15, <2>1
  <2> HIDE DEF m
  <2>3. \A i : i # k => PatternMade(i)' = PatternMade(i) BY <2>2 DEF PatternMade
  <2>4. PatternMade(k)' = PatternMade(k) \cup {m} /\ m \notin PatternMade(k) BY <2>2 DEF PatternMade
  <2>5. Cardinality(PatternMade(k)') = Cardinality(PatternMade(k)) + 1
    <3> DEFINE es == PatternMade(k)
    <3>1. IsFiniteSet(es) /\ m \notin es BY <1>1, <2>4, PatternFinite
    <3> HIDE DEF es
    <3>2. Cardinality(es \cup {m}) = Cardinality(es) + 1 BY <3>1, FS_AddElement
    <3>3. QED BY <2>4, <3>2 DEF es
  <2>6. QED BY <2>2, <2>3, <2>5
\* it is paid for by d
<1>31. ASSUME NEW d \in Replica, NEW k \in DOMAIN instance, derived' = Append(derived, k), UNCHANGED <<instance, met>>,
              \A i : P!Holders(i)' \subseteq P!Holders(i), d \in P!Holders(k), d \notin P!Holders(k)',
              NEW i \in DOMAIN instance
       PROVE  PatternCounted(i)'
  <2>1. PatternCounted(i) /\ PatternCounted(k) BY <1>1
  <2>2. \A j : /\ IsFiniteSet(P!Holders(j)) /\ Cardinality(P!Holders(j)) \in Nat /\ Cardinality(Replica) \in Nat
               /\ Cardinality(PatternMade(j)) \in Nat
    BY <1>1, PatternFinite
  <2>3. \A j : Cardinality(P!Holders(j)') \in Nat /\ Cardinality(P!Holders(j)') <= Cardinality(P!Holders(j))
    <3> TAKE j
    <3>1. P!Holders(j)' \subseteq P!Holders(j) BY <1>31
    <3>2. QED BY <2>2, <3>1, FS_Subset, FS_CardinalityType
  <2>4. CASE i # k
    <3>1. PatternMade(i)' = PatternMade(i) BY <1>15, <1>31, <2>4
    <3>2. Cardinality(PatternMade(i)') + Cardinality(P!Holders(i)') <= Cardinality(Replica)
      BY <2>1, <2>2, <2>3, <3>1 DEF PatternCounted
    <3>3. P!Holders(i)' \subseteq P!Holders(i) BY <1>31
    <3>4. QED BY <1>31, <2>1, <3>1, <3>2, <3>3 DEF PatternCounted
  <2>5. CASE i = k
    <3>1. Cardinality(PatternMade(k)') = Cardinality(PatternMade(k)) + 1 BY <1>15, <1>31
    <3> DEFINE rest == P!Holders(k) \ {d}
    <3>2. P!Holders(k)' \subseteq rest BY <1>31
    <3>3. IsFiniteSet(rest) /\ Cardinality(rest) = Cardinality(P!Holders(k)) - 1
      BY <1>31, <2>2, FS_RemoveElement
    <3> HIDE DEF rest
    <3>4. Cardinality(P!Holders(k)') <= Cardinality(rest) BY <3>2, <3>3, FS_Subset
    <3>5. Cardinality(PatternMade(k)') + Cardinality(P!Holders(k)') <= Cardinality(Replica)
      BY <2>1, <2>2, <2>3, <3>1, <3>3, <3>4 DEF PatternCounted
    <3>6. ASSUME k \notin met' PROVE P!Holders(k)' = {} /\ Cardinality(PatternMade(k)') <= 1
      <4>1. k \notin met BY <1>31, <3>6
      <4>2. P!Holders(k)' = {} BY <1>31, <2>1, <4>1 DEF PatternCounted
      <4>3. PatternMade(k) = {} BY <1>31, <2>1, <4>1 DEF PatternCounted
      <4>4. Cardinality(PatternMade(k)) = 0 BY <4>3, FS_EmptySet
      <4>5. QED BY <3>1, <4>2, <4>4
    <3>7. QED BY <2>5, <3>5, <3>6 DEF PatternCounted
  <2>6. QED BY <2>4, <2>5
<1>16. ASSUME NEW d \in Replica, P!EmitMatch(d) PROVE PatternInv'
  <2> DEFINE y == [work[d] EXCEPT !.at = "decide"]
  <2>1. /\ work[d].at = "emit" /\ UNCHANGED <<instance, expiry, met>> /\ work' = [work EXCEPT ![d] = y]
        /\ derived' = Append(derived, work[d].armed)
    BY <1>16 DEF P!EmitMatch
  <2>2. kind # "absence" BY <1>1, <2>1 DEF PatternWhoDerives
  <2>3. PICK k \in Nat : k = work[d].armed BY <1>1 DEF PatternWorks
  <2>4. k \in DOMAIN instance /\ k \notin P!Armed
    BY <1>1, <2>1, <2>3 DEF PatternKnownInstances, PatternWhoDerives, PatternArmedIsFresh
  <2>5. work[d] \in PatternWorks BY <1>1
  <2>6. y \in PatternWorks /\ y.at = "decide" /\ y.armed = k BY <2>3, <2>5 DEF PatternWorks
  <2>7. PICK x \in PatternWorks : x = y BY <2>6
  <2>8. x.at = "decide" /\ x.armed = k /\ work' = [work EXCEPT ![d] = x] BY <2>1, <2>6, <2>7
  <2> HIDE DEF y
  <2>9. work' \in [Replica -> PatternWorks] /\ \A c \in Replica : work'[c] = IF c = d THEN x ELSE work[c]
    BY <1>7, <2>8
  <2>10. /\ derived' \in Seq(Nat) /\ \A i : i # k => PatternMade(i)' = PatternMade(i)
         /\ Cardinality(PatternMade(k)') = Cardinality(PatternMade(k)) + 1
         /\ \A j \in DOMAIN derived' : derived'[j] = k \/ (j \in DOMAIN derived /\ derived'[j] = derived[j])
    <3>1. derived' = Append(derived, k) BY <2>1, <2>3
    <3>2. QED BY <1>15, <2>4, <3>1
  <2>11. PatternTypes' BY <1>1, <1>2, <2>1, <2>9, <2>10 DEF PatternTypes
  <2>12. PatternKnownInstances' BY <1>1, <2>1, <2>4, <2>8, <2>9, <2>10 DEF PatternKnownInstances
  <2>13. P!Armed' = P!Armed BY <2>1 DEF P!Armed
  <2>14. PatternArmedIsFresh'
    <3>1. ASSUME NEW i \in P!Armed
          PROVE  /\ PatternMade(i)' = {}
                 /\ \A c \in Replica : work'[c].at = "emit" => work'[c].armed # i
                 /\ \A c \in Replica : expiry'[c].at = "emit" => i \notin expiry'[c].due
      <4>1. i # k BY <2>4, <3>1
      <4>2. QED BY <1>1, <2>1, <2>8, <2>9, <2>10, <3>1, <4>1 DEF PatternArmedIsFresh
    <3>2. QED BY <2>13, <3>1 DEF PatternArmedIsFresh
  <2>15. PatternWhoDerives' BY <1>1, <1>2, <2>1, <2>2, <2>8, <2>9 DEF PatternWhoDerives
  <2>16. ASSUME NEW i \in DOMAIN instance' PROVE PatternCounted(i)'
    <3>1. \A j : P!Holders(j)' \subseteq P!Holders(j) BY <1>2, <2>1, <2>3, <2>8, <2>9 DEF P!Holders
    <3>2. d \in P!Holders(k) /\ d \notin P!Holders(k)'
      BY <1>2, <2>1, <2>2, <2>3, <2>8, <2>9 DEF P!Holders
    <3>3. derived' = Append(derived, k) BY <2>1, <2>3
    <3>4. i \in DOMAIN instance BY <2>1, <2>16
    <3>5. QED BY <1>31, <2>1, <2>4, <3>1, <3>2, <3>3, <3>4
  <2>17. QED BY <2>11, <2>12, <2>14, <2>15, <2>16 DEF PatternInv
\* a tick goes to x
<1>17. ASSUME NEW d \in Replica, NEW x \in PatternExpiries, expiry' = [expiry EXCEPT ![d] = x], x.at # "emit",
              x.due \subseteq DOMAIN instance, x.at = "idle" => x.due = {}, UNCHANGED <<instance, work, derived>>
       PROVE  /\ expiry' \in [Replica -> PatternExpiries] /\ \A c \in Replica : expiry'[c] = IF c = d THEN x ELSE expiry[c]
              /\ PatternKnownInstances' /\ PatternArmedIsFresh' /\ PatternWhoDerives'
  <2>1. expiry' \in [Replica -> PatternExpiries] /\ \A c \in Replica : expiry'[c] = IF c = d THEN x ELSE expiry[c]
    BY <1>8, <1>17
  <2>2. PatternKnownInstances' BY <1>1, <1>17, <2>1 DEF PatternKnownInstances
  <2>3. \A i : PatternMade(i)' = PatternMade(i) BY <1>17 DEF PatternMade
  <2>4. P!Armed' = P!Armed BY <1>17 DEF P!Armed
  <2>5. PatternArmedIsFresh' BY <1>1, <1>17, <2>1, <2>3, <2>4 DEF PatternArmedIsFresh
  <2>6. PatternWhoDerives' BY <1>1, <1>2, <1>17, <2>1 DEF PatternWhoDerives
  <2>7. QED BY <2>1, <2>2, <2>5, <2>6
<1>18. ASSUME NEW d \in Replica, P!Select(d) PROVE PatternInv'
  <2> DEFINE x == [at |-> "write", due |-> P!Armed]
  <2>1. expiry' = [expiry EXCEPT ![d] = x] /\ UNCHANGED <<instance, work, derived>>
    BY <1>18 DEF P!Select
  <2>2. P!Armed \in SUBSET Nat /\ P!Armed \subseteq DOMAIN instance BY <1>3 DEF P!Armed
  <2>3. x \in PatternExpiries /\ x.at = "write" /\ x.due = P!Armed BY <2>2 DEF PatternExpiries
  <2> HIDE DEF x
  <2>4. /\ expiry' \in [Replica -> PatternExpiries] /\ \A c \in Replica : expiry'[c] = IF c = d THEN x ELSE expiry[c]
        /\ PatternKnownInstances' /\ PatternArmedIsFresh' /\ PatternWhoDerives'
    BY <1>17, <2>1, <2>2, <2>3
  <2>5. CASE kind # "absence"
    <3>1. \A j : P!Holders(j)' = P!Holders(j) BY <1>2, <2>1, <2>5 DEF P!Holders
    <3>2. met' = met BY <1>18, <2>5 DEF P!Select
    <3>3. QED BY <1>1, <1>5, <2>1, <2>4, <3>1, <3>2
  <2>6. CASE kind = "absence"
    <3>1. P!Meets BY <1>18, <2>6 DEF P!Select
    <3>2. \A j : P!Holders(j)' \subseteq P!Holders(j) \cup {d} BY <1>2, <2>4, <2>6 DEF P!Holders
    <3>3. \A j : j \notin P!Armed => P!Holders(j)' \subseteq P!Holders(j)
      BY <1>2, <2>3, <2>4, <2>6 DEF P!Holders
    <3>4. met \subseteq met' /\ \A j \in P!Armed : j \notin met' => \A c, b \in P!Holders(j)' : c = b
      BY <1>30, <3>1, <3>2
    <3>5. \A j \in P!Armed : PatternMade(j) = {} BY <1>1 DEF PatternArmedIsFresh
    <3>6. QED BY <1>1, <1>5, <2>1, <2>4, <3>3, <3>4, <3>5
  <2>7. QED BY <2>5, <2>6
<1>19. ASSUME NEW d \in Replica, expiry' = [expiry EXCEPT ![d] = P!NoExpiry], UNCHANGED <<instance, work, derived, met>>
       PROVE  PatternInv'
  <2>1. /\ expiry' \in [Replica -> PatternExpiries] /\ \A c \in Replica : expiry'[c] = IF c = d THEN P!NoExpiry ELSE expiry[c]
        /\ PatternKnownInstances' /\ PatternArmedIsFresh' /\ PatternWhoDerives'
    BY <1>9, <1>17, <1>19
  <2>2. \A j : P!Holders(j)' \subseteq P!Holders(j) BY <1>2, <1>9, <1>19, <2>1 DEF P!Holders
  <2>3. QED BY <1>1, <1>5, <1>19, <2>1, <2>2
<1>20. ASSUME NEW d \in Replica, P!Expire(d) PROVE PatternInv'
  <2> DEFINE y == IF kind = "absence" THEN [expiry[d] EXCEPT !.at = "emit"] ELSE P!NoExpiry
  <2>1. /\ expiry[d].at = "write" /\ UNCHANGED <<work, derived, met>>
        /\ instance' = [i \in DOMAIN instance |->
                          IF i \in expiry[d].due THEN [instance[i] EXCEPT !.state = "expired"] ELSE instance[i]]
        /\ expiry' = [expiry EXCEPT ![d] = y]
    BY <1>20 DEF P!Expire
  <2>2. PICK due \in SUBSET Nat : due = expiry[d].due BY <1>1 DEF PatternExpiries
  <2>3. /\ DOMAIN instance' = DOMAIN instance
        /\ \A i \in DOMAIN instance : /\ instance'[i] \in PatternInstances
                                     /\ (i \in due => instance'[i].state = "expired")
                                     /\ (i \notin due => instance'[i] = instance[i])
    BY <1>3, <2>1, <2>2 DEF PatternInstances
  <2>4. instance' \in Seq(PatternInstances)
    <3>1. instance' \in [1..Len(instance) -> PatternInstances] BY <1>3, <2>1, <2>3
    <3>2. QED BY <1>3, <3>1, SeqDef
  <2>5. P!Armed' = P!Armed \ due BY <2>3 DEF P!Armed
  <2>6. expiry[d] \in PatternExpiries BY <1>1
  <2>7. y \in PatternExpiries /\ y.due \subseteq due /\ (y.at = "emit" => kind = "absence") /\ (y.at = "idle" => y.due = {})
    BY <1>9, <2>2, <2>6 DEF PatternExpiries
  <2>8. PICK x \in PatternExpiries : x = y BY <2>7
  <2>9. /\ x.due \subseteq due /\ (x.at = "emit" => kind = "absence") /\ (x.at = "idle" => x.due = {})
        /\ expiry' = [expiry EXCEPT ![d] = x]
    BY <2>1, <2>7, <2>8
  <2> HIDE DEF y
  <2>10. expiry' \in [Replica -> PatternExpiries] /\ \A c \in Replica : expiry'[c] = IF c = d THEN x ELSE expiry[c]
    BY <1>8, <2>9
  <2>11. \A i : PatternMade(i)' = PatternMade(i) BY <2>1 DEF PatternMade
  <2>12. \A i : P!Holders(i)' \subseteq P!Holders(i) BY <1>2, <2>1, <2>2, <2>9, <2>10 DEF P!Holders
  <2>13. PatternKnownInstances' BY <1>1, <2>1, <2>2, <2>3, <2>9, <2>10 DEF PatternKnownInstances
  <2>14. PatternArmedIsFresh' BY <1>1, <2>1, <2>5, <2>9, <2>10, <2>11 DEF PatternArmedIsFresh
  <2>15. PatternWhoDerives' BY <1>1, <1>2, <2>1, <2>9, <2>10 DEF PatternWhoDerives
  <2>16. QED BY <1>1, <1>5, <2>1, <2>3, <2>4, <2>10, <2>12, <2>13, <2>14, <2>15
<1>21. ASSUME NEW d \in Replica, P!EmitAbsence(d) PROVE PatternInv'
  <2>1. /\ expiry[d].at = "emit" /\ UNCHANGED <<instance, work, met>> /\ expiry' = [expiry EXCEPT ![d] = P!NoExpiry]
        /\ \/ derived' = derived
           \/ \E i \in expiry[d].due : derived' = Append(derived, i)
    BY <1>21 DEF P!EmitAbsence
  <2>2. CASE derived' = derived BY <1>19, <2>1, <2>2
  <2>3. ASSUME NEW k \in expiry[d].due, derived' = Append(derived, k) PROVE PatternInv'
    <3>1. k \in DOMAIN instance /\ k \notin P!Armed /\ kind = "absence"
      BY <1>1, <2>1, <2>3 DEF PatternKnownInstances, PatternArmedIsFresh, PatternWhoDerives
    <3>2. /\ derived' \in Seq(Nat) /\ \A i : i # k => PatternMade(i)' = PatternMade(i)
          /\ \A j \in DOMAIN derived' : derived'[j] = k \/ (j \in DOMAIN derived /\ derived'[j] = derived[j])
      BY <1>15, <2>3, <3>1
    <3>3. expiry' \in [Replica -> PatternExpiries] /\ \A c \in Replica : expiry'[c] = IF c = d THEN P!NoExpiry ELSE expiry[c]
      BY <1>8, <1>9, <2>1
    <3>4. PatternTypes' BY <1>1, <1>2, <2>1, <3>2, <3>3 DEF PatternTypes
    <3>5. PatternKnownInstances' BY <1>1, <1>9, <2>1, <3>1, <3>2, <3>3 DEF PatternKnownInstances
    <3>6. P!Armed' = P!Armed BY <2>1 DEF P!Armed
    <3>7. PatternArmedIsFresh'
      <4>1. ASSUME NEW i \in P!Armed
            PROVE  /\ PatternMade(i)' = {}
                   /\ \A c \in Replica : work'[c].at = "emit" => work'[c].armed # i
                   /\ \A c \in Replica : expiry'[c].at = "emit" => i \notin expiry'[c].due
        <5>1. i # k BY <3>1
        <5>2. QED BY <1>1, <1>9, <2>1, <3>2, <3>3, <4>1, <5>1 DEF PatternArmedIsFresh
      <4>2. QED BY <3>6, <4>1 DEF PatternArmedIsFresh
    <3>8. PatternWhoDerives' BY <1>1, <1>2, <1>9, <2>1, <3>3 DEF PatternWhoDerives
    <3>9. \A j : P!Holders(j)' \subseteq P!Holders(j) BY <1>2, <1>9, <2>1, <3>3 DEF P!Holders
    <3>10. d \in P!Holders(k) /\ d \notin P!Holders(k)'
      BY <1>2, <1>9, <2>3, <3>1, <3>3 DEF P!Holders
    <3>11. \A i \in DOMAIN instance : PatternCounted(i)' BY <1>31, <2>1, <2>3, <3>1, <3>9, <3>10
    <3>12. QED BY <2>1, <3>4, <3>5, <3>7, <3>8, <3>11 DEF PatternInv
  <2>4. QED BY <2>1, <2>2, <2>3
<1>25. ASSUME NEW d \in Replica, P!CutExpiry(d) PROVE PatternInv'
  BY <1>19, <1>25 DEF P!CutExpiry
<1>22. CASE P!Next
  <2>1. CASE \E e \in P!Event : P!Arrive(e) BY <1>6, <2>1 DEF P!Arrive
  <2>2. CASE \E d \in Replica : P!Cool(d) BY <1>6, <2>2 DEF P!Cool
  <2>3. QED
    BY <1>10, <1>12, <1>13, <1>14, <1>16, <1>18, <1>20, <1>21, <1>22, <1>25, <2>1, <2>2 DEF P!Next
<1>23. CASE UNCHANGED P!pvars BY <1>6, <1>23 DEF P!pvars
<1>24. QED BY <1>22, <1>23

LEMMA PatternHolds == PatternInv => P!DerivedOnce
<1> SUFFICES ASSUME PatternInv, NEW i \in DOMAIN instance
             PROVE  Cardinality({n \in DOMAIN derived : derived[n] = i})
                      <= IF i \in met THEN Cardinality(Replica) ELSE 1
  BY SameSize DEF P!DerivedOnce
<1>1. PatternCounted(i) /\ derived \in Seq(Nat) BY DEF PatternInv, PatternTypes
<1>2. Cardinality(PatternMade(i)) \in Nat /\ Cardinality(P!Holders(i)) \in Nat /\ Cardinality(Replica) \in Nat
  BY <1>1, PatternFinite
<1>3. Cardinality(PatternMade(i)) <= IF i \in met THEN Cardinality(Replica) ELSE 1
  BY <1>1, <1>2 DEF PatternCounted
<1>4. QED BY <1>3 DEF PatternMade

\* DerivedOnce: an instance that was completed or expired is never armed again, so that
\* only who read it armed may still emit for it; where no second drain, or no second
\* leader's pass, read it beside the first, it gives rise to one event (advance_patterns,
\* expire_pattern_deadlines).
THEOREM InstancesDeriveOnce == Spec => []DerivedOnce
<1>1. Init => PatternInv
  BY PatternInit DEF Init
<1>2. PatternInv /\ [Next]_vars => PatternInv'
  BY PatternStep, OnePartMoves
<1>3. PatternInv => DerivedOnce
  BY PatternHolds DEF DerivedOnce
<1>4. QED
  BY <1>1, <1>2, <1>3, PTL DEF Spec


-----------------------------------------------------------------------------
(* The judge of deliveries (Salience) *)

JudgeRows == [tier : Nat, delivered : {"none", "first", "digest"}, seen : BOOLEAN]
JudgeRecords == [verdict : Y!Verdict \cup {"none"}, decision : Y!Closed \cup {"none"}, prior : JudgeRows, kept : BOOLEAN]
JudgeWorks == [at : {"rest", "judged", "retain", "close", "apply", "decline", "undo", "erase", "undone"},
          verdict : Y!Verdict \cup {"none"}, record : JudgeRecords, prior : JudgeRows, kept : BOOLEAN]
JudgeSpendings == [cut : Nat, met : BOOLEAN]

JudgeTypes ==
  /\ row \in JudgeRows /\ record \in JudgeRecords /\ kept \in Nat /\ made \in JudgeRows
  /\ yWork \in [Replica \cup Request -> JudgeWorks] /\ ySpent \in JudgeSpendings

\* Passes and requests come one after the other.
JudgeOneAtWork == \A v, w \in Replica \cup Request : yWork[v].at # "rest" /\ yWork[w].at # "rest" => v = w

\* Before a verdict is carried out.
JudgeBefore == made = Y!NoRow /\ kept = 0 /\ row.tier = 1 /\ row.delivered = "first"

\* A verdict is carried out: what undoing it needs is the row as it was, and what was kept.
JudgeCarriedOut(verdict, prior, k) ==
  /\ prior = made /\ made.tier = 1 /\ made.delivered = "first"
  /\ kept = IF k THEN 1 ELSE 0
  /\ verdict # "retain" => ~k

\* ... and undone.
JudgeTakenBack(verdict) ==
  /\ kept = 0
  /\ verdict = "escalate" =>
       row.tier = 1 /\ row.delivered = "first" /\ made.tier = 1 /\ made.delivered = "first"

\* What the record says of the row, while nobody is at work.
JudgeRecorded(r) ==
  /\ r.decision \in {"none", "declined"} => JudgeBefore
  /\ r.decision = "applied" => JudgeCarriedOut(r.verdict, r.prior, r.kept)
  /\ r.decision = "undone" => JudgeTakenBack(r.verdict)

\* ... and while a pass or a request is at x.
JudgeAtWork(x, w) ==
  /\ x.at = "rest" \/
     IF w \in Replica THEN record = Y!NoRecord
     ELSE /\ record = x.record /\ record.verdict = x.verdict
          /\ record.decision = IF x.at \in {"undo", "erase", "undone"} THEN "applied" ELSE "none"
  /\ x.at \in {"judged", "apply", "decline"} => JudgeBefore
  /\ x.at \in {"retain", "close"} => JudgeCarriedOut(x.verdict, x.prior, x.kept)
  /\ x.at = "retain" => x.verdict = "retain" /\ ~x.kept
  /\ x.at \in {"undo", "erase"} => JudgeCarriedOut(x.record.verdict, x.record.prior, x.record.kept)
  /\ x.at = "erase" => x.record.verdict = "retain"
  /\ x.at = "undone" => JudgeTakenBack(x.record.verdict)
  /\ x.at = "judged" => w \in Replica
  /\ x.at \in {"apply", "decline", "undo", "erase", "undone"} => w \in Request
  /\ x.at \in {"judged", "apply"} => ~x.kept

JudgeAccounted ==
  /\ JudgeOneAtWork
  /\ \A w \in Replica \cup Request : JudgeAtWork(yWork[w], w)
  /\ (\A w \in Replica \cup Request : yWork[w].at = "rest") => JudgeRecorded(record)

JudgeInv == JudgeTypes /\ (Y!Alone => JudgeAccounted)

LEMMA JudgeInit == Y!Init => JudgeInv
<1> SUFFICES ASSUME Y!Init PROVE JudgeInv
  OBVIOUS
<1>1. Y!NoRow \in JudgeRows BY DEF Y!NoRow, JudgeRows
<1>2. Y!NoRecord \in JudgeRecords BY <1>1 DEF Y!NoRecord, JudgeRecords
<1>3. Y!Rest \in JudgeWorks BY <1>1, <1>2 DEF Y!Rest, JudgeWorks
<1>4. row \in JudgeRows BY DEF Y!Init, JudgeRows
<1>5. JudgeTypes BY <1>1, <1>2, <1>3, <1>4 DEF Y!Init, JudgeTypes, JudgeSpendings
<1>6. \A w \in Replica \cup Request : yWork[w].at = "rest" BY DEF Y!Init, Y!Rest
<1>7. JudgeOneAtWork /\ \A w \in Replica \cup Request : JudgeAtWork(yWork[w], w)
  BY <1>6 DEF JudgeOneAtWork, JudgeAtWork
<1>8. JudgeRecorded(record) BY DEF Y!Init, JudgeRecorded, Y!NoRecord, JudgeBefore
<1>9. QED BY <1>5, <1>7, <1>8 DEF JudgeInv, JudgeAccounted

\* A job as it begins.
LEMMA JudgeJobKnown ==
  ASSUME NEW at \in {"judged", "apply", "decline", "undo"}, NEW v \in Y!Verdict \cup {"none"}, NEW e \in JudgeRecords
  PROVE  /\ Y!Job(at, v, e) \in JudgeWorks
         /\ Y!Job(at, v, e).at = at /\ Y!Job(at, v, e).verdict = v /\ Y!Job(at, v, e).record = e /\ ~Y!Job(at, v, e).kept
<1> DEFINE g == [Y!Rest EXCEPT !.at = at]
           h == [g EXCEPT !.verdict = v]
           x == [h EXCEPT !.record = e]
<1>1. Y!NoRow \in JudgeRows BY DEF Y!NoRow, JudgeRows
<1>2. Y!Rest \in JudgeWorks /\ ~Y!Rest.kept
  <2>1. Y!NoRecord \in JudgeRecords BY <1>1 DEF Y!NoRecord, JudgeRecords
  <2>2. QED BY <1>1, <2>1 DEF Y!Rest, JudgeWorks
<1>3. g = [at |-> at, verdict |-> Y!Rest.verdict, record |-> Y!Rest.record, prior |-> Y!Rest.prior, kept |-> Y!Rest.kept]
  BY <1>2 DEF JudgeWorks
<1>4. x = Y!Job(at, v, e) BY DEF Y!Job
<1> HIDE DEF g
<1>5. h = [at |-> at, verdict |-> v, record |-> Y!Rest.record, prior |-> Y!Rest.prior, kept |-> Y!Rest.kept]
  BY <1>3
<1> HIDE DEF h
<1>6. x = [at |-> at, verdict |-> v, record |-> e, prior |-> Y!Rest.prior, kept |-> Y!Rest.kept]
  BY <1>5
<1> HIDE DEF x
<1>7. x \in JudgeWorks /\ x.at = at /\ x.verdict = v /\ x.record = e /\ ~x.kept
  BY <1>2, <1>6 DEF JudgeWorks
<1>8. QED BY <1>4, <1>7

LEMMA JudgeStep == JudgeInv /\ [Y!Next]_Y!yvars => JudgeInv'
<1> SUFFICES ASSUME JudgeInv, [Y!Next]_Y!yvars PROVE JudgeInv'
  OBVIOUS
<1>1. /\ row \in JudgeRows /\ record \in JudgeRecords /\ kept \in Nat /\ made \in JudgeRows
      /\ yWork \in [Replica \cup Request -> JudgeWorks] /\ ySpent \in JudgeSpendings
      /\ Y!Alone => JudgeAccounted
  BY DEF JudgeInv, JudgeTypes
<1>2. ASSUME NEW w \in Replica \cup Request, NEW x \in JudgeWorks, yWork' = [yWork EXCEPT ![w] = x]
      PROVE  yWork' \in [Replica \cup Request -> JudgeWorks] /\ \A v \in Replica \cup Request : yWork'[v] = IF v = w THEN x ELSE yWork[v]
  BY <1>1, <1>2
<1>3. \A w \in Replica \cup Request : yWork[w] \in JudgeWorks BY <1>1
\* who is at work goes on, or comes to rest
<1>4. ASSUME NEW w \in Replica \cup Request, NEW x \in JudgeWorks, yWork' = [yWork EXCEPT ![w] = x], yWork[w].at # "rest",
             row' \in JudgeRows /\ record' \in JudgeRecords /\ kept' \in Nat /\ made' \in JudgeRows, UNCHANGED ySpent,
             JudgeAtWork(yWork[w], w) => IF x.at = "rest" THEN JudgeRecorded(record)' ELSE JudgeAtWork(x, w)'
      PROVE  JudgeInv'
  <2>1. /\ yWork' \in [Replica \cup Request -> JudgeWorks]
        /\ \A v \in Replica \cup Request : yWork'[v] = IF v = w THEN x ELSE yWork[v]
    <3>1. yWork' = [yWork EXCEPT ![w] = x] BY <1>4
    <3>2. QED BY <1>2, <3>1
  <2>2. JudgeTypes' BY <1>1, <1>4, <2>1 DEF JudgeTypes
  <2>3. Y!Alone' => Y!Alone BY <1>4 DEF Y!Alone
  <2>4. ASSUME Y!Alone PROVE JudgeAccounted'
    <3>1. JudgeOneAtWork /\ JudgeAtWork(yWork[w], w) BY <1>1, <2>4 DEF JudgeAccounted
    <3>2. \A v \in Replica \cup Request : v # w => yWork'[v].at = "rest"
      BY <1>4, <2>1, <3>1 DEF JudgeOneAtWork
    <3>3. JudgeOneAtWork' BY <3>2 DEF JudgeOneAtWork
    <3>4. \A v \in Replica \cup Request : v # w => JudgeAtWork(yWork[v], v)' BY <3>2 DEF JudgeAtWork
    <3>5. yWork'[w] = x BY <2>1
    <3>6. CASE x.at = "rest"
      <4>1. JudgeAtWork(yWork[w], w)' BY <3>5, <3>6 DEF JudgeAtWork
      <4>2. JudgeRecorded(record)' BY <1>4, <3>1, <3>6
      <4>3. QED BY <3>3, <3>4, <4>1, <4>2 DEF JudgeAccounted
    <3>7. CASE x.at # "rest"
      <4>1. JudgeAtWork(x, w)' BY <1>4, <3>1, <3>7
      <4>2. JudgeAtWork(yWork[w], w)' BY <3>5, <4>1 DEF JudgeAtWork
      <4>3. QED BY <3>3, <3>4, <3>5, <3>7, <4>2 DEF JudgeAccounted
    <3>8. QED BY <3>6, <3>7
  <2>5. QED BY <2>2, <2>3, <2>4 DEF JudgeInv
\* somebody begins
<1>5. ASSUME NEW w \in Replica \cup Request, NEW x \in JudgeWorks, yWork' = [yWork EXCEPT ![w] = x], x.at # "rest",
             UNCHANGED <<row, record, kept, made>>, ySpent' = [ySpent EXCEPT !.met = ySpent.met \/ Y!Busy],
             JudgeRecorded(record) => JudgeAtWork(x, w)
      PROVE  JudgeInv'
  <2>1. /\ yWork' \in [Replica \cup Request -> JudgeWorks]
        /\ \A v \in Replica \cup Request : yWork'[v] = IF v = w THEN x ELSE yWork[v]
    <3>1. yWork' = [yWork EXCEPT ![w] = x] BY <1>5
    <3>2. QED BY <1>2, <3>1
  <2> DEFINE hit == ySpent.met \/ Y!Busy
  <2>2. hit \in BOOLEAN BY <1>1 DEF JudgeSpendings
  <2>3. ySpent' = [cut |-> ySpent.cut, met |-> hit] BY <1>1, <1>5 DEF JudgeSpendings
  <2> HIDE DEF hit
  <2>4. ySpent' \in JudgeSpendings /\ (Y!Alone' => ySpent.cut = 0 /\ ~hit)
    BY <1>1, <2>2, <2>3 DEF JudgeSpendings, Y!Alone
  <2>5. Y!Alone' => Y!Alone /\ ~Y!Busy BY <2>4 DEF Y!Alone, hit
  <2>6. JudgeTypes' BY <1>1, <1>5, <2>1, <2>4 DEF JudgeTypes
  <2>7. ASSUME Y!Alone, ~Y!Busy PROVE JudgeAccounted'
    <3>1. \A v \in Replica \cup Request : yWork[v].at = "rest" BY <2>7 DEF Y!Busy
    <3>2. JudgeAtWork(x, w) BY <1>1, <1>5, <2>7, <3>1 DEF JudgeAccounted
    <3>3. \A v \in Replica \cup Request : v # w => yWork'[v].at = "rest" BY <2>1, <3>1
    <3>4. JudgeOneAtWork' BY <3>3 DEF JudgeOneAtWork
    <3>5. \A v \in Replica \cup Request : v # w => JudgeAtWork(yWork[v], v)' BY <3>3 DEF JudgeAtWork
    <3>6. yWork'[w] = x BY <2>1
    <3>7. JudgeAtWork(x, w)'
      BY <1>5, <3>2 DEF JudgeAtWork, JudgeBefore, JudgeCarriedOut, JudgeTakenBack
    <3>8. JudgeAtWork(yWork[w], w)' BY <3>6, <3>7 DEF JudgeAtWork
    <3>9. QED BY <1>5, <3>4, <3>5, <3>6, <3>8 DEF JudgeAccounted
  <2>8. QED BY <2>5, <2>6, <2>7 DEF JudgeInv
\* the row changes under them
<1>6. ASSUME UNCHANGED <<record, kept, yWork, made, ySpent>>, row' \in JudgeRows,
             row.tier = 1 => row'.tier = 1 /\ row'.delivered = row.delivered
      PROVE  JudgeInv'
  <2>1. JudgeTypes' BY <1>1, <1>6 DEF JudgeTypes
  <2>2. JudgeBefore => JudgeBefore' BY <1>6 DEF JudgeBefore
  <2>3. \A v \in Y!Verdict \cup {"none"} : JudgeTakenBack(v) => JudgeTakenBack(v)'
    BY <1>6 DEF JudgeTakenBack
  <2>4. \A v \in Y!Verdict \cup {"none"}, p \in JudgeRows, k \in BOOLEAN : JudgeCarriedOut(v, p, k) => JudgeCarriedOut(v, p, k)'
    BY <1>6 DEF JudgeCarriedOut
  <2>5. ASSUME Y!Alone PROVE JudgeAccounted'
    <3>1. JudgeAccounted BY <1>1, <2>5
    <3>2. JudgeOneAtWork' BY <1>6, <3>1 DEF JudgeOneAtWork, JudgeAccounted
    <3>3. ASSUME NEW w \in Replica \cup Request PROVE JudgeAtWork(yWork[w], w)'
      <4>1. PICK x \in JudgeWorks : x = yWork[w] BY <1>3
      <4>2. x.verdict \in Y!Verdict \cup {"none"} /\ x.prior \in JudgeRows /\ x.kept \in BOOLEAN /\ x.record \in JudgeRecords
        BY DEF JudgeWorks
      <4>3. x.record.verdict \in Y!Verdict \cup {"none"} /\ x.record.prior \in JudgeRows /\ x.record.kept \in BOOLEAN
        BY <4>2 DEF JudgeRecords
      <4>4. JudgeAtWork(x, w) BY <3>1, <3>3, <4>1 DEF JudgeAccounted
      <4>5. JudgeAtWork(x, w)' BY <1>6, <2>2, <2>3, <2>4, <4>2, <4>3, <4>4 DEF JudgeAtWork
      <4>6. QED BY <1>6, <4>1, <4>5 DEF JudgeAtWork
    <3>4. JudgeRecorded(record) => JudgeRecorded(record)'
      <4>1. record.verdict \in Y!Verdict \cup {"none"} /\ record.prior \in JudgeRows /\ record.kept \in BOOLEAN
        BY <1>1 DEF JudgeRecords
      <4>2. PICK x \in JudgeRecords : x = record BY <1>1
      <4>3. JudgeRecorded(x) => JudgeRecorded(x)' BY <2>2, <2>3, <2>4, <4>1, <4>2 DEF JudgeRecorded
      <4>4. QED BY <1>6, <4>2, <4>3
    <3>5. QED BY <1>6, <3>1, <3>2, <3>3, <3>4 DEF JudgeAccounted
  <2>6. Y!Alone' => Y!Alone BY <1>6 DEF Y!Alone
  <2>7. QED BY <2>1, <2>5, <2>6 DEF JudgeInv
<1>7. CASE Y!Digest
  <2>1. row.tier = 2 /\ row' = [row EXCEPT !.delivered = "digest"] /\ UNCHANGED <<record, kept, yWork, made, ySpent>>
    BY <1>7 DEF Y!Digest
  <2>2. row' \in JudgeRows BY <1>1, <2>1 DEF JudgeRows
  <2>3. QED BY <1>6, <2>1, <2>2
<1>8. CASE Y!See
  <2>1. row' = [row EXCEPT !.seen = TRUE] /\ UNCHANGED <<record, kept, yWork, made, ySpent>>
    BY <1>8 DEF Y!See
  <2>2. row' \in JudgeRows /\ row'.tier = row.tier /\ row'.delivered = row.delivered
    BY <1>1, <2>1 DEF JudgeRows
  <2>3. QED BY <1>6, <2>1, <2>2
<1>9. CASE UNCHANGED Y!yvars
  <2>1. UNCHANGED <<record, kept, yWork, made, ySpent>> /\ row' = row BY <1>9 DEF Y!yvars
  <2>2. QED BY <1>1, <1>6, <2>1
<1>10. Y!NoRow \in JudgeRows BY DEF Y!NoRow, JudgeRows
<1>11. Y!NoRecord \in JudgeRecords BY <1>10 DEF Y!NoRecord, JudgeRecords
<1>12. Y!Rest \in JudgeWorks /\ Y!Rest.at = "rest" BY <1>10, <1>11 DEF Y!Rest, JudgeWorks
<1>13. ASSUME NEW w \in Replica, Y!Select(w) PROVE JudgeInv'
  <2>1. Y!Eligible /\ UNCHANGED <<row, record, kept, made>> BY <1>13 DEF Y!Select
  <2>2. PICK v \in Y!Verdict : Y!Begins(w, Y!Job("judged", v, Y!NoRecord)) BY <1>13 DEF Y!Select
  <2>3. /\ yWork' = [yWork EXCEPT ![w] = Y!Job("judged", v, Y!NoRecord)]
        /\ ySpent' = [ySpent EXCEPT !.met = ySpent.met \/ Y!Busy]
    BY <2>2 DEF Y!Begins
  <2>4. Y!Job("judged", v, Y!NoRecord) \in JudgeWorks BY JudgeJobKnown, <1>11
  <2>5. PICK x \in JudgeWorks : x = Y!Job("judged", v, Y!NoRecord) BY <2>4
  <2>6. yWork' = [yWork EXCEPT ![w] = x] /\ x.at = "judged" /\ ~x.kept
    BY <1>11, <2>3, <2>5, JudgeJobKnown
  <2>7. JudgeRecorded(record) => JudgeBefore BY <2>1 DEF Y!Eligible, JudgeRecorded, Y!NoRecord
  <2>8. JudgeRecorded(record) => JudgeAtWork(x, w) BY <2>1, <2>6, <2>7 DEF JudgeAtWork, Y!Eligible
  <2>9. QED BY <1>5, <2>1, <2>3, <2>6, <2>8
<1>14. ASSUME NEW w \in Request, Y!Decide(w) PROVE JudgeInv'
  <2>1. record # Y!NoRecord /\ UNCHANGED <<row, record, kept, made>> BY <1>14 DEF Y!Decide
  <2>2. PICK to \in {"apply", "decline", "undo"} :
          /\ IF to = "undo" THEN record.decision = "applied" ELSE Y!Open(record.decision)
          /\ Y!Begins(w, Y!Job(to, record.verdict, record))
    BY <1>14 DEF Y!Decide
  <2>3. /\ yWork' = [yWork EXCEPT ![w] = Y!Job(to, record.verdict, record)]
        /\ ySpent' = [ySpent EXCEPT !.met = ySpent.met \/ Y!Busy]
    BY <2>2 DEF Y!Begins
  <2>4. PICK v \in Y!Verdict \cup {"none"} : v = record.verdict BY <1>1 DEF JudgeRecords
  <2>5. PICK e \in JudgeRecords : e = record BY <1>1
  <2>6. Y!Job(to, v, e) \in JudgeWorks BY JudgeJobKnown
  <2>7. PICK x \in JudgeWorks : x = Y!Job(to, v, e) BY <2>6
  <2>8. x.at = to /\ x.record = e /\ x.verdict = v /\ ~x.kept BY <2>7, JudgeJobKnown
  <2>9. yWork' = [yWork EXCEPT ![w] = x] BY <2>3, <2>4, <2>5, <2>7
  <2>10. x.at = to /\ x.record = record /\ x.verdict = record.verdict /\ ~x.kept BY <2>4, <2>5, <2>8
  <2>11. w \notin Replica BY PassesAreNoRequests
  <2>12. record.decision \in {"applied", "declined", "undone", "none"}
    BY <1>1 DEF JudgeRecords, Y!Closed
  <2>13. CASE to = "undo"
    <3>1. record.decision = "applied" BY <2>2, <2>13
    <3>2. JudgeRecorded(record) => JudgeAtWork(x, w)
      BY <2>10, <2>11, <2>13, <3>1 DEF JudgeAtWork, JudgeRecorded
    <3>3. x.at # "rest" BY <2>10, <2>13
    <3>4. QED BY <1>5, <2>1, <2>3, <2>9, <3>2, <3>3
  <2>14. CASE to # "undo"
    <3>1. record.decision = "none" BY <2>2, <2>12, <2>14 DEF Y!Open, Y!Closed
    <3>2. JudgeRecorded(record) => JudgeAtWork(x, w)
      BY <2>10, <2>11, <2>14, <3>1 DEF JudgeAtWork, JudgeRecorded
    <3>3. x.at # "rest" BY <2>10, <2>14
    <3>4. QED BY <1>5, <2>1, <2>3, <2>9, <3>2, <3>3
  <2>15. QED BY <2>13, <2>14
<1>15. ASSUME NEW w \in Replica \cup Request, NEW human \in BOOLEAN, yWork[w].at \in {"judged", "apply"},
              Y!Perform(w, human), UNCHANGED <<record, kept, ySpent>>
       PROVE  JudgeInv'
  <2> DEFINE to == IF yWork[w].verdict = "retain" THEN "retain" ELSE "close"
             h == [yWork[w] EXCEPT !.prior = row]
             y == [h EXCEPT !.at = to]
  <2>1. yWork' = [yWork EXCEPT ![w] = y] BY <1>1, <1>15 DEF Y!Perform
  <2>2. made' = IF made = Y!NoRow THEN row ELSE made BY <1>15 DEF Y!Perform
  <2>3. yWork[w] \in JudgeWorks BY <1>3
  <2>4. h = [at |-> yWork[w].at, verdict |-> yWork[w].verdict, record |-> yWork[w].record, prior |-> row, kept |-> yWork[w].kept]
    BY <2>3 DEF JudgeWorks
  <2> HIDE DEF h, to
  <2>5. y = [at |-> to, verdict |-> yWork[w].verdict, record |-> yWork[w].record, prior |-> row, kept |-> yWork[w].kept]
    BY <2>4
  <2>6. to \in {"retain", "close"} BY DEF to
  <2>7. y \in JudgeWorks BY <1>1, <2>3, <2>5, <2>6 DEF JudgeWorks
  <2>8. PICK x \in JudgeWorks : x = y BY <2>7
  <2>9. /\ x.at = to /\ x.verdict = yWork[w].verdict /\ x.record = yWork[w].record
        /\ x.prior = row /\ x.kept = yWork[w].kept
    BY <2>5, <2>8
  <2> HIDE DEF y
  <2>10. row' \in JudgeRows
    <3>1. Y!Escalated(row) \in JudgeRows
      <4> DEFINE e == [row EXCEPT !.tier = 2]
      <4>1. e = [tier |-> 2, delivered |-> row.delivered, seen |-> row.seen] BY <1>1 DEF JudgeRows
      <4> HIDE DEF e
      <4>2. [e EXCEPT !.delivered = "none"] = [tier |-> 2, delivered |-> "none", seen |-> row.seen]
        BY <4>1
      <4>3. Y!Escalated(row) = [e EXCEPT !.delivered = "none"] BY DEF Y!Escalated, e
      <4>4. row.seen \in BOOLEAN BY <1>1 DEF JudgeRows
      <4>5. QED BY <4>2, <4>3, <4>4 DEF JudgeRows
    <3>2. [row EXCEPT !.seen = TRUE] \in JudgeRows BY <1>1 DEF JudgeRows
    <3>3. row' = Y!Escalated(row) \/ row' = [row EXCEPT !.seen = TRUE] \/ row' = row
      <4>1. CASE yWork[w].verdict = "escalate" BY <1>15, <4>1 DEF Y!Perform
      <4>2. CASE yWork[w].verdict = "drop" /\ human BY <1>15, <4>2 DEF Y!Perform
      <4>3. CASE yWork[w].verdict # "escalate" /\ ~(yWork[w].verdict = "drop" /\ human)
        BY <1>15, <4>3 DEF Y!Perform
      <4>4. QED BY <4>1, <4>2, <4>3
    <3>4. QED BY <1>1, <3>1, <3>2, <3>3
  <2>11. made' \in JudgeRows BY <1>1, <2>2
  <2>12. ASSUME JudgeAtWork(yWork[w], w) PROVE JudgeAtWork(x, w)'
    <3>1. JudgeBefore /\ ~yWork[w].kept BY <1>15, <2>12 DEF JudgeAtWork
    <3>2. made' = row /\ row.tier = 1 /\ row.delivered = "first" /\ kept' = 0
      BY <1>15, <2>2, <3>1 DEF JudgeBefore
    <3>3. JudgeCarriedOut(x.verdict, x.prior, x.kept)' BY <2>9, <3>1, <3>2 DEF JudgeCarriedOut
    <3>4. IF w \in Replica THEN record = Y!NoRecord
          ELSE record = x.record /\ record.verdict = x.verdict /\ record.decision = "none"
      BY <1>15, <2>9, <2>12 DEF JudgeAtWork
    <3>5. x.at = "retain" => x.verdict = "retain" BY <2>9 DEF to
    <3>6. QED BY <1>15, <2>6, <2>9, <3>1, <3>3, <3>4, <3>5 DEF JudgeAtWork
  <2>13. x.at # "rest" /\ yWork[w].at # "rest" BY <1>15, <2>6, <2>9
  <2>14. yWork' = [yWork EXCEPT ![w] = x] BY <2>1, <2>8
  <2>15. record' \in JudgeRecords /\ kept' \in Nat BY <1>1, <1>15
  <2>16. UNCHANGED ySpent BY <1>15
  <2>17. QED BY <1>4, <2>10, <2>11, <2>12, <2>13, <2>14, <2>15, <2>16
<1>16. ASSUME NEW w \in Replica, Y!Applies(w) PROVE JudgeInv'
  <2>1. yWork[w].at \in {"judged", "apply"} /\ Y!Perform(w, FALSE) /\ UNCHANGED <<record, kept, ySpent>>
    BY <1>16 DEF Y!Applies
  <2>2. QED BY <1>15, <2>1
<1>17. ASSUME NEW w \in Request, Y!Apply(w) PROVE JudgeInv'
  <2>1. yWork[w].at \in {"judged", "apply"} /\ Y!Perform(w, TRUE) /\ UNCHANGED <<record, kept, ySpent>>
    BY <1>17 DEF Y!Apply
  <2>2. QED BY <1>15, <2>1
<1>18. ASSUME NEW w \in Replica \cup Request, Y!Retain(w) PROVE JudgeInv'
  <2>1. yWork[w].at = "retain" /\ UNCHANGED <<row, record, made, ySpent>> BY <1>18 DEF Y!Retain
  <2>2. PICK k \in BOOLEAN :
          yWork' = [yWork EXCEPT ![w].kept = k, ![w].at = "close"] /\ kept' = IF k THEN kept + 1 ELSE kept
    BY <1>18 DEF Y!Retain
  <2> DEFINE h == [yWork[w] EXCEPT !.kept = k]
             y == [h EXCEPT !.at = "close"]
  <2>3. yWork[w] \in JudgeWorks BY <1>3
  <2>4. yWork' = [yWork EXCEPT ![w] = y] BY <1>1, <2>2
  <2>5. h = [at |-> yWork[w].at, verdict |-> yWork[w].verdict, record |-> yWork[w].record, prior |-> yWork[w].prior, kept |-> k]
    BY <2>3 DEF JudgeWorks
  <2> HIDE DEF h
  <2>6. y = [at |-> "close", verdict |-> yWork[w].verdict, record |-> yWork[w].record, prior |-> yWork[w].prior, kept |-> k]
    BY <2>5
  <2>7. y \in JudgeWorks BY <2>3, <2>6 DEF JudgeWorks
  <2>8. PICK x \in JudgeWorks : x = y BY <2>7
  <2>9. /\ x.at = "close" /\ x.verdict = yWork[w].verdict /\ x.record = yWork[w].record
        /\ x.prior = yWork[w].prior /\ x.kept = k
    BY <2>6, <2>8
  <2> HIDE DEF y
  <2>10. kept' \in Nat BY <1>1, <2>2
  <2>11. ASSUME JudgeAtWork(yWork[w], w) PROVE JudgeAtWork(x, w)'
    <3>1. JudgeCarriedOut(yWork[w].verdict, yWork[w].prior, yWork[w].kept) /\ yWork[w].verdict = "retain" /\ ~yWork[w].kept
      BY <2>1, <2>11 DEF JudgeAtWork
    <3>2. kept' = IF k THEN 1 ELSE 0 BY <2>2, <3>1 DEF JudgeCarriedOut
    <3>3. JudgeCarriedOut(x.verdict, x.prior, x.kept)' BY <2>1, <2>9, <3>1, <3>2 DEF JudgeCarriedOut
    <3>4. IF w \in Replica THEN record = Y!NoRecord
          ELSE record = x.record /\ record.verdict = x.verdict /\ record.decision = "none"
      BY <2>1, <2>9, <2>11 DEF JudgeAtWork
    <3>5. QED BY <2>1, <2>9, <3>3, <3>4 DEF JudgeAtWork
  <2>12. yWork' = [yWork EXCEPT ![w] = x] BY <2>4, <2>8
  <2>13. QED BY <1>1, <1>4, <2>1, <2>9, <2>10, <2>11, <2>12
<1>19. ASSUME NEW w \in Replica, Y!Ledger(w) PROVE JudgeInv'
  <2>1. /\ yWork[w].at \in {"judged", "close"} /\ UNCHANGED <<row, kept, made, ySpent>>
        /\ yWork' = [yWork EXCEPT ![w] = Y!Rest]
    BY <1>19 DEF Y!Ledger
  <2>2. record' = [verdict |-> yWork[w].verdict, prior |-> yWork[w].prior, kept |-> yWork[w].kept,
                   decision |-> IF yWork[w].at = "close" THEN "applied" ELSE "none"]
    BY <1>19 DEF Y!Ledger
  <2>3. yWork[w] \in JudgeWorks BY <1>3
  <2>4. record' \in JudgeRecords BY <2>2, <2>3 DEF JudgeWorks, JudgeRecords, Y!Closed
  <2>5. ASSUME JudgeAtWork(yWork[w], w) PROVE JudgeRecorded(record)'
    <3>1. yWork[w].at = "judged" => JudgeBefore BY <2>5 DEF JudgeAtWork
    <3>2. yWork[w].at = "close" => JudgeCarriedOut(yWork[w].verdict, yWork[w].prior, yWork[w].kept)
      BY <2>5 DEF JudgeAtWork
    <3>3. CASE yWork[w].at = "judged"
      <4>1. record'.decision = "none" BY <2>2, <3>3
      <4>2. QED BY <2>1, <3>1, <3>3, <4>1 DEF JudgeRecorded, JudgeBefore
    <3>4. CASE yWork[w].at = "close"
      <4>1. /\ record'.decision = "applied" /\ record'.verdict = yWork[w].verdict
            /\ record'.prior = yWork[w].prior /\ record'.kept = yWork[w].kept
        BY <2>2, <3>4
      <4>2. QED BY <2>1, <3>2, <3>4, <4>1 DEF JudgeRecorded, JudgeCarriedOut
    <3>5. QED BY <2>1, <3>3, <3>4
  <2>6. QED BY <1>1, <1>4, <1>12, <2>1, <2>4, <2>5
<1>20. ASSUME NEW w \in Replica, Y!Unjudged(w) PROVE JudgeInv'
  <2>1. /\ yWork[w].at = "judged" /\ UNCHANGED <<row, record, kept, made, ySpent>>
        /\ yWork' = [yWork EXCEPT ![w] = Y!Rest]
    BY <1>20 DEF Y!Unjudged
  <2>2. ASSUME JudgeAtWork(yWork[w], w) PROVE JudgeRecorded(record)'
    <3>1. JudgeBefore /\ record = Y!NoRecord BY <2>1, <2>2 DEF JudgeAtWork
    <3>2. JudgeRecorded(record) BY <3>1 DEF JudgeRecorded, Y!NoRecord
    <3>3. QED BY <2>1, <3>2 DEF JudgeRecorded, JudgeBefore, JudgeCarriedOut, JudgeTakenBack
  <2>3. QED BY <1>1, <1>4, <1>12, <2>1, <2>2
<1>21. ASSUME NEW w \in Request, Y!Undo(w) PROVE JudgeInv'
  <2> DEFINE old == yWork[w].record
  <2>1. yWork[w].at = "undo" /\ UNCHANGED <<record, kept, made, ySpent>> BY <1>21 DEF Y!Undo
  <2>2. yWork[w] \in JudgeWorks /\ old \in JudgeRecords BY <1>3 DEF JudgeWorks
  <2>3. CASE old.verdict = "escalate" /\ row.delivered # "none"
    <3>1. row' = row /\ yWork' = [yWork EXCEPT ![w] = Y!Rest] BY <1>21, <2>3 DEF Y!Undo
    <3>2. ASSUME JudgeAtWork(yWork[w], w) PROVE JudgeRecorded(record)'
      <4>1. w \notin Replica BY PassesAreNoRequests
      <4>2. record = old /\ record.decision = "applied" /\ JudgeCarriedOut(old.verdict, old.prior, old.kept)
        BY <2>1, <3>2, <4>1 DEF JudgeAtWork
      <4>3. JudgeRecorded(record) BY <4>2 DEF JudgeRecorded
      <4>4. QED BY <2>1, <3>1, <4>3 DEF JudgeRecorded, JudgeBefore, JudgeCarriedOut, JudgeTakenBack
    <3>3. QED BY <1>1, <1>4, <1>12, <2>1, <3>1, <3>2
  <2>4. CASE ~(old.verdict = "escalate" /\ row.delivered # "none")
    <3> DEFINE to == IF old.verdict = "retain" THEN "erase" ELSE "undone"
               y == [yWork[w] EXCEPT !.at = to]
    <3>1. yWork' = [yWork EXCEPT ![w] = y] BY <1>21, <2>4 DEF Y!Undo, Y!Goes
    <3>2. y = [at |-> to, verdict |-> yWork[w].verdict, record |-> old, prior |-> yWork[w].prior, kept |-> yWork[w].kept]
      BY <2>2 DEF JudgeWorks
    <3>3. to \in {"erase", "undone"} /\ (to = "erase" => old.verdict = "retain") OBVIOUS
    <3> HIDE DEF to
    <3>4. y \in JudgeWorks BY <2>2, <3>2, <3>3 DEF JudgeWorks
    <3>5. PICK x \in JudgeWorks : x = y BY <3>4
    <3>6. x.at = to /\ x.verdict = yWork[w].verdict /\ x.record = old BY <3>2, <3>5
    <3>7. yWork' = [yWork EXCEPT ![w] = x] BY <3>1, <3>5
    <3> HIDE DEF y
    <3>8. old.prior \in JudgeRows BY <2>2 DEF JudgeRecords
    <3>9. /\ row' \in JudgeRows
          /\ old.verdict = "escalate" => row'.tier = old.prior.tier /\ row'.delivered = old.prior.delivered
      <4>1. CASE old.verdict = "escalate"
        <5> DEFINE h == [row EXCEPT !.tier = old.prior.tier]
                   e == [h EXCEPT !.delivered = old.prior.delivered]
        <5>1. row' = e BY <1>21, <2>4, <4>1 DEF Y!Undo
        <5>2. h = [tier |-> old.prior.tier, delivered |-> row.delivered, seen |-> row.seen]
          BY <1>1 DEF JudgeRows
        <5> HIDE DEF h
        <5>3. e = [tier |-> old.prior.tier, delivered |-> old.prior.delivered, seen |-> row.seen]
          BY <5>2
        <5>4. row.seen \in BOOLEAN /\ old.prior.tier \in Nat /\ old.prior.delivered \in {"none", "first", "digest"}
          BY <1>1, <3>8 DEF JudgeRows
        <5> HIDE DEF e
        <5>5. QED BY <5>1, <5>3, <5>4 DEF JudgeRows
      <4>2. CASE old.verdict = "drop"
        <5>1. row' = [row EXCEPT !.seen = old.prior.seen] BY <1>21, <2>4, <4>2 DEF Y!Undo
        <5>2. QED BY <1>1, <3>8, <4>2, <5>1 DEF JudgeRows
      <4>3. CASE old.verdict # "escalate" /\ old.verdict # "drop"
        <5>1. row' = row BY <1>21, <2>4, <4>3 DEF Y!Undo
        <5>2. QED BY <1>1, <4>3, <5>1
      <4>4. QED BY <4>1, <4>2, <4>3
    <3>10. ASSUME JudgeAtWork(yWork[w], w) PROVE JudgeAtWork(x, w)'
      <4>1. w \notin Replica BY PassesAreNoRequests
      <4>2. /\ record = old /\ record.decision = "applied" /\ record.verdict = yWork[w].verdict
            /\ JudgeCarriedOut(old.verdict, old.prior, old.kept)
        BY <2>1, <3>10, <4>1 DEF JudgeAtWork
      <4>3. CASE to = "erase"
        <5>1. JudgeCarriedOut(x.record.verdict, x.record.prior, x.record.kept)'
          BY <2>1, <3>6, <4>2 DEF JudgeCarriedOut
        <5>2. x.record.verdict = "retain" BY <3>3, <3>6, <4>3
        <5>3. QED BY <2>1, <3>6, <4>1, <4>2, <4>3, <5>1, <5>2 DEF JudgeAtWork
      <4>4. CASE to = "undone"
        <5>1. old.verdict # "retain" BY <4>4 DEF to
        <5>2. kept' = 0 BY <2>1, <4>2, <5>1 DEF JudgeCarriedOut
        <5>3. JudgeTakenBack(x.record.verdict)'
          BY <2>1, <3>6, <3>9, <4>2, <5>2 DEF JudgeTakenBack, JudgeCarriedOut
        <5>4. QED BY <2>1, <3>6, <4>1, <4>2, <4>4, <5>3 DEF JudgeAtWork
      <4>5. QED BY <3>3, <4>3, <4>4
    <3>11. x.at # "rest" BY <3>3, <3>6
    <3>12. QED BY <1>1, <1>4, <2>1, <3>7, <3>9, <3>10, <3>11
  <2>5. QED BY <2>3, <2>4
<1>22. ASSUME NEW w \in Request, Y!EraseKept(w) PROVE JudgeInv'
  <2> DEFINE y == [yWork[w] EXCEPT !.at = "undone"]
  <2>1. /\ yWork[w].at = "erase" /\ UNCHANGED <<row, record, made, ySpent>> /\ yWork' = [yWork EXCEPT ![w] = y]
        /\ kept' = IF yWork[w].record.kept /\ kept > 0 THEN kept - 1 ELSE kept
    BY <1>22 DEF Y!EraseKept, Y!Goes
  <2>2. yWork[w] \in JudgeWorks BY <1>3
  <2>3. y = [at |-> "undone", verdict |-> yWork[w].verdict, record |-> yWork[w].record, prior |-> yWork[w].prior, kept |-> yWork[w].kept]
    BY <2>2 DEF JudgeWorks
  <2>4. y \in JudgeWorks BY <2>2, <2>3 DEF JudgeWorks
  <2>5. PICK x \in JudgeWorks : x = y BY <2>4
  <2>6. x.at = "undone" /\ x.verdict = yWork[w].verdict /\ x.record = yWork[w].record BY <2>3, <2>5
  <2>7. yWork' = [yWork EXCEPT ![w] = x] BY <2>1, <2>5
  <2> HIDE DEF y
  <2>8. kept' \in Nat BY <1>1, <2>1
  <2>9. ASSUME JudgeAtWork(yWork[w], w) PROVE JudgeAtWork(x, w)'
    <3>1. w \notin Replica BY PassesAreNoRequests
    <3>2. /\ record = x.record /\ record.decision = "applied" /\ record.verdict = x.verdict
          /\ x.record.verdict = "retain" /\ kept = IF yWork[w].record.kept THEN 1 ELSE 0
      BY <2>1, <2>6, <2>9, <3>1 DEF JudgeAtWork, JudgeCarriedOut
    <3>3. kept' = 0 BY <2>1, <3>2
    <3>4. JudgeTakenBack(x.record.verdict)' BY <3>2, <3>3 DEF JudgeTakenBack
    <3>5. QED BY <2>1, <2>6, <3>1, <3>2, <3>4 DEF JudgeAtWork
  <2>10. QED BY <1>1, <1>4, <2>1, <2>6, <2>7, <2>8, <2>9
<1>23. ASSUME NEW w \in Request, Y!Close(w) PROVE JudgeInv'
  <2>1. UNCHANGED <<row, kept, made, ySpent>> /\ yWork' = [yWork EXCEPT ![w] = Y!Rest]
    BY <1>23 DEF Y!Close
  <2>2. yWork[w] \in JudgeWorks /\ yWork[w].record \in JudgeRecords BY <1>3 DEF JudgeWorks
  <2> DEFINE old == yWork[w].record
  <2>3. old = [verdict |-> old.verdict, decision |-> old.decision, prior |-> old.prior, kept |-> old.kept]
    BY <2>2 DEF JudgeRecords
  <2>4. w \notin Replica BY PassesAreNoRequests
  <2>5. CASE yWork[w].at = "close"
    <3> DEFINE g == [old EXCEPT !.decision = "applied"]
               h == [g EXCEPT !.prior = yWork[w].prior]
    <3>1. record' = [h EXCEPT !.kept = yWork[w].kept] BY <1>23, <2>5 DEF Y!Close
    <3>2. g = [verdict |-> old.verdict, decision |-> "applied", prior |-> old.prior, kept |-> old.kept]
      BY <2>3
    <3> HIDE DEF g
    <3>3. h = [verdict |-> old.verdict, decision |-> "applied", prior |-> yWork[w].prior, kept |-> old.kept]
      BY <3>2
    <3> HIDE DEF h
    <3>4. record' = [verdict |-> old.verdict, decision |-> "applied", prior |-> yWork[w].prior, kept |-> yWork[w].kept]
      BY <3>1, <3>3
    <3>5. record' \in JudgeRecords BY <2>2, <3>4 DEF JudgeWorks, JudgeRecords, Y!Closed
    <3>6. ASSUME JudgeAtWork(yWork[w], w) PROVE JudgeRecorded(record)'
      <4>1. JudgeCarriedOut(yWork[w].verdict, yWork[w].prior, yWork[w].kept) /\ old.verdict = yWork[w].verdict
        BY <2>4, <2>5, <3>6 DEF JudgeAtWork
      <4>2. /\ record'.decision = "applied" /\ record'.verdict = yWork[w].verdict
            /\ record'.prior = yWork[w].prior /\ record'.kept = yWork[w].kept
        BY <3>4, <4>1
      <4>3. QED BY <2>1, <4>1, <4>2 DEF JudgeRecorded, JudgeCarriedOut
    <3>7. QED BY <1>1, <1>4, <1>12, <2>1, <2>5, <3>5, <3>6
  <2>6. CASE yWork[w].at = "decline"
    <3>1. record' = [old EXCEPT !.decision = "declined"] BY <1>23, <2>6 DEF Y!Close
    <3>2. record' \in JudgeRecords /\ record'.decision = "declined"
      BY <2>2, <3>1 DEF JudgeRecords, Y!Closed
    <3>3. ASSUME JudgeAtWork(yWork[w], w) PROVE JudgeRecorded(record)'
      <4>1. JudgeBefore BY <2>6, <3>3 DEF JudgeAtWork
      <4>2. QED BY <2>1, <3>2, <4>1 DEF JudgeRecorded, JudgeBefore
    <3>4. QED BY <1>1, <1>4, <1>12, <2>1, <2>6, <3>2, <3>3
  <2>7. CASE yWork[w].at = "undone"
    <3>1. record' = [old EXCEPT !.decision = "undone"] BY <1>23, <2>7 DEF Y!Close
    <3>2. record' \in JudgeRecords /\ record'.decision = "undone" /\ record'.verdict = old.verdict
      BY <2>2, <3>1 DEF JudgeRecords, Y!Closed
    <3>3. ASSUME JudgeAtWork(yWork[w], w) PROVE JudgeRecorded(record)'
      <4>1. JudgeTakenBack(old.verdict) BY <2>7, <3>3 DEF JudgeAtWork
      <4>2. QED BY <2>1, <3>2, <4>1 DEF JudgeRecorded, JudgeTakenBack
    <3>4. QED BY <1>1, <1>4, <1>12, <2>1, <2>7, <3>2, <3>3
  <2>8. QED BY <1>23, <2>5, <2>6, <2>7 DEF Y!Close
<1>24. ASSUME NEW w \in Replica \cup Request, Y!Cut(w) PROVE JudgeInv'
  <2>1. UNCHANGED <<row, record, kept, made>> /\ yWork' = [yWork EXCEPT ![w] = Y!Rest]
    BY <1>24 DEF Y!Cut
  <2>2. ySpent' = [ySpent EXCEPT !.cut = ySpent.cut + 1] BY <1>24 DEF Y!Cut
  <2>3. ySpent' \in JudgeSpendings /\ ySpent'.cut # 0 BY <1>1, <2>2 DEF JudgeSpendings
  <2>4. yWork' \in [Replica \cup Request -> JudgeWorks] BY <1>1, <1>12, <2>1
  <2>5. QED BY <1>1, <2>1, <2>3, <2>4 DEF JudgeInv, JudgeTypes, Y!Alone
<1>25. CASE Y!Next
  BY <1>7, <1>8, <1>13, <1>14, <1>16, <1>17, <1>18, <1>19, <1>20, <1>21, <1>22, <1>23, <1>24,
     <1>25 DEF Y!Next
<1>26. QED BY <1>9, <1>25

\* While somebody is at work nothing is undone yet.
LEMMA JudgeHolds == JudgeInv => Y!UndoneIsUndone
<1> SUFFICES ASSUME JudgeInv, Y!Alone, record.decision = "undone"
             PROVE  kept = 0 /\ (record.verdict = "escalate" => row.tier = made.tier /\ row.delivered = made.delivered)
  BY DEF Y!UndoneIsUndone
<1>1. JudgeAccounted BY DEF JudgeInv
<1>2. ASSUME NEW w \in Replica \cup Request PROVE yWork[w].at = "rest"
  <2>1. JudgeAtWork(yWork[w], w) BY <1>1, <1>2 DEF JudgeAccounted
  <2>2. QED BY <2>1 DEF JudgeAtWork, Y!NoRecord
<1>3. JudgeTakenBack(record.verdict) BY <1>1, <1>2 DEF JudgeAccounted, JudgeRecorded
<1>4. QED BY <1>3 DEF JudgeTakenBack

\* UndoneIsUndone: a request keeps the record it read in hand to the end, what undoing
\* needs is in it, and a digest finds nothing of tier 2 that is not escalated (_perform,
\* decide).
THEOREM UndoneLeavesNothing == Spec => []UndoneIsUndone
<1>1. Init => JudgeInv
  BY JudgeInit DEF Init
<1>2. JudgeInv /\ [Next]_vars => JudgeInv'
  BY JudgeStep, OnePartMoves
<1>3. JudgeInv => UndoneIsUndone
  BY JudgeHolds DEF UndoneIsUndone
<1>4. QED
  BY <1>1, <1>2, <1>3, PTL DEF Spec


-----------------------------------------------------------------------------
(* The learners (Learning) *)

\* The shapes.
LearnPassOK(x) == x = [at |-> x.at, mode |-> x.mode, slots |-> x.slots, hour |-> x.hour, value |-> x.value]
LearnPassesOK(f) == DOMAIN f = Replica /\ \A l \in Replica : LearnPassOK(f[l])
LearnSpentOK(x) == /\ x = [overlap |-> x.overlap, change |-> x.change, resized |-> x.resized]
              /\ x.overlap \in Nat /\ x.resized \in BOOLEAN

\* The anchor was made, and the hour lies within the clamp of it.
LearnAnchored(h) == anchor # L!None /\ L!Within(h, anchor.hour)

LearnOnePass == \A l, e \in Replica : pass[l].at # "rest" /\ pass[e].at # "rest" => l = e
LearnOneSlot == times.slots = 1 /\ (anchor # L!None => anchor.slots = 1)
LearnPassAnchored(x) ==
  /\ x.at \in {"anchor", "insert", "shift"} => x.slots = 1
  /\ x.at = "insert" => anchor = L!None
  /\ x.at = "shift" => anchor # L!None /\ x.hour = anchor.hour
LearnPassesAnchored == \A l \in Replica : LearnPassAnchored(pass[l])
LearnTimesAnchored ==
  /\ \A p \in proposals : p.what = "times" => p.slots = 1 /\ LearnAnchored(p.value)
  /\ times.by = "learner" => LearnAnchored(times.hour)

\* Passes one after the other, and the number of times as it was.
LearnSteady == ~lSpent.resized /\ lSpent.overlap = 0

LearnInv ==
  /\ LearnPassesOK(pass) /\ LearnSpentOK(lSpent) /\ topic \in {"tier", "times", "bar", "brief"}
  /\ LearnSteady => LearnOnePass /\ LearnOneSlot /\ LearnPassesAnchored /\ LearnTimesAnchored

LEMMA LearnInit == L!Init => LearnInv
<1> SUFFICES ASSUME L!Init PROVE LearnInv
  OBVIOUS
<1>1. LearnPassesOK(pass) BY DEF L!Init, LearnPassesOK, LearnPassOK, L!Rest
<1>2. LearnSpentOK(lSpent) /\ topic \in {"tier", "times", "bar", "brief"}
  BY DEF L!Init, LearnSpentOK
<1>3. LearnOnePass /\ LearnPassesAnchored
  BY DEF L!Init, LearnOnePass, LearnPassesAnchored, LearnPassAnchored, L!Rest
<1>4. LearnOneSlot /\ LearnTimesAnchored BY DEF L!Init, LearnOneSlot, LearnTimesAnchored, L!None
<1>5. QED BY <1>1, <1>2, <1>3, <1>4 DEF LearnInv

\* How many passes a pass begins beside.
LearnBeside(l) == Cardinality({k \in Replica \ {l} : pass[k].at # "rest"})

LEMMA LearnBesideNone ==
  ASSUME NEW l \in Replica
  PROVE  LearnBeside(l) \in Nat /\ (LearnBeside(l) = 0 => \A k \in Replica : pass[k].at # "rest" => k = l)
<1> DEFINE others == {k \in Replica \ {l} : pass[k].at # "rest"}
<1>1. IsFiniteSet(others) BY ReplicasAreFinite, FS_Subset
<1>2. Cardinality(others) \in Nat /\ (Cardinality(others) = 0 => others = {})
  BY <1>1, FS_CardinalityType, FS_EmptySet
<1>3. QED BY <1>2 DEF LearnBeside

LEMMA LearnStep == LearnInv /\ [L!Next]_L!lvars => LearnInv'
<1> SUFFICES ASSUME LearnInv, [L!Next]_L!lvars PROVE LearnInv'
  OBVIOUS
<1>1. /\ LearnPassesOK(pass) /\ LearnSpentOK(lSpent) /\ topic \in {"tier", "times", "bar", "brief"}
      /\ LearnSteady => LearnOnePass /\ LearnOneSlot /\ LearnPassesAnchored /\ LearnTimesAnchored
  BY DEF LearnInv
<1>2. ASSUME NEW l \in Replica, NEW x, LearnPassOK(x), pass' = [pass EXCEPT ![l] = x]
      PROVE  LearnPassesOK(pass') /\ \A k \in Replica : pass'[k] = IF k = l THEN x ELSE pass[k]
  BY <1>1, <1>2 DEF LearnPassesOK
<1>3. ASSUME UNCHANGED <<topic, pass, lSpent, anchor>>, LearnSteady => LearnOneSlot' /\ LearnTimesAnchored' PROVE LearnInv'
  <2>1. LearnSteady' => LearnSteady BY <1>3 DEF LearnSteady
  <2>2. LearnSteady => LearnOnePass' /\ LearnPassesAnchored'
    BY <1>1, <1>3 DEF LearnOnePass, LearnPassesAnchored, LearnPassAnchored
  <2>3. QED BY <1>1, <1>3, <2>1, <2>2 DEF LearnInv
\* a pass goes on
<1>4. ASSUME NEW l \in Replica, NEW x, LearnPassOK(x), pass' = [pass EXCEPT ![l] = x], pass[l].at # "rest",
             UNCHANGED <<topic, lSpent>>,
             LearnSteady => LearnPassAnchored(x)' /\ LearnOneSlot' /\ LearnTimesAnchored'
      PROVE  LearnInv'
  <2>1. LearnPassesOK(pass') /\ \A k \in Replica : pass'[k] = IF k = l THEN x ELSE pass[k]
    BY <1>2, <1>4
  <2>2. LearnSteady' => LearnSteady BY <1>4 DEF LearnSteady
  <2>3. ASSUME LearnSteady PROVE LearnOnePass' /\ LearnPassesAnchored'
    <3>1. \A k \in Replica : k # l => pass'[k].at = "rest"
      BY <1>1, <1>4, <2>1, <2>3 DEF LearnOnePass
    <3>2. LearnOnePass' BY <3>1 DEF LearnOnePass
    <3>3. \A k \in Replica : LearnPassAnchored(pass[k])'
      BY <1>4, <2>1, <2>3, <3>1 DEF LearnPassAnchored
    <3>4. QED BY <3>2, <3>3 DEF LearnPassesAnchored
  <2>4. QED BY <1>1, <1>4, <2>1, <2>2, <2>3 DEF LearnInv
\* ... and ends, or reads of another topic
<1>5. ASSUME NEW l \in Replica, NEW x, LearnPassOK(x), pass' = [pass EXCEPT ![l] = x], pass[l].at # "rest",
             x.at \notin {"anchor", "insert", "shift"}, UNCHANGED <<topic, lSpent, times, anchor>>,
             \A p \in proposals' : p.what = "times" => p \in proposals
      PROVE  LearnInv'
  <2>1. LearnPassAnchored(x)' BY <1>5 DEF LearnPassAnchored
  <2>2. LearnSteady => LearnOneSlot' /\ LearnTimesAnchored'
    BY <1>1, <1>5 DEF LearnOneSlot, LearnTimesAnchored, LearnAnchored
  <2>3. QED BY <1>4, <1>5, <2>1, <2>2
<1>6. LearnPassOK(L!Rest) /\ L!Rest.at = "rest" BY DEF L!Rest, LearnPassOK
<1>7. ASSUME NEW l \in Replica, NEW x, LearnPassOK(x), x.at \notin {"anchor", "insert", "shift"},
             pass' = [pass EXCEPT ![l] = x], UNCHANGED <<topic, times, anchor, proposals>>,
             lSpent' = [lSpent EXCEPT !.overlap = lSpent.overlap + LearnBeside(l)]
      PROVE  LearnInv'
  <2> DEFINE n == LearnBeside(l)
  <2>1. n \in Nat /\ (n = 0 => \A k \in Replica : pass[k].at # "rest" => k = l) BY LearnBesideNone
  <2>2. lSpent' = [lSpent EXCEPT !.overlap = lSpent.overlap + n] BY <1>7
  <2> HIDE DEF n
  <2>3. LearnSpentOK(lSpent') /\ (LearnSteady' => LearnSteady /\ n = 0)
    BY <1>1, <2>1, <2>2 DEF LearnSpentOK, LearnSteady
  <2>4. LearnPassesOK(pass') /\ \A k \in Replica : pass'[k] = IF k = l THEN x ELSE pass[k]
    <3>1. LearnPassOK(x) /\ pass' = [pass EXCEPT ![l] = x] BY <1>7
    <3>2. QED BY <1>2, <3>1
  <2>5. ASSUME LearnSteady, n = 0 PROVE LearnOnePass' /\ LearnOneSlot' /\ LearnPassesAnchored' /\ LearnTimesAnchored'
    <3>1. \A k \in Replica : k # l => pass'[k].at = "rest" BY <2>1, <2>4, <2>5
    <3>2. LearnOnePass' BY <3>1 DEF LearnOnePass
    <3>3. \A k \in Replica : LearnPassAnchored(pass[k])'
      BY <1>7, <2>4, <3>1 DEF LearnPassAnchored
    <3>4. LearnOneSlot' /\ LearnTimesAnchored'
      BY <1>1, <1>7, <2>5 DEF LearnOneSlot, LearnTimesAnchored, LearnAnchored
    <3>5. QED BY <3>2, <3>3, <3>4 DEF LearnPassesAnchored
  <2>6. QED BY <1>1, <1>7, <2>3, <2>4, <2>5 DEF LearnInv
<1>8. ASSUME NEW l \in Replica, L!Begin(l) PROVE LearnInv'
  <2> DEFINE x == [L!Rest EXCEPT !.at = topic, !.mode = lMode]
  <2>1. x = [at |-> topic, mode |-> lMode, slots |-> 0, hour |-> 0, value |-> 0]
    <3> DEFINE h == [L!Rest EXCEPT !.at = topic]
    <3>1. h = [at |-> topic, mode |-> "off", slots |-> 0, hour |-> 0, value |-> 0] BY DEF L!Rest
    <3> HIDE DEF h
    <3>2. [h EXCEPT !.mode = lMode] = [at |-> topic, mode |-> lMode, slots |-> 0, hour |-> 0, value |-> 0]
      BY <3>1
    <3>3. QED BY <3>2 DEF h
  <2>2. pass' = [pass EXCEPT ![l] = x] /\ UNCHANGED <<topic, times, anchor, proposals>>
    BY <1>8 DEF L!Begin
  <2>3. lSpent' = [lSpent EXCEPT !.overlap = lSpent.overlap + LearnBeside(l)]
    BY <1>8, SameSize DEF L!Begin, LearnBeside
  <2>4. x.at = topic /\ LearnPassOK(x) BY <2>1 DEF LearnPassOK
  <2> HIDE DEF x
  <2>5. QED BY <1>1, <1>7, <2>2, <2>3, <2>4
<1>9. ASSUME NEW l \in Replica, L!LookBriefed(l) PROVE LearnInv'
  <2> DEFINE x == [L!Rest EXCEPT !.at = "brief", !.value = window.hour]
  <2>1. x = [at |-> "brief", mode |-> "off", slots |-> 0, hour |-> 0, value |-> window.hour]
    <3> DEFINE h == [L!Rest EXCEPT !.at = "brief"]
    <3>1. h = [at |-> "brief", mode |-> "off", slots |-> 0, hour |-> 0, value |-> 0] BY DEF L!Rest
    <3> HIDE DEF h
    <3>2. [h EXCEPT !.value = window.hour] = [at |-> "brief", mode |-> "off", slots |-> 0, hour |-> 0, value |-> window.hour]
      BY <3>1
    <3>3. QED BY <3>2 DEF h
  <2>2. pass' = [pass EXCEPT ![l] = x] /\ UNCHANGED <<topic, times, anchor, proposals>>
    BY <1>9 DEF L!LookBriefed
  <2>3. lSpent' = [lSpent EXCEPT !.overlap = lSpent.overlap + LearnBeside(l)]
    BY <1>9, SameSize DEF L!LookBriefed, LearnBeside
  <2>4. x.at = "brief" /\ LearnPassOK(x) BY <2>1 DEF LearnPassOK
  <2> HIDE DEF x
  <2>5. QED BY <1>7, <2>2, <2>3, <2>4
<1>10. ASSUME NEW l \in Replica, L!Ends(l), pass[l].at # "rest", UNCHANGED <<topic, lSpent, times, anchor>>,
              \A p \in proposals' : p.what = "times" => p \in proposals
       PROVE  LearnInv'
  <2>1. pass' = [pass EXCEPT ![l] = L!Rest] BY <1>10 DEF L!Ends
  <2>2. QED BY <1>5, <1>6, <1>10, <2>1
<1>11. ASSUME NEW l \in Replica, L!Retier(l) \/ L!Threshold(l) PROVE LearnInv'
  <2>1. ASSUME NEW what \in {"tier", "bar"}, NEW v, L!Propose(what, 0, v)
        PROVE  \A p \in proposals' : p.what = "times" => p \in proposals
    BY <2>1 DEF L!Propose
  <2>2. \A p \in proposals' : p.what = "times" => p \in proposals
    BY <1>11, <2>1 DEF L!Retier, L!Threshold
  <2>3. L!Ends(l) /\ pass[l].at # "rest" /\ UNCHANGED <<topic, lSpent, times, anchor>>
    BY <1>11 DEF L!Retier, L!Threshold
  <2>4. QED BY <1>10, <2>2, <2>3
<1>12. ASSUME NEW l \in Replica, NEW at \in {"retier", "set"}, NEW v, pass[l].at # "rest",
              pass' = [pass EXCEPT ![l].at = at, ![l].value = v], UNCHANGED <<topic, lSpent, times, anchor, proposals>>
       PROVE  LearnInv'
  <2> DEFINE h == [pass[l] EXCEPT !.at = at]
             x == [h EXCEPT !.value = v]
  <2>1. h = [at |-> at, mode |-> h.mode, slots |-> h.slots, hour |-> h.hour, value |-> h.value]
    BY <1>1 DEF LearnPassesOK, LearnPassOK
  <2>2. pass' = [pass EXCEPT ![l] = x] BY <1>1, <1>12 DEF LearnPassesOK
  <2> HIDE DEF h
  <2>3. x = [at |-> at, mode |-> h.mode, slots |-> h.slots, hour |-> h.hour, value |-> v]
    BY <2>1
  <2>4. LearnPassOK(x) /\ x.at = at BY <2>3 DEF LearnPassOK
  <2> HIDE DEF x
  <2>5. QED BY <1>5, <1>12, <2>2, <2>4
<1>13. ASSUME NEW l \in Replica, L!Signals(l) PROVE LearnInv'
  <2>1. pass[l].at # "rest" /\ UNCHANGED <<topic, lSpent, times, anchor, proposals>>
    BY <1>13 DEF L!Signals
  <2>2. L!Ends(l) \/ \E v : pass' = [pass EXCEPT ![l].at = "retier", ![l].value = v]
    BY <1>13 DEF L!Signals
  <2>3. QED BY <1>10, <1>12, <2>1, <2>2
<1>14. ASSUME NEW l \in Replica, L!Judged(l) PROVE LearnInv'
  <2>1. pass[l].at # "rest" /\ UNCHANGED <<topic, lSpent, times, anchor, proposals>>
    BY <1>14 DEF L!Judged
  <2>2. \E v : pass' = [pass EXCEPT ![l].at = "set", ![l].value = v] BY <1>14 DEF L!Judged
  <2>3. QED BY <1>12, <2>1, <2>2
<1>15. ASSUME NEW l \in Replica, L!Brief(l) \/ L!Cut(l) PROVE LearnInv'
  <2>1. L!Ends(l) /\ pass[l].at # "rest" /\ UNCHANGED <<topic, lSpent, times, anchor, proposals>>
    BY <1>15 DEF L!Brief, L!Cut
  <2>2. QED BY <1>10, <2>1
<1>16. ASSUME NEW l \in Replica, L!ReadTimes(l) PROVE LearnInv'
  <2>1. pass[l].at # "rest" /\ UNCHANGED <<topic, lSpent, times, anchor, proposals>>
    BY <1>16 DEF L!ReadTimes
  <2>2. CASE L!Ends(l) BY <1>10, <2>1, <2>2
  <2>3. CASE pass' = [pass EXCEPT ![l].at = "anchor", ![l].slots = times.slots, ![l].hour = times.hour]
    <3> DEFINE g == [pass[l] EXCEPT !.at = "anchor"]
               h == [g EXCEPT !.slots = times.slots]
               x == [h EXCEPT !.hour = times.hour]
    <3>1. g = [at |-> "anchor", mode |-> g.mode, slots |-> g.slots, hour |-> g.hour, value |-> g.value]
      BY <1>1 DEF LearnPassesOK, LearnPassOK
    <3>2. pass' = [pass EXCEPT ![l] = x] BY <1>1, <2>3 DEF LearnPassesOK
    <3> HIDE DEF g
    <3>3. h = [at |-> "anchor", mode |-> g.mode, slots |-> times.slots, hour |-> g.hour, value |-> g.value]
      BY <3>1
    <3> HIDE DEF h
    <3>4. x = [at |-> "anchor", mode |-> g.mode, slots |-> times.slots, hour |-> times.hour, value |-> g.value]
      BY <3>3
    <3>5. LearnPassOK(x) /\ x.at = "anchor" /\ x.slots = times.slots BY <3>4 DEF LearnPassOK
    <3> HIDE DEF x
    <3>6. PICK e : e = x OBVIOUS
    <3>7. LearnSteady => LearnPassAnchored(e)' /\ LearnOneSlot' /\ LearnTimesAnchored'
      BY <1>1, <2>1, <3>5, <3>6 DEF LearnPassAnchored, LearnOneSlot, LearnTimesAnchored,
         LearnAnchored
    <3>8. QED BY <1>4, <2>1, <3>2, <3>5, <3>6, <3>7
  <2>4. QED BY <1>16, <2>2, <2>3 DEF L!ReadTimes
<1>17. ASSUME NEW l \in Replica, L!FindAnchor(l) PROVE LearnInv'
  <2> DEFINE to == IF anchor = L!None THEN "insert" ELSE "shift"
             hour == IF anchor.slots = pass[l].slots THEN anchor.hour ELSE pass[l].hour
             x == [at |-> to, mode |-> pass[l].mode, slots |-> pass[l].slots, hour |-> hour, value |-> pass[l].value]
  <2>1. pass[l].at = "anchor" /\ UNCHANGED <<topic, lSpent, times, anchor, proposals>>
    BY <1>17 DEF L!FindAnchor
  <2>2. pass' = [pass EXCEPT ![l].at = to, ![l].hour = hour] BY <1>17 DEF L!FindAnchor
  <2>3. PICK e : e = x OBVIOUS
  <2> HIDE DEF to, hour
  <2>4. pass' = [pass EXCEPT ![l] = e]
    <3> DEFINE h == [pass[l] EXCEPT !.at = to]
    <3>1. h = [at |-> to, mode |-> pass[l].mode, slots |-> pass[l].slots, hour |-> pass[l].hour, value |-> pass[l].value]
      BY <1>1 DEF LearnPassesOK, LearnPassOK
    <3>2. pass' = [pass EXCEPT ![l] = [h EXCEPT !.hour = hour]] BY <1>1, <2>2 DEF LearnPassesOK
    <3> HIDE DEF h
    <3>3. [h EXCEPT !.hour = hour] = x BY <3>1
    <3>4. QED BY <2>3, <3>2, <3>3
  <2>5. LearnPassOK(e) /\ e.at = to /\ e.slots = pass[l].slots /\ e.hour = hour
    BY <2>3 DEF LearnPassOK
  <2>6. ASSUME LearnSteady PROVE LearnPassAnchored(e)' /\ LearnOneSlot' /\ LearnTimesAnchored'
    <3>1. e.slots = 1 /\ (anchor # L!None => anchor.slots = 1)
      BY <1>1, <2>1, <2>5, <2>6 DEF LearnPassesAnchored, LearnPassAnchored, LearnOneSlot
    <3>2. LearnPassAnchored(e)' BY <2>1, <2>5, <3>1 DEF LearnPassAnchored, to, hour
    <3>3. LearnOneSlot' /\ LearnTimesAnchored'
      BY <1>1, <2>1, <2>6 DEF LearnOneSlot, LearnTimesAnchored, LearnAnchored
    <3>4. QED BY <3>2, <3>3
  <2>7. QED BY <1>4, <2>1, <2>4, <2>5, <2>6
<1>18. ASSUME NEW l \in Replica, L!InsertAnchor(l) PROVE LearnInv'
  <2>1. /\ pass[l].at = "insert" /\ UNCHANGED <<topic, lSpent, times, proposals>>
        /\ anchor' = [slots |-> pass[l].slots, hour |-> pass[l].hour]
        /\ pass' = [pass EXCEPT ![l].at = "shift"]
    BY <1>18 DEF L!InsertAnchor
  <2>2. PICK e : e = [at |-> "shift", mode |-> pass[l].mode, slots |-> pass[l].slots, hour |-> pass[l].hour,
                      value |-> pass[l].value]
    OBVIOUS
  <2>3. pass' = [pass EXCEPT ![l] = e]
    <3>1. LearnPassOK(pass[l]) BY <1>1 DEF LearnPassesOK
    <3>2. [pass[l] EXCEPT !.at = "shift"] = e BY <2>2, <3>1 DEF LearnPassOK
    <3>3. QED BY <2>1, <3>2
  <2>4. LearnPassOK(e) /\ e.at = "shift" /\ e.slots = pass[l].slots /\ e.hour = pass[l].hour
    BY <2>2 DEF LearnPassOK
  <2>5. ASSUME LearnSteady PROVE LearnPassAnchored(e)' /\ LearnOneSlot' /\ LearnTimesAnchored'
    <3>1. pass[l].slots = 1 /\ anchor = L!None
      BY <1>1, <2>1, <2>5 DEF LearnPassesAnchored, LearnPassAnchored
    <3>2. anchor' # L!None /\ anchor'.hour = e.hour /\ anchor'.slots = 1
      BY <2>1, <2>4, <3>1 DEF L!None
    <3>3. LearnPassAnchored(e)' BY <2>4, <3>1, <3>2 DEF LearnPassAnchored
    <3>4. LearnOneSlot' BY <1>1, <2>1, <2>5, <3>2 DEF LearnOneSlot
    <3>5. LearnTimesAnchored'
      <4>1. LearnTimesAnchored BY <1>1, <2>5
      <4>2. times.by # "learner" /\ \A p \in proposals : p.what # "times"
        BY <3>1, <4>1 DEF LearnTimesAnchored, LearnAnchored
      <4>3. QED BY <2>1, <4>2 DEF LearnTimesAnchored
    <3>6. QED BY <3>3, <3>4, <3>5
  <2>6. QED BY <1>4, <2>1, <2>3, <2>4, <2>5
<1>19. ASSUME NEW l \in Replica, L!Shift(l) PROVE LearnInv'
  <2>1. /\ pass[l].at = "shift" /\ UNCHANGED <<topic, lSpent, anchor>> /\ pass' = [pass EXCEPT ![l] = L!Rest]
        /\ \E h \in L!Target(l) :
             \/ times' = [slots |-> pass[l].slots, hour |-> h, by |-> "learner"] /\ proposals' = proposals
             \/ L!Propose("times", pass[l].slots, h) /\ times' = times
    BY <1>19 DEF L!Shift, L!Ends
  <2>2. PICK h \in L!Target(l) :
             \/ times' = [slots |-> pass[l].slots, hour |-> h, by |-> "learner"] /\ proposals' = proposals
             \/ L!Propose("times", pass[l].slots, h) /\ times' = times
    BY <2>1
  <2>3. ASSUME LearnSteady PROVE LearnPassAnchored(L!Rest)' /\ LearnOneSlot' /\ LearnTimesAnchored'
    <3>1. pass[l].slots = 1 /\ anchor # L!None /\ pass[l].hour = anchor.hour
      BY <1>1, <2>1, <2>3 DEF LearnPassesAnchored, LearnPassAnchored
    <3>2. LearnAnchored(h) BY <2>2, <3>1 DEF L!Target, LearnAnchored
    <3>3. LearnAnchored(h)' BY <2>1, <3>2 DEF LearnAnchored
    <3>4. LearnPassAnchored(L!Rest)' BY <1>6 DEF LearnPassAnchored
    <3>5. LearnOneSlot /\ LearnTimesAnchored BY <1>1, <2>3
    <3>6. CASE times' = [slots |-> pass[l].slots, hour |-> h, by |-> "learner"] /\ proposals' = proposals
      <4>1. LearnOneSlot' BY <2>1, <3>1, <3>5, <3>6 DEF LearnOneSlot
      <4>2. LearnTimesAnchored' BY <2>1, <3>3, <3>5, <3>6 DEF LearnTimesAnchored, LearnAnchored
      <4>3. QED BY <3>4, <4>1, <4>2
    <3>7. CASE L!Propose("times", pass[l].slots, h) /\ times' = times
      <4>1. LearnOneSlot' BY <2>1, <3>5, <3>7 DEF LearnOneSlot
      <4>2. proposals' = proposals \cup {[what |-> "times", slots |-> pass[l].slots, value |-> h]}
        BY <3>7 DEF L!Propose
      <4>3. \A p \in proposals' : p \in proposals \/ (p.value = h /\ p.slots = 1) BY <3>1, <4>2
      <4>4. LearnTimesAnchored'
        BY <2>1, <3>2, <3>5, <3>7, <4>3 DEF LearnTimesAnchored, LearnAnchored
      <4>5. QED BY <3>4, <4>1, <4>4
    <3>8. QED BY <2>2, <3>6, <3>7
  <2>4. pass[l].at # "rest" BY <2>1
  <2>5. QED BY <1>4, <1>6, <2>1, <2>3, <2>4
<1>20. CASE L!Approve
  <2>1. PICK p \in proposals :
          times' = IF p.what = "times" THEN [slots |-> p.slots, hour |-> p.value, by |-> "learner"] ELSE times
    BY <1>20 DEF L!Approve
  <2>2. UNCHANGED <<topic, pass, lSpent, anchor, proposals>> BY <1>20 DEF L!Approve
  <2>3. ASSUME LearnSteady PROVE LearnOneSlot' /\ LearnTimesAnchored'
    <3>1. LearnOneSlot /\ LearnTimesAnchored BY <1>1, <2>3
    <3>2. CASE p.what = "times"
      <4>1. times' = [slots |-> p.slots, hour |-> p.value, by |-> "learner"] BY <2>1, <3>2
      <4>2. p.slots = 1 /\ LearnAnchored(p.value) BY <3>1, <3>2 DEF LearnTimesAnchored
      <4>3. QED BY <2>2, <3>1, <4>1, <4>2 DEF LearnOneSlot, LearnTimesAnchored, LearnAnchored
    <3>3. CASE p.what # "times"
      <4>1. times' = times BY <2>1, <3>3
      <4>2. QED BY <2>2, <3>1, <4>1 DEF LearnOneSlot, LearnTimesAnchored, LearnAnchored
    <3>4. QED BY <3>2, <3>3
  <2>4. QED BY <1>3, <2>2, <2>3
<1>21. CASE L!Reject \/ L!Rule \/ L!NextHour
  <2>1. UNCHANGED <<topic, pass, lSpent, anchor, times>> /\ proposals' \subseteq proposals
    BY <1>21 DEF L!Reject, L!Rule, L!NextHour
  <2>2. LearnSteady => LearnOneSlot' /\ LearnTimesAnchored'
    BY <1>1, <2>1 DEF LearnOneSlot, LearnTimesAnchored, LearnAnchored
  <2>3. QED BY <1>3, <2>1, <2>2
<1>22. ASSUME NEW s, LearnSpentOK(s), s.overlap = lSpent.overlap, s.resized = lSpent.resized,
              lSpent' = s, UNCHANGED <<topic, pass, anchor, times, proposals>>
       PROVE  LearnInv'
  <2>1. LearnSteady' => LearnSteady BY <1>22 DEF LearnSteady
  <2>2. LearnSteady => LearnOnePass' /\ LearnOneSlot' /\ LearnPassesAnchored' /\ LearnTimesAnchored'
    BY <1>1, <1>22 DEF LearnOnePass, LearnOneSlot, LearnPassesAnchored, LearnPassAnchored,
       LearnTimesAnchored, LearnAnchored
  <2>3. QED BY <1>1, <1>22, <2>1, <2>2 DEF LearnInv
<1>23. CASE L!Revert
  <2> DEFINE s == [lSpent EXCEPT !.change = lSpent.change + 1]
  <2>1. s = [overlap |-> lSpent.overlap, change |-> lSpent.change + 1, resized |-> lSpent.resized]
    BY <1>1 DEF LearnSpentOK
  <2>2. lSpent' = s /\ UNCHANGED <<topic, pass, anchor, times, proposals>>
    BY <1>23 DEF L!Revert, L!Change
  <2> HIDE DEF s
  <2>3. LearnSpentOK(s) /\ s.overlap = lSpent.overlap /\ s.resized = lSpent.resized
    BY <1>1, <2>1 DEF LearnSpentOK
  <2>4. QED BY <1>22, <2>2, <2>3
<1>24. CASE L!Configure
  <2>1. PICK n \in 1..2, h \in Hour :
          /\ lSpent' = [lSpent EXCEPT !.change = lSpent.change + 1, !.resized = lSpent.resized \/ n # times.slots]
          /\ times' = [slots |-> n, hour |-> h, by |-> "user"]
    BY <1>24 DEF L!Configure
  <2>2. UNCHANGED <<topic, pass, anchor, proposals>> BY <1>24 DEF L!Configure
  <2> DEFINE s == [lSpent EXCEPT !.change = lSpent.change + 1]
             resized == lSpent.resized \/ n # times.slots
  <2>3. s = [overlap |-> lSpent.overlap, change |-> lSpent.change + 1, resized |-> lSpent.resized]
    BY <1>1 DEF LearnSpentOK
  <2>4. lSpent' = [s EXCEPT !.resized = resized] BY <2>1
  <2> HIDE DEF s
  <2>5. lSpent' = [overlap |-> lSpent.overlap, change |-> lSpent.change + 1, resized |-> resized]
    BY <2>3, <2>4
  <2>6. resized \in BOOLEAN BY <1>1 DEF LearnSpentOK
  <2> HIDE DEF resized
  <2>7. LearnSpentOK(lSpent') BY <1>1, <2>5, <2>6 DEF LearnSpentOK
  <2>8. LearnSteady' => LearnSteady /\ n = times.slots
    BY <1>1, <2>5 DEF LearnSteady, LearnSpentOK, resized
  <2>9. ASSUME LearnSteady, n = times.slots PROVE LearnOnePass' /\ LearnOneSlot' /\ LearnPassesAnchored' /\ LearnTimesAnchored'
    <3>1. LearnOnePass' /\ LearnPassesAnchored'
      BY <1>1, <2>2, <2>9 DEF LearnOnePass, LearnPassesAnchored, LearnPassAnchored
    <3>2. LearnOneSlot' /\ LearnTimesAnchored'
      BY <1>1, <2>1, <2>2, <2>9 DEF LearnOneSlot, LearnTimesAnchored, LearnAnchored
    <3>3. QED BY <3>1, <3>2
  <2>10. QED BY <1>1, <2>2, <2>7, <2>8, <2>9 DEF LearnInv
<1>25. CASE UNCHANGED L!lvars
  <2>1. UNCHANGED <<topic, pass, lSpent, anchor, times, proposals>> BY <1>25 DEF L!lvars
  <2>2. LearnSteady => LearnOneSlot' /\ LearnTimesAnchored'
    BY <1>1, <2>1 DEF LearnOneSlot, LearnTimesAnchored, LearnAnchored
  <2>3. QED BY <1>3, <2>1, <2>2
<1>26. CASE L!Next
  BY <1>8, <1>9, <1>11, <1>13, <1>14, <1>15, <1>16, <1>17, <1>18, <1>19, <1>20, <1>21, <1>23,
     <1>24, <1>26 DEF L!Next
<1>27. QED BY <1>25, <1>26

\* DriftBounded: a pass shifts around the hour of the anchor it found or made, one proposal
\* after another keeps to the same anchor, and an approval, however late, takes over no
\* other time (_digest_anchor, _learn_digest_times).
THEOREM TimesDontDrift == Spec => []DriftBounded
<1>1. Init => LearnInv
  BY LearnInit DEF Init
<1>2. LearnInv /\ [Next]_vars => LearnInv'
  BY LearnStep, OnePartMoves
<1>3. LearnInv => DriftBounded
  BY DEF DriftBounded, LearnInv, LearnSteady, LearnTimesAnchored, LearnAnchored, L!DriftBounded
<1>4. QED
  BY <1>1, <1>2, <1>3, PTL DEF Spec




=============================================================================
