------------------------------ MODULE Triggers ------------------------------
(***************************************************************************)
(* What the leader's tick evaluates: a routine's wakeups and runs, its     *)
(* schedules, a watch, a composite pattern, the learners, and the judge of *)
(* unread deliveries. They share no state, so in a behaviour one of them   *)
(* moves (part). Each is a module of its own; what is claimed of it is     *)
(* claimed here, and proved of it in TriggersProofs.                       *)
(***************************************************************************)
EXTENDS Naturals, Sequences, FiniteSets

CONSTANTS
  Replica, Request, MaxCut, MaxOverlap, MaxToggle, MaxBroken, MaxFaults,
  MaxEvent, MaxWake, MaxPending, DayCap, FailLimit, KillSwitch,          \* a routine
  Trigger, Once, Every, MaxMinute, QuarantineAfter,                      \* its schedules
  FeedSize, SeenCap, MaxItem, PerCheck, Base, Multiplier, Longest, Deadline,  \* a watch
  MaxJudged, MaxWindow, MaxChange, MaxProposal, Hour, ClampH             \* the learners

ASSUME ReplicasAreFinite == IsFiniteSet(Replica)
ASSUME BoundsAreNumbers == MaxEvent \in Nat /\ MaxWake \in Nat /\ FailLimit \in Nat \ {0}
ASSUME TriggersAreNumbers == Trigger \subseteq Nat \ {0} /\ Every \in [Trigger -> Nat]
ASSUME WatchesAreNumbers == MaxItem \in Nat /\ FeedSize \in Nat /\ SeenCap \in Nat /\ PerCheck \in Nat
ASSUME PassesAreNoRequests == Replica \cap Request = {}

VARIABLES part,
  routine, event, wakeup, tick, book, spent,
  sRoutine, events, minute, sTick, sSpent,
  published, watch, now, poll, emitted, forgotten, wSpent,
  kind, pEvent, instance, work, expiry, derived, cooling, met, cuts,
  mode, row, record, kept, yWork, made, ySpent,
  topic, lMode, tier, bar, times, anchor, proposals, pass, window, lSpent

R == INSTANCE Routine WITH Ticker <- Replica
S == INSTANCE Schedules WITH Ticker <- Replica, routine <- sRoutine, tick <- sTick, spent <- sSpent
W == INSTANCE Watches WITH spent <- wSpent
P == INSTANCE Patterns WITH Drain <- Replica, event <- pEvent
Y == INSTANCE Salience WITH Judge <- Replica, work <- yWork, spent <- ySpent
L == INSTANCE Learning WITH Learner <- Replica, mode <- lMode, spent <- lSpent

Init ==
  /\ part \in {"routine", "schedules", "watch", "pattern", "salience", "learning"}
  /\ R!Init /\ S!Init /\ W!Init /\ P!Init
  /\ part # "pattern" => kind = "sequence"
  /\ Y!Init /\ (part # "salience" => mode = "auto")
  /\ L!Init /\ (part # "learning" => topic = "tier" /\ lMode = "off" /\ times.hour = 1)

rvars == <<routine, event, wakeup, tick, book, spent>>
svars == <<sRoutine, events, minute, sTick, sSpent>>
wvars == <<published, watch, now, poll, emitted, forgotten, wSpent>>
pvars == <<kind, pEvent, instance, work, expiry, derived, cooling, met, cuts>>
yvars == <<mode, row, record, kept, yWork, made, ySpent>>
lvars == <<topic, lMode, tier, bar, times, anchor, proposals, pass, window, lSpent>>

Next ==
  /\ part' = part
  /\ \/ part = "routine"   /\ R!Next /\ UNCHANGED <<svars, wvars, pvars, yvars, lvars>>
     \/ part = "schedules" /\ S!Next /\ UNCHANGED <<rvars, wvars, pvars, yvars, lvars>>
     \/ part = "watch"     /\ W!Next /\ UNCHANGED <<rvars, svars, pvars, yvars, lvars>>
     \/ part = "pattern"   /\ P!Next /\ UNCHANGED <<rvars, svars, wvars, yvars, lvars>>
     \/ part = "salience"  /\ Y!Next /\ UNCHANGED <<rvars, svars, wvars, pvars, lvars>>
     \/ part = "learning"  /\ L!Next /\ UNCHANGED <<rvars, svars, wvars, pvars, yvars>>

vars == <<part, rvars, svars, wvars, pvars, yvars, lvars>>

Spec == Init /\ [][Next]_vars

\* A wakeup becomes one event, but for ticks side by side (wakeups.py).
WakeupFiresOnce == R!WakeupFiresOnce

\* A routine that keeps failing is paused, but for failures counted side by side or lost
\* with a process (execute.py, finish_ambient_run).
FailingRoutineStops == R!FailingRoutineStops

\* A trigger fires once per interval, but for a stamp lost or overwritten (triggers.py).
FiresOncePerInterval == S!FiresOncePerInterval

\* No item of a feed is reported twice, but one whose key the seen-list lost (sources.py).
ItemReportedOnce == W!ItemReportedOnce

\* A pattern instance gives rise to one event, but for those read side by side (patterns.py).
DerivedOnce == P!DerivedOnce

\* A verdict on a delivery that was undone leaves nothing behind, if no passes or
\* requests met and none was cut short (salience.py).
UndoneIsUndone == Y!UndoneIsUndone

\* What is learned of the digest's time does not drift, while passes do not overlap and
\* the number of times a day stays what it was (ambient/learn.py).
DriftBounded == L!DriftBounded

=============================================================================
