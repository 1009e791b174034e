------------------------------ MODULE Learned -------------------------------
(***************************************************************************)
(* What runs and users leave behind, memories, exemplars and episodes, and *)
(* the clock the periodic jobs go by. They share no state, so in a         *)
(* behaviour one of them moves (part). Each is a module of its own; what   *)
(* is claimed of it is claimed here, and proved of it in LearnedProofs.    *)
(***************************************************************************)
EXTENDS Naturals, Sequences, FiniteSets

CONSTANTS
  Replica, MaxCut,
  Job, Retention, Gated, Quiet, Interval, MaxTime,  \* the periodic jobs
  MaxRun,                                  \* exemplars
  Episode, MaxFirst,                       \* episodes
  Text, Extractor, MaxRow                  \* memories

\* A tail of rows is kept for those that replace others.
ASSUME BoundsAreNumbers == MaxRun \in Nat /\ MaxRow \in Nat /\ MaxFirst \in Nat /\ MaxFirst < MaxRow

VARIABLES part,
  time, clock, lock, tick, ended, idle, cuts,
  run, vote, ex, post, judge, served, xCuts,
  digest, old, gone, period, rollup, pipe, fold, dCuts,
  rows, tombs, job, review, overlap

J == INSTANCE JobClock
X == INSTANCE Exemplars WITH cuts <- xCuts
D == INSTANCE Episodes WITH cuts <- dCuts
H == INSTANCE MemoryStore

jv == <<time, clock, lock, tick, ended, idle, cuts>>
xv == <<run, vote, ex, post, judge, served, xCuts>>
dv == <<digest, old, gone, period, rollup, pipe, fold, dCuts>>
hv == <<rows, tombs, job, review, overlap>>

\* A part that does not move starts in one of its states.
Init ==
  /\ part \in {"clock", "exemplars", "episodes", "memory"}
  /\ J!Init /\ X!Init /\ D!Init /\ H!Init

Next ==
  /\ part' = part
  /\ \/ part = "clock"     /\ J!Next /\ UNCHANGED <<xv, dv, hv>>
     \/ part = "exemplars" /\ X!Next /\ UNCHANGED <<jv, dv, hv>>
     \/ part = "episodes"  /\ D!Next /\ UNCHANGED <<jv, xv, hv>>
     \/ part = "memory"    /\ H!Next /\ UNCHANGED <<jv, xv, dv>>

vars == <<part, jv, xv, dv, hv>>

Spec == Init /\ [][Next]_vars

\* The job clock claims no run whose function did not return; of a job that is on and
\* raises what fails, none that did not work (memory/lifecycle.py, jobclock.py).
StampMeansRan == J!StampMeansRan

\* No heuristic retires an exemplar that has served (memory/procedural.py).
ServedStays == X!ServedStays

\* A run's digest is kept or counted in the period's, once, and told of there until the
\* period's text is full (memory/episodic.py).
RememberedOnce == D!RememberedOnce

\* Superseded memories stay superseded, linked both ways (memory/store.py).
AppendOnly == H!AppendOnly

=============================================================================
