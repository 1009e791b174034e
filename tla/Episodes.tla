------------------------------- MODULE Episodes -------------------------------
(***************************************************************************)
(* The episodes of one conversation (memory/episodic.py): the pipeline of  *)
(* a completed run leaves a digest and refreshes the conversation's rollup,*)
(* and the compaction job folds the old digests into one period digest: it *)
(* decides the fold, embeds the text with no session open, and writes.     *)
(* Meanwhile runs end, digests grow old, and runs are deleted over the     *)
(* API, their digests with them.  JobClock has the lock that keeps         *)
(* compactions apart.                                                      *)
(***************************************************************************)
EXTENDS Naturals, FiniteSets

CONSTANTS
  Episode,  \* runs of the conversation
  MaxCut    \* bound: compactions that die

VARIABLES
  digest,  \* runs with a digest row
  old,     \* digests past the cut-off
  gone,    \* runs deleted
  period,  \* the period row: whether there is one, its runs_folded, the runs in its text,
           \* whether that is full, and the runs ever folded into it
  rollup,  \* conversation_rollups.runs_covered
  pipe,    \* run -> its pipeline: step, the digests its rollup read
  fold,    \* the compaction: step, the digests to fold, the period row it will write
  cuts

dvars == <<digest, old, gone, period, rollup, pipe, fold, cuts>>

NoPeriod == [there |-> FALSE, of |-> {}, text |-> {}, full |-> FALSE, folded |-> 0]
NoFold   == [at |-> "rest", ids |-> {}, period |-> NoPeriod]

Init ==
  /\ digest = {} /\ old = {} /\ gone = {} /\ period = NoPeriod /\ rollup = 0 /\ cuts = 0
  /\ pipe = [r \in Episode |-> [at |-> "none", read |-> 0]]
  /\ fold = NoFold

\* digest_run, at the end of a completed run.
Digest(r) ==
  /\ pipe[r].at = "none" /\ pipe' = [pipe EXCEPT ![r].at = "read"]
  /\ digest' = IF r \in gone THEN digest ELSE digest \cup {r}
  /\ UNCHANGED <<old, gone, period, rollup, fold, cuts>>

\* update_rollup, from the digests it read.
ReadRollup(r) ==
  /\ pipe[r].at = "read"
  /\ pipe' = [pipe EXCEPT ![r] = [at |-> "write", read |-> Cardinality(digest) + (IF period.there THEN 1 ELSE 0)]]
  /\ UNCHANGED <<digest, old, gone, period, rollup, fold, cuts>>

WriteRollup(r) ==
  /\ pipe[r].at = "write" /\ pipe' = [pipe EXCEPT ![r] = [at |-> "over", read |-> 0]]
  /\ rollup' = pipe[r].read
  /\ UNCHANGED <<digest, old, gone, period, fold, cuts>>

Age(r) ==
  /\ r \in digest \ old /\ old' = old \cup {r}
  /\ UNCHANGED <<digest, gone, period, rollup, pipe, fold, cuts>>

\* delete_run, purge_runs: the row of a run that has ended, and its digest by cascade.
Purge(r) ==
  /\ r \notin gone /\ pipe[r].at # "none" /\ gone' = gone \cup {r}
  /\ digest' = digest \ {r} /\ old' = old \ {r}
  /\ UNCHANGED <<period, rollup, pipe, fold, cuts>>

\* compact_digests, first pass: the period's text, then the digests', cut at 2400
\* characters, so that once it is full nothing is added to it.
PlanFold ==
  /\ fold.at = "rest" /\ old # {}
  /\ \E kept \in SUBSET old :
       /\ period.full => kept = {}
       /\ fold' = [at |-> "write", ids |-> old,
                   period |-> [there |-> TRUE, of |-> period.of \cup old,
                               text |-> period.text \cup kept, full |-> kept # old,
                               folded |-> period.folded + Cardinality(old)]]
  /\ UNCHANGED <<digest, old, gone, period, rollup, pipe, cuts>>

\* Mutant of Doomed: whatever is old by now goes.
DoomedByAge(f) == old

\* What the second pass deletes: the digests it has folded, by id.
Doomed(f) == f.ids

\* Second pass: the period row is written as planned, its digests are deleted.
WriteFold ==
  /\ fold.at = "write" /\ fold' = NoFold
  /\ period' = fold.period
  /\ digest' = digest \ Doomed(fold) /\ old' = old \ Doomed(fold)
  /\ UNCHANGED <<gone, rollup, pipe, cuts>>

Cut ==
  /\ cuts < MaxCut /\ cuts' = cuts + 1 /\ fold.at = "write" /\ fold' = NoFold
  /\ UNCHANGED <<digest, old, gone, period, rollup, pipe>>

Next ==
  \/ \E r \in Episode : Digest(r) \/ ReadRollup(r) \/ WriteRollup(r) \/ Age(r) \/ Purge(r)
  \/ PlanFold \/ WriteFold \/ Cut

Spec == Init /\ [][Next]_dvars

-----------------------------------------------------------------------------
\* The one consolidation job with an irreversible effect (compact_digests) loses no run:
\* whoever was digested and not deleted has its own digest or is counted in the period,
\* once, and the period's text tells of all it counts, until it is full. The digests
\* folded into a full text are deleted and told of nowhere, as the code has it.
RememberedOnce ==
  /\ \A r \in Episode \ gone : pipe[r].at # "none" => (r \in digest) # (r \in period.of)
  /\ period.folded = Cardinality(period.of)
  /\ period.text \subseteq period.of /\ (period.full \/ period.text = period.of)
=============================================================================
