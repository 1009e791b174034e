------------------------------ MODULE Exemplars ------------------------------
(***************************************************************************)
(* What the planner learns from runs that went well                        *)
(* (memory/procedural.py): a completed run of a conversation leaves an     *)
(* exemplar, born pending, and a deferred vote for those it was planned    *)
(* with; the next turn of the conversation, or a sweep, settles the vote.  *)
(* A turn and the sweep read the pending votes, commit their decisions and *)
(* apply them, each in its own transactions, next to the pipeline of a run *)
(* that ends.  A process may die in between.                               *)
(*                                                                         *)
(* The runs 1, 2, ... are of one conversation, in the order they started.  *)
(* A run that does not complete has no pipeline (on_run_completed is called*)
(* at the end of a completed one only), so its branch is not modelled.     *)
(***************************************************************************)
EXTENDS Naturals, FiniteSets

CONSTANTS
  MaxRun,   \* bound: runs
  MaxCut    \* bound: processes that die

VARIABLES
  run,      \* status, exemplars it was planned with, earlier runs its message corrects
  vote,     \* run -> runs.snapshot["exemplar_vote"]
  ex,       \* run -> the exemplar harvested from it: status, votes
  post,     \* run -> its pipeline: step, the vote it read
  judge,    \* "turn" (create_run), "sweep" -> step, what it settles
  served,   \* exemplars that have been active
  cuts

xvars == <<run, vote, ex, post, judge, served, cuts>>

Run    == 1..MaxRun
Judges == {"turn", "sweep"}
NoVote == [st |-> "none", ids |-> {}, harvested |-> {}]
Rest   == [at |-> "rest", corrects |-> {}, due |-> {}]

Init ==
  /\ run = [r \in Run |-> [st |-> "none", used |-> {}, corrects |-> {}]]
  /\ vote = [r \in Run |-> NoVote]
  /\ ex = [r \in Run |-> [st |-> "none", votes |-> 0]]
  /\ post = [r \in Run |-> [at |-> "none", read |-> NoVote]]
  /\ judge = [a \in Judges |-> Rest]
  /\ served = {} /\ cuts = 0

Started == {r \in Run : run[r].st # "none"}
Pending == {r \in Run : vote[r].st = "pending"}

\* A denied gate does not keep a run from completing (_positive_signal looks for one).
Done(r) == run[r].st \in {"completed", "denied"}

\* exemplar_block: the planner is shown up to two active exemplars.  A resume has a
\* fresh context, which has forgotten them (used_exemplar_ids).
Plan(r) ==
  /\ run[r].st = "live" /\ run[r].used = {}
  /\ \E es \in SUBSET {e \in Run : ex[e].st = "active"} :
       Cardinality(es) \in 1..2 /\ run' = [run EXCEPT ![r].used = es]
  /\ UNCHANGED <<vote, ex, post, judge, served, cuts>>

Ends(r) ==
  /\ run[r].st = "live"
  /\ \E st \in {"completed", "denied", "failed"}, es \in {run[r].used, {}} :
       /\ run' = [run EXCEPT ![r].st = st, ![r].used = es]
       /\ post' = [post EXCEPT ![r].at = IF st = "failed" THEN "none" ELSE "harvest"]
  /\ UNCHANGED <<vote, ex, judge, served, cuts>>

\* harvest_exemplar: one transaction writes the exemplar and the run's pending vote.
Harvest(r) ==
  /\ post[r].at = "harvest"
  /\ post' = [post EXCEPT ![r].at = IF run[r].used = {} THEN "over" ELSE "read"]
  /\ IF run[r].st = "completed"
       THEN /\ ex' = [ex EXCEPT ![r] = [st |-> "pending", votes |-> 1]]
            /\ vote' = [vote EXCEPT ![r].st = "pending", ![r].harvested = {r}]
       ELSE UNCHANGED <<ex, vote>>
  /\ UNCHANGED <<run, judge, served, cuts>>

\* post_run_procedural: the vote of a reuse, read and written.
ReadVote(r) ==
  /\ post[r].at = "read" /\ post' = [post EXCEPT ![r] = [at |-> "write", read |-> vote[r]]]
  /\ UNCHANGED <<run, vote, ex, judge, served, cuts>>

WriteVote(r) ==
  /\ post[r].at = "write" /\ post' = [post EXCEPT ![r] = [at |-> "over", read |-> NoVote]]
  /\ vote' = [vote EXCEPT ![r] =
       [(IF post[r].read.st = "pending" THEN post[r].read ELSE NoVote)
         EXCEPT !.st = "pending", !.ids = run[r].used]]
  /\ UNCHANGED <<run, ex, judge, served, cuts>>

Latest(rs) == CHOOSE r \in rs : \A q \in rs : q <= r
Later(r)   == {q \in Started : q > r}
FirstLater(r) == CHOOSE q \in Later(r) : \A p \in Later(r) : q <= p

\* looks_like_correction, of the new message or of the first turn that followed.
Corrected(a, r, corrects) ==
  IF a = "turn" /\ r = Latest(Pending) THEN r \in corrects
  ELSE IF Later(r) # {} THEN r \in run[FirstLater(r)].corrects
  ELSE a = "turn" /\ r \in corrects

Due(a, r, corrects) ==
  [run |-> r, ids |-> vote[r].ids, harvested |-> vote[r].harvested,
   corrected |-> Corrected(a, r, corrects)]

\* judge_pending_vote looks at every pending run of the conversation, settle_exemplar_votes
\* at the completed ones that have been pending for QUIET_SETTLE_S.
Read(a) ==
  /\ judge[a].at = "rest"
  /\ \E corrects \in (IF a = "turn" THEN SUBSET Started ELSE {{}}),
        rs \in (IF a = "turn" THEN {Pending} ELSE (SUBSET {r \in Pending : Done(r)}) \ {{}}) :
       judge' = [judge EXCEPT ![a] =
         [at |-> "commit", corrects |-> corrects, due |-> {Due(a, r, corrects) : r \in rs}]]
  /\ UNCHANGED <<run, vote, ex, post, served, cuts>>

\* The decisions are written over the votes, with what was read of them.
Commit(a) ==
  /\ judge[a].at = "commit" /\ judge' = [judge EXCEPT ![a].at = "settle"]
  /\ vote' = [r \in Run |->
       IF \E d \in judge[a].due : d.run = r
         THEN LET d == CHOOSE d \in judge[a].due : d.run = r
              IN [st |-> IF d.corrected THEN "corrected" ELSE "confirmed",
                  ids |-> d.ids, harvested |-> d.harvested]
         ELSE vote[r]]
  /\ UNCHANGED <<run, ex, post, served, cuts>>

\* vote_exemplars: a heuristic never takes the last vote.
Voted(e, corrected) ==
  IF corrected THEN [e EXCEPT !.votes = IF @ > 1 THEN @ - 1 ELSE @]
               ELSE [e EXCEPT !.votes = @ + 1]
\* Mutant of Settled: what has been settled is settled again.
SettledAll(e, corrected) == [e EXCEPT !.st = IF corrected THEN "retired" ELSE "active"]

\* settle_harvested: only what is still pending.
Settled(e, corrected) ==
  IF e.st = "pending" THEN [e EXCEPT !.st = IF corrected THEN "retired" ELSE "active"] ELSE e

\* _settle of one decision: the reused exemplars, then the harvested one.
Settle(a) ==
  /\ judge[a].at = "settle"
  /\ \E d \in judge[a].due :
       IF d.ids # {}
         THEN /\ ex' = [e \in Run |-> IF e \in d.ids THEN Voted(ex[e], d.corrected) ELSE ex[e]]
              /\ judge' = [judge EXCEPT ![a].due = (@ \ {d}) \cup {[d EXCEPT !.ids = {}]}]
              /\ UNCHANGED served
         ELSE /\ ex' = [e \in Run |-> IF e \in d.harvested THEN Settled(ex[e], d.corrected) ELSE ex[e]]
              /\ judge' = [judge EXCEPT ![a].due = @ \ {d}]
              /\ served' = served \cup {e \in Run : ex'[e].st = "active"}
  /\ UNCHANGED <<run, vote, post, cuts>>

\* The sweep is over; the turn's run is created, or refused (admission, the ceiling).
Over(a) ==
  /\ judge[a].at = "settle" /\ judge[a].due = {} /\ judge' = [judge EXCEPT ![a] = Rest]
  /\ \/ UNCHANGED run
     \/ /\ a = "turn" /\ Started # Run
        /\ LET new == CHOOSE r \in Run : run[r].st = "none" /\ \A q \in Run : q < r => run[q].st # "none"
           IN run' = [run EXCEPT ![new].st = "live", ![new].corrects = judge[a].corrects]
  /\ UNCHANGED <<vote, ex, post, served, cuts>>

\* A process dies, with a judge or a pipeline in it.
Cut ==
  /\ cuts < MaxCut /\ cuts' = cuts + 1
  /\ \/ \E a \in Judges : judge[a].at # "rest" /\ judge' = [judge EXCEPT ![a] = Rest] /\ UNCHANGED post
     \/ \E r \in Run : /\ post[r].at \in {"harvest", "read", "write"}
                       /\ post' = [post EXCEPT ![r] = [at |-> "over", read |-> NoVote]]
                       /\ UNCHANGED judge
  /\ UNCHANGED <<run, vote, ex, served>>

Next ==
  \/ \E r \in Run : Plan(r) \/ Ends(r) \/ Harvest(r) \/ ReadVote(r) \/ WriteVote(r)
  \/ \E a \in Judges : Read(a) \/ Commit(a) \/ Settle(a) \/ Over(a)
  \/ Cut

Spec == Init /\ [][Next]_xvars

-----------------------------------------------------------------------------
\* "A heuristic downvote never retires a reused exemplar (the floor is one vote; only a
\* hard signal takes it to zero)", spec.md 16.5, and settle_harvested retires only what
\* never served: as no hard signal reaches vote_exemplars, an exemplar that has served
\* stays, however the turns, the sweep and the pipelines interleave.
ServedStays == \A e \in served : ex[e].st = "active" /\ ex[e].votes > 0
=============================================================================
