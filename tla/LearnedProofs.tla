--------------------------- MODULE LearnedProofs ----------------------------
(***************************************************************************)
(* What is claimed of the parts of Learned, for every value of their       *)
(* constants: JobClock, Exemplars, Episodes, MemoryStore.                  *)
(***************************************************************************)
EXTENDS Learned, FiniteSetTheorems, TLAPS

-----------------------------------------------------------------------------
(* The parts *)

\* A step of one part is a stutter of the others.
LEMMA OnePartMoves ==
  [Next]_vars =>
    /\ [J!Next]_(J!jvars)
    /\ [X!Next]_(X!xvars)
    /\ [D!Next]_(D!dvars)
    /\ [H!Next]_(H!hvars)
<1>1. CASE UNCHANGED vars
  BY <1>1 DEF vars, jv, xv, dv, hv, J!jvars, X!xvars, D!dvars, H!hvars
<1>2. CASE Next
  BY <1>2 DEF Next, jv, xv, dv, hv, J!jvars, X!xvars, D!dvars, H!hvars
<1>3. QED
  BY <1>1, <1>2

\* The part counts as its surroundings do.
LEMMA SameSize == \A S : D!Cardinality(S) = Cardinality(S)
  BY DEF D!Cardinality, Cardinality

-----------------------------------------------------------------------------
(* The job clock (JobClock) *)

ClockSteps == {"rest", "lock", "work", "stamp"}

ClockJobTypeOK ==
  /\ time \in Nat
  /\ clock \in [Job -> Nat] /\ ended \in [Job -> Nat] /\ idle \in [Job -> Nat]
  /\ DOMAIN lock = Job
  /\ tick \in [Replica -> [at : ClockSteps, job : Job \cup {"none"}, now : Nat]]

\* A tick has a job, and read its time in the past.
ClockTickOK ==
  \A r \in Replica : tick[r].at # "rest" => tick[r].job \in Job /\ tick[r].now <= time

\* Whoever is about to stamp knows that the function returned after he looked, and a
\* later return of the same job, to whomever, does not change that.
ClockStampOK ==
  \A r \in Replica :
    tick[r].at = "stamp" /\ tick[r].job \notin Retention =>
      \/ tick[r].now <= ended[tick[r].job]
      \/ tick[r].job \in Gated \cup Quiet /\ tick[r].now <= idle[tick[r].job]

ClockEndedOK == \A j \in Job : ended[j] <= time /\ idle[j] <= time

ClockInv == ClockJobTypeOK /\ ClockTickOK /\ ClockStampOK /\ ClockEndedOK /\ J!StampMeansRan

-----------------------------------------------------------------------------
LEMMA ClockInit == J!Init => ClockInv
BY DEF J!Init, ClockInv, ClockJobTypeOK, ClockTickOK, ClockStampOK, ClockEndedOK, J!StampMeansRan,
   ClockSteps, J!Rest

LEMMA ClockStep == ClockInv /\ [J!Next]_J!jvars => ClockInv'
<1> SUFFICES ASSUME ClockInv, [J!Next]_J!jvars PROVE ClockInv'
  OBVIOUS
<1> USE DEF ClockInv, ClockJobTypeOK, ClockTickOK, ClockStampOK, ClockEndedOK, J!StampMeansRan, ClockSteps, J!Rest
<1>1. CASE J!Pass
  BY <1>1 DEF J!Pass
<1>2. ASSUME NEW r \in Replica, NEW j \in Job, J!Look(r, j) PROVE ClockInv'
  BY <1>2 DEF J!Look
<1>3. ASSUME NEW r \in Replica, J!Lock(r) PROVE ClockInv'
  BY <1>3 DEF J!Lock, J!Goes
<1>4. ASSUME NEW r \in Replica, J!Work(r) PROVE ClockInv'
  <2> DEFINE j == tick[r].job
  <2>1. /\ tick[r].at = "work" /\ j \in Job /\ tick[r].now <= time
        /\ UNCHANGED <<time, clock>>
    BY <1>4 DEF J!Work, J!StampAfter
  <2>2. CASE /\ ended' = [ended EXCEPT ![j] = time] /\ tick' = [tick EXCEPT ![r].at = "stamp"]
             /\ UNCHANGED <<idle, lock>>
    BY <2>1, <2>2
  <2>3. CASE /\ j \in Gated \cup Quiet
             /\ idle' = [idle EXCEPT ![j] = time] /\ tick' = [tick EXCEPT ![r].at = "stamp"]
             /\ UNCHANGED <<ended, lock>>
    BY <2>1, <2>3
  <2>4. CASE /\ lock' = [lock EXCEPT ![j] = J!Nobody] /\ tick' = [tick EXCEPT ![r] = J!Rest]
             /\ UNCHANGED <<ended, idle>>
    BY <2>1, <2>4
  <2>6. QED
    BY <1>4, <2>1, <2>2, <2>3, <2>4 DEF J!Work, J!Goes
<1>5. ASSUME NEW r \in Replica, J!Stamp(r) PROVE ClockInv'
  BY <1>5 DEF J!Stamp
<1>6. ASSUME NEW r \in Replica, J!Unlock(r) PROVE ClockInv'
  BY <1>6 DEF J!Unlock
<1>7. ASSUME NEW r \in Replica, J!Die(r) PROVE ClockInv'
  BY <1>7 DEF J!Die
<1>8. CASE UNCHANGED J!jvars
  BY <1>8 DEF J!jvars
<1>9. QED
  BY <1>1, <1>2, <1>3, <1>4, <1>5, <1>6, <1>7, <1>8 DEF J!Next

\* StampMeansRan, however many replicas tick beside each other and wherever they die:
\* what the clock says of a job is never later than the end of its work or, for one that
\* is switched off at times or swallows its failure, the last return of its function
\* (run_due_jobs stamps behind the call).
THEOREM ClockIsEarned == Spec => []StampMeansRan
<1>1. Init => ClockInv
  BY ClockInit DEF Init
<1>2. ClockInv /\ [Next]_vars => ClockInv'
  BY ClockStep, OnePartMoves
<1>3. ClockInv => StampMeansRan
  BY DEF StampMeansRan, ClockInv, J!StampMeansRan
<1>4. QED
  BY <1>1, <1>2, <1>3, PTL DEF Spec


-----------------------------------------------------------------------------
(* Exemplars (Exemplars) *)

\* The shapes: of the judges' decisions nothing needs to be known.
ExemplarRunsOK(f)  == f \in [X!Run -> [st : {"none", "live", "completed", "denied", "failed"},
                             used : SUBSET X!Run, corrects : SUBSET X!Run]]
Exemplary  == [st : {"none", "pending", "active", "retired"}, votes : Nat]
PostsOK(f) == DOMAIN f = X!Run /\ \A r \in X!Run : f[r] = [at |-> f[r].at, read |-> f[r].read]
JudgesOK(f) ==
  /\ DOMAIN f = X!Judges
  /\ \A a \in X!Judges :
       /\ f[a] = [at |-> f[a].at, corrects |-> f[a].corrects, due |-> f[a].due]
       /\ f[a].corrects \subseteq X!Run

ExemplarTypes ==
  /\ ExemplarRunsOK(run) /\ ex \in [X!Run -> Exemplary] /\ PostsOK(post) /\ JudgesOK(judge)
  /\ served \subseteq X!Run

\* A run leaves its exemplar once: there is none until its pipeline has been in the harvest.
HarvestedOnce ==
  \A r \in X!Run :
    /\ run[r].st \in {"none", "live"} => post[r].at = "none" /\ ex[r].st = "none"
    /\ post[r].at = "harvest" => ex[r].st = "none"

\* An exemplar that can still serve has a vote, the one it was born with if no other.
ExemplarHasVote == \A e \in X!Run : ex[e].st \in {"pending", "active"} => ex[e].votes > 0

\* The runs start in the order of their numbers.
RunsInOrder == \E k \in 0..MaxRun : X!Started = 1..k

ExemplarInv == ExemplarTypes /\ HarvestedOnce /\ ExemplarHasVote /\ RunsInOrder /\ X!ServedStays

-----------------------------------------------------------------------------
LEMMA ExemplarInit == X!Init => ExemplarInv
<1> SUFFICES ASSUME X!Init PROVE ExemplarInv OBVIOUS
<1>1. ExemplarTypes
  BY DEF X!Init, ExemplarTypes, ExemplarRunsOK, Exemplary, PostsOK, JudgesOK, X!Rest, X!NoVote,
     X!Judges
<1>2. RunsInOrder
  <2>1. X!Started = 1..0 BY DEF X!Init, X!Started
  <2>2. QED BY <2>1, BoundsAreNumbers DEF RunsInOrder
<1>3. HarvestedOnce /\ ExemplarHasVote /\ X!ServedStays
  BY DEF X!Init, HarvestedOnce, ExemplarHasVote, X!ServedStays
<1>4. QED BY <1>1, <1>2, <1>3 DEF ExemplarInv

\* While some run has not started there is a first one.
LEMMA NextRun ==
  ASSUME NEW k \in Nat, X!Started = 1..k, X!Started # X!Run
  PROVE  /\ k + 1 \in X!Run /\ run[k + 1].st = "none"
         /\ \A q \in X!Run : q < k + 1 => run[q].st # "none"
         /\ \A r \in X!Run : (run[r].st = "none" /\ \A q \in X!Run : q < r => run[q].st # "none") => r = k + 1
<1>1. \A r \in X!Run : run[r].st # "none" <=> r \in 1..k
  BY DEF X!Started
<1>2. k + 1 \in X!Run
  <2>1. 1..k \subseteq X!Run BY DEF X!Started
  <2>2. PICK r \in X!Run : r \notin 1..k BY <2>1
  <2>3. r \in Nat /\ 1 <= r /\ r > k /\ r <= MaxRun BY <2>2, BoundsAreNumbers DEF X!Run
  <2>4. QED BY <2>3, BoundsAreNumbers DEF X!Run
<1>3. run[k + 1].st = "none" /\ \A q \in X!Run : q < k + 1 => run[q].st # "none"
  BY <1>1, <1>2 DEF X!Run
<1>4. ASSUME NEW r \in X!Run, run[r].st = "none", \A q \in X!Run : q < r => run[q].st # "none"
      PROVE  r = k + 1
  <2>1. r \in Nat /\ r > k BY <1>1, <1>4 DEF X!Run
  <2>2. ~(k + 1 < r) BY <1>2, <1>3, <1>4
  <2>3. QED BY <2>1, <2>2
<1>5. QED BY <1>2, <1>3, <1>4

\* A vote takes no exemplar's last one and no standing.
LEMMA VotedKeeps ==
  ASSUME NEW e \in Exemplary, NEW c
  PROVE  /\ X!Voted(e, c) \in Exemplary
         /\ X!Voted(e, c).st = e.st /\ (e.votes > 0 => X!Voted(e, c).votes > 0)
<1>1. CASE c BY <1>1 DEF X!Voted, Exemplary
<1>2. CASE ~c BY <1>2 DEF X!Voted, Exemplary
<1>3. QED BY <1>1, <1>2

\* Settling takes nobody's votes, and the standing of nobody who has one.
LEMMA SettledKeeps ==
  ASSUME NEW e \in Exemplary, NEW c
  PROVE  /\ X!Settled(e, c) \in Exemplary
         /\ X!Settled(e, c).votes = e.votes
         /\ e.st # "pending" => X!Settled(e, c).st = e.st
         /\ e.st = "pending" => X!Settled(e, c).st \in {"active", "retired"}
<1>1. CASE c BY <1>1 DEF X!Settled, Exemplary
<1>2. CASE ~c BY <1>2 DEF X!Settled, Exemplary
<1>3. QED BY <1>1, <1>2

LEMMA ExemplarStep == ExemplarInv /\ [X!Next]_X!xvars => ExemplarInv'
<1> SUFFICES ASSUME ExemplarInv, [X!Next]_X!xvars PROVE ExemplarInv'
  OBVIOUS
<1> USE DEF ExemplarInv
<1>1. ASSUME NEW r \in X!Run, X!Plan(r) PROVE ExemplarInv'
  <2>1. PICK es \in SUBSET X!Run : run' = [run EXCEPT ![r].used = es]
    BY <1>1 DEF X!Plan
  <2>2. UNCHANGED <<ex, post, judge, served>>
    BY <1>1 DEF X!Plan
  <2>3. ExemplarRunsOK(run') /\ \A q \in X!Run : run'[q].st = run[q].st
    BY <2>1 DEF ExemplarTypes, ExemplarRunsOK
  <2>4. ExemplarTypes' BY <2>2, <2>3 DEF ExemplarTypes
  <2>5. X!Started' = X!Started BY <2>3 DEF X!Started
  <2>6. QED BY <2>2, <2>3, <2>4, <2>5 DEF HarvestedOnce, ExemplarHasVote, RunsInOrder, X!ServedStays
<1>2. ASSUME NEW r \in X!Run, X!Ends(r) PROVE ExemplarInv'
  <2>1. PICK st \in {"completed", "denied", "failed"}, es \in {run[r].used, {}} :
          /\ run' = [run EXCEPT ![r].st = st, ![r].used = es]
          /\ post' = [post EXCEPT ![r].at = IF st = "failed" THEN "none" ELSE "harvest"]
    BY <1>2 DEF X!Ends
  <2>2. run[r].st = "live" /\ UNCHANGED <<ex, judge, served>>
    BY <1>2 DEF X!Ends
  <2>3. /\ PostsOK(post')
        /\ \A q \in X!Run : q # r => post'[q] = post[q]
    BY <2>1 DEF ExemplarTypes, PostsOK
  <2>4. /\ ExemplarRunsOK(run')
        /\ run'[r].st = st
        /\ \A q \in X!Run : q # r => run'[q] = run[q]
    <3>1. es \in SUBSET X!Run BY DEF ExemplarTypes, ExemplarRunsOK
    <3> DEFINE h == [run EXCEPT ![r].st = st]
    <3>2. ExemplarRunsOK(h) /\ h[r].st = st /\ \A q \in X!Run : q # r => h[q] = run[q]
      BY DEF ExemplarTypes, ExemplarRunsOK
    <3>3. run' = [h EXCEPT ![r].used = es] BY <2>1
    <3> HIDE DEF h
    <3>4. QED BY <3>1, <3>2, <3>3 DEF ExemplarRunsOK
  <2>5. ExemplarTypes' BY <2>2, <2>3, <2>4 DEF ExemplarTypes
  <2>6. HarvestedOnce' BY <2>1, <2>2, <2>3, <2>4 DEF HarvestedOnce
  <2>7. X!Started' = X!Started
    <3>1. \A q \in X!Run : run'[q].st = "none" <=> run[q].st = "none" BY <2>2, <2>4
    <3>2. QED BY <3>1 DEF X!Started
  <2>8. QED BY <2>2, <2>5, <2>6, <2>7 DEF ExemplarHasVote, RunsInOrder, X!ServedStays
<1>3. ASSUME NEW r \in X!Run, X!Harvest(r) PROVE ExemplarInv'
  <2>1. /\ post[r].at = "harvest" /\ UNCHANGED <<run, judge, served>>
        /\ post' = [post EXCEPT ![r].at = IF run[r].used = {} THEN "over" ELSE "read"]
        /\ ex' = ex \/ ex' = [ex EXCEPT ![r] = [st |-> "pending", votes |-> 1]]
    BY <1>3 DEF X!Harvest
  <2>2. /\ PostsOK(post') /\ post'[r].at \in {"over", "read"}
        /\ \A q \in X!Run : q # r => post'[q] = post[q]
    BY <2>1 DEF ExemplarTypes, PostsOK
  <2>3. /\ ex' \in [X!Run -> Exemplary]
        /\ ex'[r] = ex[r] \/ ex'[r] = [st |-> "pending", votes |-> 1]
        /\ \A q \in X!Run : q # r => ex'[q] = ex[q]
    <3>1. [st |-> "pending", votes |-> 1] \in Exemplary BY DEF Exemplary
    <3>2. QED BY <2>1, <3>1 DEF ExemplarTypes
  <2>4. ExemplarTypes' BY <2>1, <2>2, <2>3 DEF ExemplarTypes
  <2>5. run[r].st \notin {"none", "live"} /\ ex[r].st = "none" /\ r \notin served
    BY <2>1 DEF HarvestedOnce, X!ServedStays
  <2>6. HarvestedOnce' BY <2>1, <2>2, <2>3, <2>5 DEF HarvestedOnce
  <2>7. ExemplarHasVote' BY <2>3 DEF ExemplarHasVote
  <2>8. X!ServedStays' BY <2>1, <2>3, <2>5 DEF X!ServedStays, ExemplarTypes
  <2>9. RunsInOrder' BY <2>1 DEF RunsInOrder, X!Started
  <2>10. QED BY <2>4, <2>6, <2>7, <2>8, <2>9
<1>4. ASSUME NEW r \in X!Run, X!ReadVote(r) \/ X!WriteVote(r) PROVE ExemplarInv'
  <2>1. /\ UNCHANGED <<run, ex, judge, served>> /\ post[r].at \in {"read", "write"}
        /\ \E at \in {"write", "over"} : \E v : post' = [post EXCEPT ![r] = [at |-> at, read |-> v]]
    BY <1>4 DEF X!ReadVote, X!WriteVote
  <2>2. /\ PostsOK(post') /\ post'[r].at \in {"write", "over"}
        /\ \A q \in X!Run : q # r => post'[q] = post[q]
    BY <2>1 DEF ExemplarTypes, PostsOK
  <2>3. QED
    BY <2>1, <2>2 DEF ExemplarTypes, HarvestedOnce, ExemplarHasVote, RunsInOrder, X!Started,
       X!ServedStays
<1>5. ASSUME NEW a \in X!Judges, X!Read(a) \/ X!Commit(a) PROVE ExemplarInv'
  <2>1. UNCHANGED <<run, ex, post, served>>
    BY <1>5 DEF X!Read, X!Commit
  <2>2. JudgesOK(judge')
    <3>1. CASE X!Read(a)
      <4>1. PICK cs \in SUBSET X!Run : \E ds : judge' = [judge EXCEPT ![a] = [at |-> "commit", corrects |-> cs, due |-> ds]]
        BY <3>1 DEF X!Read, X!Started
      <4>2. QED BY <4>1 DEF ExemplarTypes, JudgesOK
    <3>2. CASE X!Commit(a)
      BY <3>2 DEF X!Commit, ExemplarTypes, JudgesOK
    <3>3. QED BY <1>5, <3>1, <3>2
  <2>3. ExemplarTypes' BY <2>1, <2>2 DEF ExemplarTypes
  <2>4. QED BY <2>1, <2>3 DEF HarvestedOnce, ExemplarHasVote, RunsInOrder, X!Started, X!ServedStays
<1>6. ASSUME NEW a \in X!Judges, X!Settle(a) PROVE ExemplarInv'
  <2>1. PICK d \in judge[a].due :
          IF d.ids # {}
            THEN /\ ex' = [e \in X!Run |-> IF e \in d.ids THEN X!Voted(ex[e], d.corrected) ELSE ex[e]]
                 /\ judge' = [judge EXCEPT ![a].due = (@ \ {d}) \cup {[d EXCEPT !.ids = {}]}]
                 /\ UNCHANGED served
            ELSE /\ ex' = [e \in X!Run |-> IF e \in d.harvested THEN X!Settled(ex[e], d.corrected) ELSE ex[e]]
                 /\ judge' = [judge EXCEPT ![a].due = @ \ {d}]
                 /\ served' = served \cup {e \in X!Run : ex'[e].st = "active"}
    BY <1>6 DEF X!Settle
  <2>2. UNCHANGED <<run, post>>
    BY <1>6 DEF X!Settle
  <2>3. \E ds : judge' = [judge EXCEPT ![a].due = ds]
    BY <2>1
  <2>4. JudgesOK(judge')
    BY <2>3 DEF ExemplarTypes, JudgesOK
  <2>5. CASE d.ids # {}
    <3>1. /\ ex' = [e \in X!Run |-> IF e \in d.ids THEN X!Voted(ex[e], d.corrected) ELSE ex[e]]
          /\ served' = served
      BY <2>1, <2>5
    <3>2. /\ ex' \in [X!Run -> Exemplary]
          /\ \A e \in X!Run : ex'[e].st = ex[e].st /\ (ex[e].votes > 0 => ex'[e].votes > 0)
      BY <3>1, VotedKeeps DEF ExemplarTypes
    <3>3. QED
      BY <2>2, <2>4, <3>1, <3>2 DEF ExemplarTypes, HarvestedOnce, ExemplarHasVote, RunsInOrder,
         X!Started, X!ServedStays
  <2>6. CASE d.ids = {}
    <3>1. /\ ex' = [e \in X!Run |-> IF e \in d.harvested THEN X!Settled(ex[e], d.corrected) ELSE ex[e]]
          /\ served' = served \cup {e \in X!Run : ex'[e].st = "active"}
      BY <2>1, <2>6
    <3>2. /\ ex' \in [X!Run -> Exemplary]
          /\ \A e \in X!Run :
               /\ ex'[e].votes = ex[e].votes
               /\ ex[e].st # "pending" => ex'[e].st = ex[e].st
               /\ ex[e].st = "pending" => ex'[e].st \in {"pending", "active", "retired"}
      BY <3>1, SettledKeeps DEF ExemplarTypes
    <3>3. ExemplarTypes' BY <2>2, <2>4, <3>1, <3>2 DEF ExemplarTypes
    <3>4. HarvestedOnce' BY <2>2, <3>2 DEF HarvestedOnce
    <3>5. ExemplarHasVote' BY <3>2 DEF ExemplarHasVote, ExemplarTypes
    <3>6. X!ServedStays' BY <3>1, <3>2, <3>5 DEF X!ServedStays, ExemplarHasVote, ExemplarTypes
    <3>7. RunsInOrder' BY <2>2 DEF RunsInOrder, X!Started
    <3>8. QED BY <3>3, <3>4, <3>5, <3>6, <3>7
  <2>7. QED BY <2>5, <2>6
<1>7. ASSUME NEW a \in X!Judges, X!Over(a) PROVE ExemplarInv'
  <2>1. judge' = [judge EXCEPT ![a] = X!Rest] /\ UNCHANGED <<ex, post, served>>
    BY <1>7 DEF X!Over
  <2>2. JudgesOK(judge')
    BY <2>1 DEF ExemplarTypes, JudgesOK, X!Rest
  <2>3. CASE run' = run
    BY <2>1, <2>2, <2>3 DEF ExemplarTypes, HarvestedOnce, ExemplarHasVote, RunsInOrder, X!Started,
       X!ServedStays
  <2>4. CASE run' # run
    <3> DEFINE new == CHOOSE r \in X!Run : run[r].st = "none" /\ \A q \in X!Run : q < r => run[q].st # "none"
    <3>1. /\ X!Started # X!Run
          /\ run' = [run EXCEPT ![new].st = "live", ![new].corrects = judge[a].corrects]
      BY <1>7, <2>4 DEF X!Over
    <3>2. PICK k \in Nat : X!Started = 1..k
      BY BoundsAreNumbers DEF RunsInOrder
    <3>3. k + 1 \in X!Run /\ run[k + 1].st = "none" /\ new = k + 1
      BY <3>1, <3>2, NextRun
    <3> HIDE DEF new
    <3>4. /\ ExemplarRunsOK(run') /\ run'[k + 1].st = "live"
          /\ \A q \in X!Run : q # k + 1 => run'[q] = run[q]
      <4>1. judge[a].corrects \in SUBSET X!Run BY DEF ExemplarTypes, JudgesOK
      <4> DEFINE h == [run EXCEPT ![k + 1].st = "live"]
      <4>2. ExemplarRunsOK(h) /\ h[k + 1].st = "live" /\ \A q \in X!Run : q # k + 1 => h[q] = run[q]
        BY <3>3 DEF ExemplarTypes, ExemplarRunsOK
      <4>3. run' = [h EXCEPT ![k + 1].corrects = judge[a].corrects] BY <3>1, <3>3
      <4> HIDE DEF h
      <4>4. QED BY <3>3, <4>1, <4>2, <4>3 DEF ExemplarRunsOK
    <3>5. ExemplarTypes' BY <2>1, <2>2, <3>4 DEF ExemplarTypes
    <3>6. HarvestedOnce' BY <2>1, <3>3, <3>4 DEF HarvestedOnce
    <3>7. X!Started' = 1..(k + 1)
      <4>1. X!Started' = X!Started \cup {k + 1} BY <3>3, <3>4 DEF X!Started
      <4>2. QED BY <3>2, <4>1
    <3>8. RunsInOrder' BY <3>3, <3>7, BoundsAreNumbers DEF RunsInOrder, X!Run
    <3>9. QED BY <2>1, <3>5, <3>6, <3>8 DEF ExemplarHasVote, X!ServedStays
  <2>5. QED BY <2>3, <2>4
<1>8. CASE X!Cut
  <2>1. UNCHANGED <<run, ex, served>>
    BY <1>8 DEF X!Cut
  <2>2. JudgesOK(judge')
    <3>1. judge' = judge \/ \E a \in X!Judges : judge' = [judge EXCEPT ![a] = X!Rest]
      BY <1>8 DEF X!Cut
    <3>2. QED BY <3>1 DEF ExemplarTypes, JudgesOK, X!Rest
  <2>3. /\ PostsOK(post')
        /\ \A q \in X!Run : post'[q].at = post[q].at \/ (post[q].at # "none" /\ post'[q].at = "over")
    <3>1. \/ post' = post
          \/ \E r \in X!Run : /\ post[r].at \in {"harvest", "read", "write"}
                            /\ post' = [post EXCEPT ![r] = [at |-> "over", read |-> X!NoVote]]
      BY <1>8 DEF X!Cut
    <3>2. QED BY <3>1 DEF ExemplarTypes, PostsOK
  <2>4. ExemplarTypes' BY <2>1, <2>2, <2>3 DEF ExemplarTypes
  <2>5. HarvestedOnce' BY <2>1, <2>3 DEF HarvestedOnce
  <2>6. QED BY <2>1, <2>4, <2>5 DEF ExemplarHasVote, RunsInOrder, X!Started, X!ServedStays
<1>9. CASE UNCHANGED X!xvars
  BY <1>9 DEF X!xvars, ExemplarTypes, HarvestedOnce, ExemplarHasVote, RunsInOrder, X!Started,
     X!ServedStays
<1>10. QED
  BY <1>1, <1>2, <1>3, <1>4, <1>5, <1>6, <1>7, <1>8, <1>9 DEF X!Next

\* ServedStays, for any number of runs, with a turn and the sweep settling over each
\* other's reading and pipelines that die between harvest and vote: whatever the
\* heuristics decide, an exemplar that has served is not retired and keeps a vote
\* (settle_harvested, vote_exemplars).
THEOREM ServedStay == Spec => []ServedStays
<1>1. Init => ExemplarInv
  BY ExemplarInit DEF Init
<1>2. ExemplarInv /\ [Next]_vars => ExemplarInv'
  BY ExemplarStep, OnePartMoves
<1>3. ExemplarInv => ServedStays
  BY DEF ServedStays, ExemplarInv, X!ServedStays
<1>4. QED
  BY <1>1, <1>2, <1>3, PTL DEF Spec


-----------------------------------------------------------------------------
(* Episodes (Episodes) *)

\* A conversation's runs, by where they are remembered
EpisodeRunsOK ==
  /\ pipe \in [Episode -> [at : {"none", "read", "write", "over"}, read : Nat]]
  /\ old \subseteq digest /\ IsFiniteSet(digest) /\ IsFiniteSet(period.of)
  /\ \A r \in digest \cup gone \cup period.of : r \in Episode /\ pipe[r].at # "none"
  /\ digest \cap gone = {} /\ digest \cap period.of = {}

\* What is about to be folded is still a digest or deleted, and not in the period, which
\* is the one the compaction read.
EpisodeFoldOK ==
  fold.at = "write" =>
    /\ IsFiniteSet(fold.ids)
    /\ fold.ids \subseteq digest \cup gone /\ fold.ids \cap period.of = {}
    /\ fold.period.of = period.of \cup fold.ids
    /\ fold.period.folded = period.folded + Cardinality(fold.ids)
    /\ fold.period.text \subseteq fold.period.of
    /\ fold.period.full \/ fold.period.text = fold.period.of

EpisodeInv == EpisodeRunsOK /\ EpisodeFoldOK /\ D!RememberedOnce

LEMMA EpisodeInit == D!Init => EpisodeInv
<1> SUFFICES ASSUME D!Init PROVE EpisodeInv OBVIOUS
<1>1. period.of = {} /\ period.text = {} /\ period.folded = 0 /\ fold.at = "rest"
  BY DEF D!Init, D!NoPeriod, D!NoFold
<1>2. IsFiniteSet({}) /\ Cardinality({}) = 0 BY FS_EmptySet
<1>3. \A r \in Episode : pipe[r].at = "none" BY DEF D!Init
<1>4. EpisodeRunsOK BY <1>1, <1>2 DEF D!Init, EpisodeRunsOK
<1>5. EpisodeFoldOK BY <1>1 DEF EpisodeFoldOK
<1>6. D!RememberedOnce BY <1>1, <1>2, <1>3, SameSize DEF D!RememberedOnce
<1>7. QED BY <1>4, <1>5, <1>6 DEF EpisodeInv

LEMMA EpisodeStep == EpisodeInv /\ [D!Next]_D!dvars => EpisodeInv'
<1> SUFFICES ASSUME EpisodeInv, [D!Next]_D!dvars PROVE EpisodeInv'
  OBVIOUS
<1> USE DEF EpisodeInv
<1>1. ASSUME NEW r \in Episode, D!Digest(r) PROVE EpisodeInv'
  <2>1. /\ pipe' = [pipe EXCEPT ![r].at = "read"]
        /\ UNCHANGED <<old, gone, period, fold>>
        /\ digest' = IF r \in gone THEN digest ELSE digest \cup {r}
        /\ pipe[r].at = "none"
    BY <1>1 DEF D!Digest
  <2>2. pipe' \in [Episode -> [at : {"none", "read", "write", "over"}, read : Nat]]
    BY <2>1 DEF EpisodeRunsOK
  <2>3. /\ \A x \in Episode : x # r => pipe'[x] = pipe[x]
        /\ pipe'[r].at = "read"
    BY <2>1 DEF EpisodeRunsOK
  <2>4. r \notin gone /\ r \notin period.of /\ r \notin digest
    BY <2>1 DEF EpisodeRunsOK
  <2>5. IsFiniteSet(digest') BY <2>1, FS_AddElement DEF EpisodeRunsOK
  <2>6. EpisodeRunsOK' BY <2>1, <2>2, <2>3, <2>4, <2>5 DEF EpisodeRunsOK
  <2>7. EpisodeFoldOK' BY <2>1 DEF EpisodeFoldOK
  <2>8. D!RememberedOnce' BY <2>1, <2>3, <2>4 DEF D!RememberedOnce
  <2>9. QED BY <2>6, <2>7, <2>8
<1>2. ASSUME NEW r \in Episode, D!ReadRollup(r) \/ D!WriteRollup(r) PROVE EpisodeInv'
  <2>1. /\ \E n \in Nat : \/ pipe' = [pipe EXCEPT ![r] = [at |-> "write", read |-> n]]
                          \/ pipe' = [pipe EXCEPT ![r] = [at |-> "over", read |-> n]]
        /\ pipe[r].at # "none"
        /\ UNCHANGED <<digest, old, gone, period, fold>>
    <3>1. CASE D!ReadRollup(r)
      <4>1. Cardinality(digest) \in Nat BY FS_CardinalityType DEF EpisodeRunsOK
      <4>2. Cardinality(digest) + (IF period.there THEN 1 ELSE 0) \in Nat BY <4>1
      <4>3. QED BY <3>1, <4>2, SameSize DEF D!ReadRollup
    <3>2. CASE D!WriteRollup(r)
      <4>1. 0 \in Nat OBVIOUS
      <4>2. QED BY <3>2, <4>1 DEF D!WriteRollup
    <3>3. QED BY <1>2, <3>1, <3>2
  <2>2. /\ pipe' \in [Episode -> [at : {"none", "read", "write", "over"}, read : Nat]]
        /\ \A x \in Episode : pipe'[x].at = "none" <=> pipe[x].at = "none"
    BY <2>1 DEF EpisodeRunsOK
  <2>3. EpisodeRunsOK' BY <2>1, <2>2 DEF EpisodeRunsOK
  <2>4. EpisodeFoldOK' BY <2>1 DEF EpisodeFoldOK
  <2>5. D!RememberedOnce' BY <2>1, <2>2 DEF D!RememberedOnce
  <2>6. QED BY <2>3, <2>4, <2>5
<1>3. ASSUME NEW r \in Episode, D!Age(r) PROVE EpisodeInv'
  <2>1. /\ old' = old \cup {r} /\ r \in digest
        /\ UNCHANGED <<digest, gone, period, fold, pipe>>
    BY <1>3 DEF D!Age
  <2>2. QED BY <2>1 DEF EpisodeRunsOK, EpisodeFoldOK, D!RememberedOnce
<1>4. ASSUME NEW r \in Episode, D!Purge(r) PROVE EpisodeInv'
  <2>1. /\ gone' = gone \cup {r} /\ digest' = digest \ {r} /\ old' = old \ {r}
        /\ pipe[r].at # "none" /\ UNCHANGED <<period, fold, pipe>>
    BY <1>4 DEF D!Purge
  <2>2. IsFiniteSet(digest') BY <2>1, FS_RemoveElement DEF EpisodeRunsOK
  <2>3. EpisodeRunsOK' BY <2>1, <2>2 DEF EpisodeRunsOK
  <2>4. EpisodeFoldOK' BY <2>1 DEF EpisodeFoldOK
  <2>5. D!RememberedOnce' BY <2>1 DEF D!RememberedOnce
  <2>6. QED BY <2>3, <2>4, <2>5
<1>5. CASE D!PlanFold
  <2>1. PICK kept \in SUBSET old :
          /\ period.full => kept = {}
          /\ fold' = [at |-> "write", ids |-> old,
                      period |-> [there |-> TRUE, of |-> period.of \cup old,
                                  text |-> period.text \cup kept, full |-> kept # old,
                                  folded |-> period.folded + Cardinality(old)]]
    BY <1>5, SameSize DEF D!PlanFold
  <2>2. old # {} /\ UNCHANGED <<digest, old, gone, period, pipe>> BY <1>5 DEF D!PlanFold
  <2>3. IsFiniteSet(old) BY FS_Subset DEF EpisodeRunsOK
  <2>4. /\ fold'.ids = old /\ fold'.period.of = period.of \cup old
        /\ fold'.period.folded = period.folded + Cardinality(fold'.ids)
        /\ fold'.period.text = period.text \cup kept /\ fold'.period.full = (kept # old)
    BY <2>1
  <2>5. ~fold'.period.full => fold'.period.text = fold'.period.of
    <3>1. period.full \/ period.text = period.of BY DEF D!RememberedOnce
    <3>2. CASE kept = old
      <4>1. ~period.full BY <2>1, <2>2, <3>2
      <4>2. period.text = period.of BY <3>1, <4>1
      <4>3. QED BY <2>4, <3>2, <4>2
    <3>3. CASE kept # old BY <2>4, <3>3
    <3>4. QED BY <3>2, <3>3
  <2>6. fold'.period.text \subseteq fold'.period.of
    BY <2>1, <2>4 DEF D!RememberedOnce
  <2>7. old \subseteq digest \cup gone /\ old \cap period.of = {} BY DEF EpisodeRunsOK
  <2>8. EpisodeFoldOK' BY <2>2, <2>3, <2>4, <2>5, <2>6, <2>7, SameSize DEF EpisodeFoldOK
  <2>9. QED BY <2>2, <2>8 DEF EpisodeRunsOK, D!RememberedOnce
<1>6. CASE D!WriteFold
  <2> DEFINE ids == fold.ids
  <2>1. /\ fold.at = "write" /\ fold' = D!NoFold /\ period' = fold.period
        /\ digest' = digest \ ids /\ old' = old \ ids /\ UNCHANGED <<gone, pipe>>
    BY <1>6 DEF D!WriteFold, D!Doomed
  <2>2. /\ IsFiniteSet(ids) /\ ids \subseteq digest \cup gone /\ ids \cap period.of = {}
        /\ period'.of = period.of \cup ids
        /\ period'.folded = period.folded + Cardinality(ids)
        /\ period'.text \subseteq period'.of /\ (period'.full \/ period'.text = period'.of)
    BY <2>1, SameSize DEF EpisodeFoldOK
  <2> HIDE DEF ids
  <2>3. period'.of = period.of \cup ids /\ period'.folded = period.folded + Cardinality(ids)
    BY <2>2
  <2>4. /\ IsFiniteSet(period.of \cup ids)
        /\ Cardinality(period.of \cup ids) = Cardinality(period.of) + Cardinality(ids)
    <3>1. IsFiniteSet(period.of) BY DEF EpisodeRunsOK
    <3>2. Cardinality(period.of \cap ids) = 0 BY <2>2, FS_EmptySet
    <3>3. Cardinality(period.of) \in Nat /\ Cardinality(ids) \in Nat
      BY <2>2, <3>1, FS_CardinalityType
    <3>4. /\ IsFiniteSet(period.of \cup ids)
          /\ Cardinality(period.of \cup ids)
               = Cardinality(period.of) + Cardinality(ids) - Cardinality(period.of \cap ids)
      BY <2>2, <3>1, FS_Union, Zenon
    <3>5. QED BY <3>2, <3>3, <3>4
  <2>5. IsFiniteSet(digest') BY <2>1, FS_Difference DEF EpisodeRunsOK
  <2>6. EpisodeRunsOK' BY <2>1, <2>2, <2>3, <2>4, <2>5 DEF EpisodeRunsOK
  <2>7. EpisodeFoldOK' BY <2>1 DEF EpisodeFoldOK, D!NoFold
  <2>8. D!RememberedOnce'
    <3>1. period'.folded = Cardinality(period'.of) BY <2>3, <2>4, SameSize DEF D!RememberedOnce
    <3>2. ASSUME NEW r \in Episode \ gone, pipe[r].at # "none"
          PROVE (r \in digest') # (r \in period'.of)
      BY <2>1, <2>2, <2>3, <3>2 DEF D!RememberedOnce
    <3>3. QED BY <2>1, <2>2, <3>1, <3>2, SameSize DEF D!RememberedOnce
  <2>9. QED BY <2>6, <2>7, <2>8
<1>7. CASE D!Cut
  BY <1>7 DEF D!Cut, EpisodeRunsOK, EpisodeFoldOK, D!RememberedOnce, D!NoFold
<1>8. CASE UNCHANGED D!dvars
  BY <1>8 DEF D!dvars, EpisodeRunsOK, EpisodeFoldOK, D!RememberedOnce
<1>9. QED
  BY <1>1, <1>2, <1>3, <1>4, <1>5, <1>6, <1>7, <1>8 DEF D!Next

\* RememberedOnce, for any runs of a conversation, with compactions that die and runs
\* that end, grow old and are deleted at any point of a fold: a run has its digest or is
\* counted in the period, which tells of it unless its text is full (compact_digests).
THEOREM RunsRememberedOnce == Spec => []RememberedOnce
<1>1. Init => EpisodeInv
  BY EpisodeInit DEF Init
<1>2. EpisodeInv /\ [Next]_vars => EpisodeInv'
  BY EpisodeStep, OnePartMoves
<1>3. EpisodeInv => RememberedOnce
  BY DEF RememberedOnce, EpisodeInv, D!RememberedOnce
<1>4. QED
  BY <1>1, <1>2, <1>3, PTL DEF Spec


-----------------------------------------------------------------------------
(* The memory store (MemoryStore) *)

\* The rows and the candidates, which are rows linked to none.
MemoryStanding == {"none", "active", "quarantined", "superseded", "rejected", "expired", "erased"}
MemoryRow      == [st : MemoryStanding, kind : H!Kind, text : Text \cup {"none"}, keyed : BOOLEAN, old : H!Id \cup {0}, new : H!Id \cup {0}]
MemoryCand     == {c \in MemoryRow : c.old = 0 /\ c.new = 0}
MemoryRowJob   == [at : {"idle", "match", "write", "read", "close"}, cand : MemoryCand, target : H!Id \cup {0}]

MemoryStoreTypes ==
  /\ rows \in [H!Id -> MemoryRow] /\ job \in [H!Writer -> MemoryRowJob]
  /\ review \in H!Id \cup {0} /\ overlap \in BOOLEAN

\* A writer that is to close a row has one, and a standing for the row that replaces it.
MemoryClosesARow ==
  \A w \in H!Writer :
    /\ job[w].at \in {"read", "close"} => job[w].target \in H!Id
    /\ job[w].at = "close" => job[w].cand.st \notin {"none", "erased"}

\* What is not there is in no chain.
MemoryNoLooseEnds ==
  \A i \in H!Id : rows[i].st \in {"none", "erased"} => rows[i].old = 0 /\ rows[i].new = 0

\* A row that is being reviewed has been replaced only if that was noted.
MemoryReviewNoted == (review # 0 /\ rows[review].new # 0) => overlap

MemoryInv == MemoryStoreTypes /\ MemoryClosesARow /\ MemoryNoLooseEnds /\ MemoryReviewNoted /\ H!AppendOnly

-----------------------------------------------------------------------------
LEMMA MemoryNoRowIsOne == H!NoRow \in MemoryCand /\ H!Idle \in MemoryRowJob
<1>1. H!NoRow \in MemoryRow
  BY DEF H!NoRow, MemoryRow, MemoryStanding, H!Kind
<1>2. H!NoRow \in MemoryCand
  BY <1>1 DEF H!NoRow, MemoryCand
<1>3. QED
  BY <1>2 DEF H!Idle, MemoryRowJob

LEMMA MemoryInit == H!Init => MemoryInv
<1> SUFFICES ASSUME H!Init PROVE MemoryInv OBVIOUS
<1>1. MemoryStoreTypes
  <2>1. H!NoRow \in MemoryRow /\ H!Idle \in MemoryRowJob BY MemoryNoRowIsOne DEF MemoryCand
  <2>2. QED BY <2>1 DEF H!Init, MemoryStoreTypes
<1>2. MemoryClosesARow /\ MemoryReviewNoted
  BY DEF H!Init, MemoryClosesARow, MemoryReviewNoted, H!Idle
<1>3. \A i \in H!Id : rows[i].new = 0 /\ rows[i].old = 0
  BY DEF H!Init, H!NoRow
<1>4. MemoryNoLooseEnds /\ H!AppendOnly
  BY <1>3 DEF MemoryNoLooseEnds, H!AppendOnly, H!Id
<1>5. QED BY <1>1, <1>2, <1>4 DEF MemoryInv

\* A row that is written where there was none links to none.
LEMMA MemoryInserted ==
  ASSUME MemoryInv, NEW cand \in MemoryCand, NEW source \in {"user", "tool", "inferred", "extracted"}, H!Insert(cand, source),
         UNCHANGED <<review, overlap>>
  PROVE  rows' \in [H!Id -> MemoryRow] /\ MemoryNoLooseEnds' /\ MemoryReviewNoted' /\ H!AppendOnly'
<1>1. PICK i \in H!Id : H!Free(i) /\ \E st \in H!Landing(cand.kind, source) : rows' = [rows EXCEPT ![i] = [cand EXCEPT !.st = st]]
  <2>1. 1..(IF source = "inferred" THEN MaxFirst + 1 ELSE MaxFirst) \subseteq H!Id
    BY BoundsAreNumbers DEF H!Id
  <2>2. QED BY <2>1 DEF H!Insert
<1>2. H!Landing(cand.kind, source) \subseteq {"active", "quarantined"}
  BY DEF H!Landing
<1>3. PICK st \in {"active", "quarantined"} : rows' = [rows EXCEPT ![i] = [cand EXCEPT !.st = st]]
  BY <1>1, <1>2
<1>4. [cand EXCEPT !.st = st] \in MemoryCand
  BY DEF MemoryCand, MemoryRow, MemoryStanding
<1> DEFINE added == [cand EXCEPT !.st = st]
<1>5. added \in MemoryRow /\ added.old = 0 /\ added.new = 0
  BY <1>4 DEF MemoryCand
<1> HIDE DEF added
<1>6. /\ rows' \in [H!Id -> MemoryRow]
      /\ rows'[i] = added
      /\ \A j \in H!Id : j # i => rows'[j] = rows[j]
  BY <1>3, <1>5 DEF added, MemoryInv, MemoryStoreTypes
<1>7. rows[i].old = 0 /\ rows[i].new = 0
  BY <1>1 DEF H!Free, MemoryInv, MemoryNoLooseEnds
<1>8. \A j \in H!Id :
        /\ rows'[j].old = rows[j].old /\ rows'[j].new = rows[j].new
        /\ j # i => rows'[j].st = rows[j].st
  BY <1>5, <1>6, <1>7
<1>9. MemoryNoLooseEnds'
  BY <1>5, <1>6, <1>8 DEF MemoryInv, MemoryNoLooseEnds
<1>10. MemoryReviewNoted'
  BY <1>8 DEF MemoryInv, MemoryReviewNoted, MemoryStoreTypes
<1>11. H!AppendOnly'
  BY <1>7, <1>8 DEF MemoryInv, H!AppendOnly
<1>12. QED
  BY <1>6, <1>9, <1>10, <1>11

\* A writer goes on with its job, the rows are left alone.
LEMMA MemoryOnlyJobs ==
  ASSUME MemoryInv, NEW w \in H!Writer, NEW j \in MemoryRowJob, H!Does(w, j),
         j.at \in {"read", "close"} => j.target \in H!Id, j.at = "close" => j.cand.st \notin {"none", "erased"},
         UNCHANGED <<tombs, review>>, overlap' \in BOOLEAN,
         rows' \in [H!Id -> MemoryRow] /\ MemoryNoLooseEnds' /\ MemoryReviewNoted' /\ H!AppendOnly'
  PROVE  MemoryInv'
<1>1. job' \in [H!Writer -> MemoryRowJob] /\ job'[w] = j /\ \A v \in H!Writer : v # w => job'[v] = job[v]
  BY DEF H!Does, MemoryInv, MemoryStoreTypes
<1>2. MemoryClosesARow'
  BY <1>1 DEF MemoryInv, MemoryClosesARow
<1>3. MemoryStoreTypes'
  BY <1>1 DEF MemoryInv, MemoryStoreTypes
<1>4. QED
  BY <1>2, <1>3 DEF MemoryInv

\* Standings change, and only of rows no other has replaced, but for the one reviewed.
LEMMA MemoryOnlyStandings ==
  ASSUME MemoryInv, UNCHANGED <<job, overlap>>, review' \in {review, 0},
         rows' \in [H!Id -> MemoryRow],
         \A i \in H!Id :
           /\ rows'[i].old = rows[i].old /\ rows'[i].new = rows[i].new
           /\ \/ rows'[i].st = rows[i].st
              \/ /\ rows[i].st \notin {"none", "erased"} /\ rows'[i].st \notin {"none", "erased"}
                 /\ rows[i].st # "superseded" \/ i = review
  PROVE  MemoryInv'
<1>1. MemoryStoreTypes'
  BY DEF MemoryInv, MemoryStoreTypes
<1>2. MemoryClosesARow'
  BY DEF MemoryInv, MemoryClosesARow
<1>3. MemoryNoLooseEnds'
  BY DEF MemoryInv, MemoryNoLooseEnds
<1>4. MemoryReviewNoted'
  BY DEF MemoryInv, MemoryReviewNoted, MemoryStoreTypes
<1>5. H!AppendOnly'
  <2>1. ASSUME NEW i \in H!Id, rows[i].new # 0, ~overlap PROVE rows'[i].st = "superseded"
    <3>1. rows[i].st = "superseded" BY <2>1 DEF MemoryInv, H!AppendOnly
    <3>2. i # review BY <2>1 DEF MemoryInv, MemoryReviewNoted, H!Id
    <3>3. QED BY <3>1, <3>2
  <2>2. QED BY <2>1 DEF MemoryInv, H!AppendOnly
<1>6. QED
  BY <1>1, <1>2, <1>3, <1>4, <1>5 DEF MemoryInv

\* A row that has not been closed is closed by one that was not there.
LEMMA MemoryCloses ==
  ASSUME MemoryInv, NEW w \in H!Writer, H!Close(w)
  PROVE  rows' \in [H!Id -> MemoryRow] /\ MemoryNoLooseEnds' /\ MemoryReviewNoted' /\ H!AppendOnly' /\ overlap' \in BOOLEAN
<1> DEFINE i == job[w].target
<1> DEFINE cand == job[w].cand
<1>1. job[w].at = "close" /\ i \in H!Id /\ cand \in MemoryCand /\ cand.st \notin {"none", "erased"} /\ review' = review
  BY DEF H!Close, MemoryInv, MemoryClosesARow, MemoryStoreTypes, MemoryRowJob
<1>2. CASE ~H!Unclosed(i)
  <2>1. rows' = rows /\ overlap' = overlap BY <1>2 DEF H!Close
  <2>2. QED
    BY <1>1, <2>1 DEF MemoryInv, MemoryStoreTypes, MemoryNoLooseEnds, MemoryReviewNoted,
       H!AppendOnly
<1>3. CASE H!Unclosed(i)
  <2>1. PICK n \in H!Id :
          /\ H!Free(n)
          /\ rows' = [rows EXCEPT ![i].st = "superseded", ![i].new = n, ![n] = [cand EXCEPT !.old = i]]
          /\ overlap' = (overlap \/ review = i)
    BY <1>3 DEF H!Close
  <2> HIDE DEF i, cand
  <2>2. rows[n].st = "none" /\ rows[n].old = 0 /\ rows[n].new = 0
    BY <2>1 DEF H!Free, MemoryInv, MemoryNoLooseEnds
  <2>3. rows[i].st \notin {"none", "erased", "superseded"} /\ rows[i].new = 0 /\ n # i
    BY <1>3, <2>2 DEF H!Unclosed, H!Live
  <2> DEFINE closed == [rows[i] EXCEPT !.st = "superseded", !.new = n]
  <2> DEFINE added == [cand EXCEPT !.old = i]
  <2>4. /\ closed \in MemoryRow /\ closed.st = "superseded" /\ closed.new = n /\ closed.old = rows[i].old
        /\ added \in MemoryRow /\ added.st = cand.st /\ added.old = i /\ added.new = 0
    <3>1. rows[i] \in MemoryRow BY <1>1 DEF MemoryInv, MemoryStoreTypes
    <3>2. closed \in MemoryRow /\ closed.st = "superseded" /\ closed.new = n /\ closed.old = rows[i].old
      BY <3>1 DEF MemoryRow, MemoryStanding
    <3>3. added \in MemoryRow /\ added.st = cand.st /\ added.old = i /\ added.new = 0
      BY <1>1 DEF MemoryRow, MemoryCand
    <3>4. QED BY <3>2, <3>3
  <2>5. rows' = [[rows EXCEPT ![i] = closed] EXCEPT ![n] = added]
    BY <2>1, <1>1 DEF MemoryInv, MemoryStoreTypes
  <2> HIDE DEF closed, added
  <2>6. /\ rows' \in [H!Id -> MemoryRow] /\ rows'[i] = closed /\ rows'[n] = added
        /\ \A j \in H!Id : j # i /\ j # n => rows'[j] = rows[j]
    BY <1>1, <2>3, <2>4, <2>5 DEF MemoryInv, MemoryStoreTypes
  <2>7. MemoryNoLooseEnds'
    BY <1>1, <2>4, <2>6 DEF MemoryInv, MemoryNoLooseEnds
  <2>8. MemoryReviewNoted'
    BY <1>1, <2>1, <2>4, <2>6 DEF MemoryInv, MemoryReviewNoted, MemoryStoreTypes
  <2>9. H!AppendOnly'
    <3>1. \A j \in H!Id : rows[j].old # i /\ rows[j].new # n
      BY <1>1, <2>2, <2>3 DEF MemoryInv, H!AppendOnly, H!Id
    <3>2. ASSUME NEW j \in H!Id, NEW k \in H!Id PROVE rows'[j].new = k <=> rows'[k].old = j
      <4>1. rows[j].new = k <=> rows[k].old = j BY DEF MemoryInv, H!AppendOnly
      <4>2. 0 \notin H!Id BY DEF H!Id
      <4>3. CASE j = i BY <4>1, <4>2, <4>3, <2>2, <2>3, <2>4, <2>6, <3>1
      <4>4. CASE j = n BY <4>1, <4>2, <4>4, <2>2, <2>3, <2>4, <2>6, <3>1
      <4>5. CASE j # i /\ j # n BY <4>1, <4>2, <4>5, <2>2, <2>3, <2>4, <2>6, <3>1
      <4>6. QED BY <4>3, <4>4, <4>5
    <3>3. ASSUME NEW j \in H!Id, rows'[j].new # 0, ~overlap' PROVE rows'[j].st = "superseded"
      <4>1. ~overlap BY <2>1, <3>3
      <4>2. QED BY <3>3, <4>1, <2>4, <2>6 DEF MemoryInv, H!AppendOnly
    <3>4. QED BY <3>2, <3>3 DEF H!AppendOnly
  <2>10. overlap' \in BOOLEAN BY <2>1
  <2>11. QED BY <2>6, <2>7, <2>8, <2>9, <2>10
<1>4. QED BY <1>2, <1>3

LEMMA MemoryStep == MemoryInv /\ [H!Next]_H!hvars => MemoryInv'
<1> SUFFICES ASSUME MemoryInv, [H!Next]_H!hvars PROVE MemoryInv'
  OBVIOUS
<1>1. ASSUME NEW source \in {"user", "tool"}, H!State(source) PROVE MemoryInv'
  <2>1. PICK t \in Text, k \in H!Kind, keyed \in IF source = "user" THEN BOOLEAN ELSE {FALSE} :
          /\ H!Insert([H!NoRow EXCEPT !.text = t, !.kind = k, !.keyed = keyed], source)
          /\ tombs' = tombs \ {t}
    BY <1>1, Zenon DEF H!State
  <2>2. UNCHANGED <<job, review, overlap>>
    BY <1>1 DEF H!State
  <2>3. [H!NoRow EXCEPT !.text = t, !.kind = k, !.keyed = keyed] \in MemoryCand
    <3>1. keyed \in BOOLEAN OBVIOUS
    <3>2. QED BY <3>1 DEF H!NoRow, MemoryCand, MemoryRow, MemoryStanding
  <2>4. rows' \in [H!Id -> MemoryRow] /\ MemoryNoLooseEnds' /\ MemoryReviewNoted' /\ H!AppendOnly'
    BY <2>1, <2>2, <2>3, MemoryInserted
  <2>5. MemoryStoreTypes' /\ MemoryClosesARow'
    BY <2>1, <2>2, <2>4 DEF MemoryInv, MemoryStoreTypes, MemoryClosesARow
  <2>6. QED BY <2>4, <2>5 DEF MemoryInv
<1>2. CASE H!Infer
  <2>1. PICK t \in Text, k \in H!Kind : H!Insert([H!NoRow EXCEPT !.text = t, !.kind = k], "inferred")
    BY <1>2, Zenon DEF H!Infer
  <2>2. UNCHANGED <<tombs, job, review, overlap>>
    BY <1>2 DEF H!Infer
  <2>3. [H!NoRow EXCEPT !.text = t, !.kind = k] \in MemoryCand
    BY DEF H!NoRow, MemoryCand, MemoryRow, MemoryStanding
  <2>4. rows' \in [H!Id -> MemoryRow] /\ MemoryNoLooseEnds' /\ MemoryReviewNoted' /\ H!AppendOnly'
    BY <2>1, <2>2, <2>3, MemoryInserted
  <2>5. MemoryStoreTypes' /\ MemoryClosesARow'
    BY <2>2, <2>4 DEF MemoryInv, MemoryStoreTypes, MemoryClosesARow
  <2>6. QED BY <2>4, <2>5 DEF MemoryInv
<1>3. ASSUME rows' = rows, review' = review, overlap' = overlap
      PROVE  overlap' \in BOOLEAN /\ rows' \in [H!Id -> MemoryRow] /\ MemoryNoLooseEnds' /\ MemoryReviewNoted' /\ H!AppendOnly'
  BY <1>3 DEF MemoryInv, MemoryStoreTypes, MemoryNoLooseEnds, MemoryReviewNoted, H!AppendOnly
<1>4. CASE H!Edit
  <2>1. PICK i \in H!Id, t \in Text :
          H!Does("user", [H!Idle EXCEPT !.at = "read", !.target = i, !.cand = [H!NoRow EXCEPT !.text = t]])
    BY <1>4, Zenon DEF H!Edit
  <2>2. [H!NoRow EXCEPT !.text = t] \in MemoryCand
    BY DEF H!NoRow, MemoryCand, MemoryRow, MemoryStanding, H!Kind
  <2> DEFINE j == [H!Idle EXCEPT !.at = "read", !.target = i, !.cand = [H!NoRow EXCEPT !.text = t]]
  <2>3. j \in MemoryRowJob /\ j.at = "read" /\ j.target \in H!Id
    BY <2>2 DEF H!Idle, MemoryRowJob
  <2> HIDE DEF j
  <2>4. UNCHANGED <<rows, tombs, review, overlap>> /\ H!Does("user", j) /\ "user" \in H!Writer
    BY <1>4, <2>1 DEF H!Edit, H!Writer, j
  <2>5. QED BY <1>3, <2>3, <2>4, MemoryOnlyJobs
<1>5. ASSUME NEW x \in H!Writer, H!Extract(x) PROVE MemoryInv'
  <2>1. PICK t \in Text \ tombs, k \in H!Kind, keyed \in BOOLEAN :
          H!Does(x, [H!Idle EXCEPT !.at = IF k = "instruction" THEN "write" ELSE "match",
                               !.cand = [H!NoRow EXCEPT !.text = t, !.kind = k, !.keyed = keyed]])
    BY <1>5, Zenon DEF H!Extract
  <2>2. [H!NoRow EXCEPT !.text = t, !.kind = k, !.keyed = keyed] \in MemoryCand
    BY DEF H!NoRow, MemoryCand, MemoryRow, MemoryStanding
  <2> DEFINE j == [H!Idle EXCEPT !.at = IF k = "instruction" THEN "write" ELSE "match",
                               !.cand = [H!NoRow EXCEPT !.text = t, !.kind = k, !.keyed = keyed]]
  <2>3. j \in MemoryRowJob /\ j.at \notin {"read", "close"}
    BY <2>2 DEF H!Idle, MemoryRowJob
  <2>4. H!Does(x, j) BY <2>1
  <2> HIDE DEF j
  <2>5. UNCHANGED <<rows, tombs, review, overlap>>
    BY <1>5 DEF H!Extract
  <2>6. QED BY <1>3, <2>3, <2>4, <2>5, MemoryOnlyJobs
<1>6. ASSUME NEW x \in H!Writer, H!Match(x) PROVE MemoryInv'
  <2>1. job[x] \in MemoryRowJob /\ H!Idle \in MemoryRowJob
    BY MemoryNoRowIsOne DEF MemoryInv, MemoryStoreTypes
  <2>2. \/ H!Does(x, [job[x] EXCEPT !.at = "write"])
        \/ H!Does(x, H!Idle)
        \/ \E i \in H!Id : H!Does(x, [job[x] EXCEPT !.at = "read", !.target = i])
    <3> DEFINE c == job[x].cand
    <3> DEFINE keyed == {i \in H!Id : H!Active(i) /\ c.keyed /\ rows[i].keyed}
    <3> DEFINE same == {i \in H!Id : H!Active(i) /\ rows[i].kind = c.kind}
    <3>1. PICK i \in IF keyed # {} THEN keyed ELSE same \cup {0} :
            IF i = 0 THEN H!Does(x, [job[x] EXCEPT !.at = "write"])
            ELSE \/ rows[i].text = c.text /\ H!Does(x, H!Idle)
                 \/ H!Does(x, [job[x] EXCEPT !.at = "read", !.target = i])
      BY <1>6, Zenon DEF H!Match
    <3>2. i = 0 \/ i \in H!Id
      OBVIOUS
    <3>3. CASE i = 0 BY <3>1, <3>3, Zenon
    <3>4. CASE i # 0 /\ i \in H!Id BY <3>1, <3>4, Zenon
    <3>5. QED BY <3>2, <3>3, <3>4, Zenon
  <2>3. UNCHANGED <<rows, tombs, review, overlap>>
    BY <1>6 DEF H!Match
  <2>4. CASE H!Does(x, [job[x] EXCEPT !.at = "write"])
    <3> DEFINE j == [job[x] EXCEPT !.at = "write"]
    <3>1. j \in MemoryRowJob /\ j.at = "write" BY <2>1 DEF MemoryRowJob
    <3>2. H!Does(x, j) BY <2>4
    <3> HIDE DEF j
    <3>3. QED BY <1>3, <2>3, <3>1, <3>2, MemoryOnlyJobs
  <2>5. CASE H!Does(x, H!Idle)
    <3>1. H!Idle.at = "idle" BY DEF H!Idle
    <3>2. QED BY <1>3, <2>1, <2>3, <2>5, <3>1, MemoryOnlyJobs
  <2>6. ASSUME NEW i \in H!Id, H!Does(x, [job[x] EXCEPT !.at = "read", !.target = i]) PROVE MemoryInv'
    <3> DEFINE j == [job[x] EXCEPT !.at = "read", !.target = i]
    <3>1. j \in MemoryRowJob /\ j.at = "read" /\ j.target \in H!Id BY <2>1 DEF MemoryRowJob
    <3>2. H!Does(x, j) BY <2>6
    <3> HIDE DEF j
    <3>3. QED BY <1>3, <2>3, <3>1, <3>2, MemoryOnlyJobs
  <2>7. QED BY <2>2, <2>4, <2>5, <2>6, Zenon
<1>7. ASSUME NEW x \in H!Writer, H!Write(x) PROVE MemoryInv'
  <2>1. /\ H!Insert(job[x].cand, "extracted") /\ H!Does(x, H!Idle)
        /\ UNCHANGED <<tombs, review, overlap>>
    BY <1>7 DEF H!Write
  <2>2. job[x].cand \in MemoryCand /\ overlap \in BOOLEAN
    BY DEF MemoryInv, MemoryStoreTypes, MemoryRowJob
  <2>3. rows' \in [H!Id -> MemoryRow] /\ MemoryNoLooseEnds' /\ MemoryReviewNoted' /\ H!AppendOnly'
    BY <2>1, <2>2, MemoryInserted
  <2>4. H!Idle \in MemoryRowJob /\ H!Idle.at = "idle"
    BY MemoryNoRowIsOne DEF H!Idle
  <2>5. QED BY <2>1, <2>2, <2>3, <2>4, MemoryOnlyJobs
<1>8. ASSUME NEW w \in H!Writer, H!Read(w) PROVE MemoryInv'
  <2> DEFINE found == rows[job[w].target]
  <2> DEFINE j == [job[w] EXCEPT !.at = "close", !.cand.kind = found.kind, !.cand.keyed = found.keyed,
                                 !.cand.st = IF found.st = "expired" THEN "active" ELSE found.st]
  <2>1. /\ job[w].at = "read" /\ UNCHANGED <<rows, tombs, review, overlap>>
        /\ (H!Live(job[w].target) /\ H!Does(w, j)) \/ H!Does(w, H!Idle)
    BY <1>8 DEF H!Read
  <2>2. job[w] \in MemoryRowJob /\ job[w].target \in H!Id /\ found \in MemoryRow
    BY <2>1 DEF MemoryInv, MemoryStoreTypes, MemoryClosesARow
  <2>3. CASE H!Live(job[w].target) /\ H!Does(w, j)
    <3> HIDE DEF found
    <3>1. found.st \notin {"none", "erased"} BY <2>3 DEF H!Live, found
    <3> DEFINE st == IF found.st = "expired" THEN "active" ELSE found.st
    <3> DEFINE a == [job[w] EXCEPT !.at = "close"]
    <3> DEFINE b == [a EXCEPT !.cand.kind = found.kind]
    <3> DEFINE c == [b EXCEPT !.cand.keyed = found.keyed]
    <3> DEFINE d == [c EXCEPT !.cand.st = st]
    <3>2. st \in MemoryStanding \ {"none", "erased"} /\ found.kind \in H!Kind /\ found.keyed \in BOOLEAN
      BY <2>2, <3>1 DEF MemoryRow, MemoryStanding
    <3>3. j = d
      BY Zenon
    <3> HIDE DEF st, j, d
    <3>4. a \in MemoryRowJob /\ a.at = "close" /\ a.target \in H!Id
      BY <2>2 DEF MemoryRowJob
    <3> HIDE DEF a, c
    <3>5. b \in MemoryRowJob /\ b.at = "close" /\ b.target \in H!Id
      <4>1. a.cand \in MemoryCand BY <3>4 DEF MemoryRowJob
      <4>2. [a.cand EXCEPT !.kind = found.kind] \in MemoryCand
        BY <3>2, <4>1 DEF MemoryCand, MemoryRow
      <4>3. QED BY <3>4, <4>2 DEF MemoryRowJob
    <3> HIDE DEF b
    <3>6. c \in MemoryRowJob /\ c.at = "close" /\ c.target \in H!Id
      <4>1. b.cand \in MemoryCand BY <3>5 DEF MemoryRowJob
      <4>2. [b.cand EXCEPT !.keyed = found.keyed] \in MemoryCand
        BY <3>2, <4>1 DEF MemoryCand, MemoryRow
      <4>3. QED BY <3>5, <4>2 DEF MemoryRowJob, c
    <3>7. d \in MemoryRowJob /\ d.at = "close" /\ d.target \in H!Id /\ d.cand.st \notin {"none", "erased"}
      <4>1. c.cand \in MemoryCand BY <3>6 DEF MemoryRowJob
      <4>2. [c.cand EXCEPT !.st = st] \in MemoryCand /\ [c.cand EXCEPT !.st = st].st = st
        BY <3>2, <4>1 DEF MemoryCand, MemoryRow
      <4>3. QED BY <3>2, <3>6, <4>2 DEF MemoryRowJob, d
    <3>8. QED BY <1>3, <2>1, <2>3, <3>3, <3>7, MemoryOnlyJobs
  <2>4. CASE H!Does(w, H!Idle)
    <3>1. H!Idle \in MemoryRowJob /\ H!Idle.at = "idle" BY MemoryNoRowIsOne DEF H!Idle
    <3>2. QED BY <1>3, <2>1, <2>4, <3>1, MemoryOnlyJobs
  <2>5. QED BY <2>1, <2>3, <2>4
<1>9. ASSUME NEW w \in H!Writer, H!Close(w) PROVE MemoryInv'
  <2>1. rows' \in [H!Id -> MemoryRow] /\ MemoryNoLooseEnds' /\ MemoryReviewNoted' /\ H!AppendOnly' /\ overlap' \in BOOLEAN
    BY <1>9, MemoryCloses
  <2>2. H!Does(w, H!Idle) /\ UNCHANGED <<tombs, review>>
    BY <1>9 DEF H!Close
  <2>3. H!Idle \in MemoryRowJob /\ H!Idle.at = "idle"
    BY MemoryNoRowIsOne DEF H!Idle
  <2>4. QED BY <2>1, <2>2, <2>3, MemoryOnlyJobs
<1>10. CASE H!Review
  <2>1. PICK i \in H!Id : rows[i].st = "quarantined" /\ review' = i
    BY <1>10 DEF H!Review
  <2>2. UNCHANGED <<rows, tombs, job, overlap>>
    BY <1>10 DEF H!Review
  <2>3. MemoryReviewNoted'
    BY <2>1, <2>2 DEF MemoryInv, MemoryReviewNoted, H!AppendOnly
  <2>4. MemoryStoreTypes' /\ MemoryClosesARow' /\ MemoryNoLooseEnds' /\ H!AppendOnly'
    BY <2>1, <2>2 DEF MemoryInv, MemoryStoreTypes, MemoryClosesARow, MemoryNoLooseEnds, H!AppendOnly
  <2>5. QED BY <2>3, <2>4 DEF MemoryInv
<1>11. CASE H!Decide
  <2>1. review # 0 /\ review' = 0 /\ UNCHANGED <<tombs, job, overlap>>
    BY <1>11 DEF H!Decide
  <2>2. review \in H!Id /\ rows[review] \in MemoryRow
    BY <2>1 DEF MemoryInv, MemoryStoreTypes
  <2>3. CASE rows' = rows
    <3>1. \A i \in H!Id : rows'[i].st = rows[i].st /\ rows'[i].old = rows[i].old /\ rows'[i].new = rows[i].new
      BY <2>3
    <3>2. rows' \in [H!Id -> MemoryRow] BY <2>3 DEF MemoryInv, MemoryStoreTypes
    <3>3. QED BY <2>1, <3>1, <3>2, MemoryOnlyStandings
  <2>4. CASE H!Live(review) /\ \E st \in {"active", "rejected"} : rows' = [rows EXCEPT ![review].st = st]
    <3>1. PICK st \in {"active", "rejected"} : rows' = [rows EXCEPT ![review].st = st]
      BY <2>4
    <3>2. /\ rows' \in [H!Id -> MemoryRow] /\ rows'[review].st = st
          /\ \A i \in H!Id :
               /\ rows'[i].old = rows[i].old /\ rows'[i].new = rows[i].new
               /\ i # review => rows'[i].st = rows[i].st
      BY <2>2, <3>1 DEF MemoryInv, MemoryStoreTypes, MemoryRow, MemoryStanding
    <3>3. rows[review].st \notin {"none", "erased"} BY <2>4 DEF H!Live
    <3>4. QED BY <2>1, <3>2, <3>3, MemoryOnlyStandings
  <2>5. QED BY <1>11, <2>3, <2>4 DEF H!Decide
<1>12. ASSUME NEW x \in H!Id, H!Expire(x) PROVE MemoryInv'
  <2>1. /\ rows[x].st \in {"active", "quarantined"} /\ rows' = [rows EXCEPT ![x].st = "expired"]
        /\ UNCHANGED <<tombs, job, review, overlap>>
    BY <1>12 DEF H!Expire
  <2>2. /\ rows' \in [H!Id -> MemoryRow] /\ rows'[x].st = "expired"
        /\ \A i \in H!Id :
             /\ rows'[i].old = rows[i].old /\ rows'[i].new = rows[i].new
             /\ i # x => rows'[i].st = rows[i].st
    BY <2>1 DEF MemoryInv, MemoryStoreTypes, MemoryRow, MemoryStanding
  <2>3. QED BY <2>1, <2>2, MemoryOnlyStandings
<1>13. CASE H!Sweep
  <2> DEFINE keyed == {i \in H!Id : H!Active(i) /\ rows[i].keyed}
  <2>1. /\ rows' = [i \in H!Id |-> IF i \in keyed /\ \E j \in keyed : j > i
                                   THEN [rows[i] EXCEPT !.st = "quarantined"] ELSE rows[i]]
        /\ UNCHANGED <<tombs, job, review, overlap>>
    BY <1>13 DEF H!Sweep
  <2>2. \A i \in H!Id : rows[i] \in MemoryRow BY DEF MemoryInv, MemoryStoreTypes
  <2>3. \A i \in keyed : rows[i].st = "active" BY DEF H!Active
  <2> HIDE DEF keyed
  <2>4. \A i \in H!Id : [rows[i] EXCEPT !.st = "quarantined"] \in MemoryRow
    BY <2>2 DEF MemoryRow, MemoryStanding
  <2>5. rows' \in [H!Id -> MemoryRow]
    BY <2>1, <2>2, <2>4
  <2>6. \A i \in H!Id :
          /\ rows'[i].old = rows[i].old /\ rows'[i].new = rows[i].new
          /\ rows'[i].st = rows[i].st \/ (rows[i].st = "active" /\ rows'[i].st = "quarantined")
    BY <2>1, <2>2, <2>3 DEF MemoryRow
  <2>7. QED BY <2>1, <2>5, <2>6, MemoryOnlyStandings
<1>14. CASE UNCHANGED <<rows, job, review, overlap>>
  BY <1>14 DEF MemoryInv, MemoryStoreTypes, MemoryClosesARow, MemoryNoLooseEnds,
     MemoryReviewNoted, H!AppendOnly
<1>15. ASSUME NEW x \in H!Id, H!Forget(x) PROVE MemoryInv'
  BY <1>14, <1>15 DEF H!Forget
<1>16. CASE H!Unforget
  BY <1>14, <1>16 DEF H!Unforget
<1>17. ASSUME NEW x \in H!Id, H!Erase(x) PROVE MemoryInv'
  <2> DEFINE blank == [H!NoRow EXCEPT !.st = "erased"]
  <2> DEFINE back(j) == IF rows[j].old = x THEN 0 ELSE rows[j].old
  <2> DEFINE forth(j) == IF rows[j].new = x THEN 0 ELSE rows[j].new
  <2> DEFINE left(j) == [rows[j] EXCEPT !.old = back(j), !.new = forth(j)]
  <2>1. rows' = [j \in H!Id |-> IF j = x THEN blank ELSE left(j)]
    BY <1>17, Zenon DEF H!Erase
  <2>2. UNCHANGED <<job, review, overlap>>
    BY <1>17, Zenon DEF H!Erase
  <2>3. blank \in MemoryRow /\ blank.st = "erased" /\ blank.old = 0 /\ blank.new = 0
    BY DEF H!NoRow, MemoryRow, MemoryStanding, H!Kind
  <2>4. \A j \in H!Id : back(j) \in H!Id \cup {0} /\ forth(j) \in H!Id \cup {0} /\ rows[j] \in MemoryRow
    BY DEF MemoryInv, MemoryStoreTypes, MemoryRow
  <2> HIDE DEF blank, back, forth
  <2>5. \A j \in H!Id :
          /\ left(j) \in MemoryRow /\ left(j).st = rows[j].st
          /\ left(j).old = back(j) /\ left(j).new = forth(j)
    BY <2>4 DEF MemoryRow
  <2> HIDE DEF left
  <2>6. /\ rows' \in [H!Id -> MemoryRow] /\ rows'[x] = blank
        /\ \A j \in H!Id : j # x =>
             /\ rows'[j].st = rows[j].st
             /\ rows'[j].old = back(j) /\ rows'[j].new = forth(j)
    BY <2>1, <2>3, <2>5
  <2> USE DEF back, forth
  <2>7. MemoryStoreTypes' /\ MemoryClosesARow'
    BY <2>2, <2>6 DEF MemoryInv, MemoryStoreTypes, MemoryClosesARow
  <2>8. MemoryNoLooseEnds'
    BY <2>3, <2>6 DEF MemoryInv, MemoryNoLooseEnds
  <2>9. MemoryReviewNoted'
    BY <2>2, <2>3, <2>6 DEF MemoryInv, MemoryReviewNoted, MemoryStoreTypes
  <2>10. H!AppendOnly'
    <3>1. 0 \notin H!Id BY DEF H!Id
    <3>2. ASSUME NEW i \in H!Id, NEW j \in H!Id PROVE rows'[i].new = j <=> rows'[j].old = i
      <4>1. rows[i].new = j <=> rows[j].old = i BY DEF MemoryInv, H!AppendOnly
      <4>2. QED BY <2>3, <2>6, <3>1, <4>1
    <3>3. \A i \in H!Id : rows'[i].new # 0 /\ ~overlap' => rows'[i].st = "superseded"
      BY <2>2, <2>3, <2>6 DEF MemoryInv, H!AppendOnly
    <3>4. QED BY <3>2, <3>3 DEF H!AppendOnly
  <2>11. QED BY <2>7, <2>8, <2>9, <2>10 DEF MemoryInv
<1>18. CASE H!Purge
  <2> DEFINE blank == [H!NoRow EXCEPT !.st = "erased"]
  <2>1. /\ rows' = [i \in H!Id |-> IF H!Live(i) THEN blank ELSE rows[i]]
        /\ tombs' = {} /\ UNCHANGED <<job, review, overlap>>
    BY <1>18 DEF H!Purge
  <2>2. blank \in MemoryRow /\ blank.st = "erased" /\ blank.old = 0 /\ blank.new = 0
    BY DEF H!NoRow, MemoryRow, MemoryStanding, H!Kind
  <2> HIDE DEF blank
  <2>3. rows' \in [H!Id -> MemoryRow] BY <2>1, <2>2 DEF MemoryInv, MemoryStoreTypes
  <2>4. \A i \in H!Id : rows'[i].old = 0 /\ rows'[i].new = 0
    BY <2>1, <2>2 DEF H!Live, MemoryInv, MemoryNoLooseEnds
  <2>5. MemoryStoreTypes' /\ MemoryClosesARow'
    BY <2>1, <2>3 DEF MemoryInv, MemoryStoreTypes, MemoryClosesARow
  <2>6. MemoryNoLooseEnds' /\ MemoryReviewNoted' /\ H!AppendOnly'
    BY <2>1, <2>4 DEF MemoryInv, MemoryStoreTypes, MemoryNoLooseEnds, MemoryReviewNoted,
       H!AppendOnly, H!Id
  <2>7. QED BY <2>5, <2>6 DEF MemoryInv
<1>19. CASE UNCHANGED H!hvars
  BY <1>19 DEF H!hvars, MemoryInv, MemoryStoreTypes, MemoryClosesARow, MemoryNoLooseEnds,
     MemoryReviewNoted, H!AppendOnly
<1>20. QED
  BY <1>1, <1>2, <1>4, <1>5, <1>6, <1>7, <1>8, <1>9, <1>10, <1>11, <1>12, <1>13, <1>15, <1>16,
     <1>17, <1>18, <1>19 DEF H!Next

\* AppendOnly, for any number of pipelines and any number of rows: whoever replaces,
\* reviews, expires, forgets and erases at the same time, no row is replaced twice, no
\* chain loses an end, and a replaced row is current again only by a review whose
\* unguarded write met its replacement (supersede closes a row WHERE superseded_at IS NULL, hard_delete
\* unlinks both ways).
THEOREM ReplacedOnce == Spec => []AppendOnly
<1>1. Init => MemoryInv
  BY MemoryInit DEF Init
<1>2. MemoryInv /\ [Next]_vars => MemoryInv'
  BY MemoryStep, OnePartMoves
<1>3. MemoryInv => AppendOnly
  BY DEF AppendOnly, MemoryInv, H!AppendOnly
<1>4. QED
  BY <1>1, <1>2, <1>3, PTL DEF Spec




=============================================================================
