----------------------------- MODULE WorkProofs -----------------------------
(***************************************************************************)
(* What is claimed of the parts of Work, for every value of the constants. *)
(***************************************************************************)
EXTENDS Work, FiniteSetTheorems, TLAPS

-----------------------------------------------------------------------------
(* The parts *)

\* A step of one part is a stutter of the others.
LEMMA OnePartMoves ==
  [Next]_vars =>
    /\ [S!Next]_(S!cvars)
    /\ [M!Next]_(M!mvars)
    /\ [T!Next]_(T!tvars)
    /\ [A!Next]_(A!avars)
    /\ [G!Next]_(G!gvars)
    /\ [N!Next]_(N!nvars)
    /\ [K!Next]_(K!wkvars)
    /\ [C!Next]_(C!kvars)
    /\ [R!Next]_(R!lvars)
    /\ [B!Next]_(B!bvars)
<1>1. CASE UNCHANGED vars
  BY <1>1 DEF vars, sv, mv, tv, av, gv, nv, kv, cv, rv, bv, S!cvars, M!mvars, T!tvars, A!avars,
     G!gvars, N!nvars, K!wkvars, C!kvars, R!lvars, B!bvars
<1>2. CASE Next
  BY <1>2 DEF Next, sv, mv, tv, av, gv, nv, kv, cv, rv, bv, S!cvars, M!mvars, T!tvars, A!avars,
     G!gvars, N!nvars, K!wkvars, C!kvars, R!lvars, B!bvars
<1>3. QED
  BY <1>1, <1>2

\* The parts count as their surroundings do.
LEMMA SameSize == \A set : B!Cardinality(set) = Cardinality(set) /\ K!Cardinality(set) = Cardinality(set)
  BY DEF B!Cardinality, K!Cardinality, Cardinality

-----------------------------------------------------------------------------
(* The registry cache (RegistryCache) *)

CacheSteps == {"none", "mark", "delete", "tell", "done", "notice", "missed", "resync"}
CacheJobs  == [step : CacheSteps, left : SUBSET Registry]
CacheCopies     == [has : SUBSET S!Slot, clean : BOOLEAN]
CacheLoads      == [step : {"idle", "query", "loaded", "set"}, moved : BOOLEAN, has : SUBSET S!Slot]
CacheBlobs      == [there : BOOLEAN, has : SUBSET S!Slot, excused : BOOLEAN]

CacheTypes ==
  /\ store \in Seq(Written) /\ Len(store) <= MaxWrite
  /\ job \in [Replica -> [S!Slot -> CacheJobs]]
  /\ cache \in [Replica -> [Registry -> CacheCopies]]
  /\ load \in [Replica -> [Registry -> CacheLoads]]
  /\ blob \in [Registry -> CacheBlobs]

\* Nobody has heard of a write that is not there.
CacheUnheard == \A q \in Replica : \A w \in S!Slot \ {0} : w \notin DOMAIN store => job[q][w].step = "none"

\* An invalidation of g by a job: its mark is to come; its deletion is to come.
CacheToMark(j, g) ==
  \/ j.step = "mark" /\ g \in j.left
  \/ j.step = "delete" /\ g \in j.left \ {S!First(j.left)}
CacheToDelete(j, g) == j.step \in {"mark", "delete"} /\ g \in j.left

\* The same of write w at a replica whose jobs these are; what was missed comes with
\* the resync.
CacheMarkAhead(jobs, w, g) ==
  \/ jobs[w].step \in {"none", "notice", "missed"}
  \/ CacheToMark(jobs[w], g)
  \/ jobs[w].step = "resync" /\ CacheToMark(jobs[0], g)
CacheDeleteAhead(jobs, w, g) ==
  \/ jobs[w].step \in {"none", "notice", "missed"}
  \/ CacheToDelete(jobs[w], g)
  \/ jobs[w].step = "resync" /\ CacheToDelete(jobs[0], g)

\* Whoever serves or holds a copy without a write is to hear of it; a key without one
\* is to be deleted by somebody.
CacheCopyOK(q, g, w) == mode = "memory" /\ cache[q][g].clean /\ w \notin cache[q][g].has => CacheMarkAhead(job[q], w, g)
CacheLoadOK(q, g, w) ==
  load[q][g].step \in {"loaded", "set"} /\ ~load[q][g].moved /\ w \notin load[q][g].has => CacheMarkAhead(job[q], w, g)
CacheBlobOK(g, w) ==
  mode = "redis" /\ blob[g].there /\ ~blob[g].excused /\ w \notin blob[g].has
    => \E q \in Replica : CacheDeleteAhead(job[q], w, g)

CacheLackAnnounced ==
  \A g \in Registry : \A w \in S!Rows(g) : CacheBlobOK(g, w) /\ \A q \in Replica : CacheCopyOK(q, g, w) /\ CacheLoadOK(q, g, w)

CacheInv == CacheTypes /\ CacheUnheard /\ CacheLackAnnounced

-----------------------------------------------------------------------------
LEMMA CacheRowsAreWrites ==
  ASSUME CacheTypes
  PROVE  \A g : S!Rows(g) \subseteq S!Slot \ {0} /\ S!Rows(g) \subseteq DOMAIN store
BY WritesAreCounted DEF CacheTypes, S!Rows, S!Slot

\* What is to be marked is to be deleted.
LEMMA CacheMarkThenDelete == \A jobs, w, g : CacheMarkAhead(jobs, w, g) => CacheDeleteAhead(jobs, w, g)
BY DEF CacheMarkAhead, CacheDeleteAhead, CacheToMark, CacheToDelete

\* There is a first of some registries.
LEMMA CacheFirstIsOne == ASSUME NEW left, left # {} PROVE S!First(left) \in left
BY DEF S!First

-----------------------------------------------------------------------------
(* What the steps do to the jobs of a replica *)

\* A job that ends is over for its write, and for what was missed if it is the resync.
LEMMA CacheJobEnds ==
  ASSUME CacheTypes, NEW q \in Replica, NEW s \in S!Slot, NEW jobs,
         jobs = S!Resynced(q, s, [job[q] EXCEPT ![s] = S!Marked(q, s)])
  PROVE  /\ jobs \in [S!Slot -> CacheJobs]
         /\ s = 0 => \A w \in S!Slot \ {0} : jobs[w].step = job[q][w].step \/ job[q][w].step = "resync"
         /\ s = 0 => \A w \in S!Slot \ {0} : job[q][w].step # "resync" => jobs[w] = job[q][w]
         /\ s # 0 => \A w \in S!Slot \ {s} : jobs[w] = job[q][w]
<1>1. job[q] \in [S!Slot -> CacheJobs] /\ S!Marked(q, s) \in CacheJobs
  BY DEF CacheTypes, S!Marked, CacheJobs, CacheSteps
<1> DEFINE h == [job[q] EXCEPT ![s] = S!Marked(q, s)]
<1>2. h \in [S!Slot -> CacheJobs] /\ \A w \in S!Slot \ {s} : h[w] = job[q][w] BY <1>1
<1>3. jobs = S!Resynced(q, s, h) OBVIOUS
<1> HIDE DEF h
<1>4. CASE s # 0 BY <1>2, <1>3, <1>4 DEF S!Resynced
<1>5. CASE s = 0
  <2>1. jobs = [w \in S!Slot |-> IF h[w].step = "resync" THEN [h[w] EXCEPT !.step = "done"] ELSE h[w]]
    BY <1>3, <1>5 DEF S!Resynced
  <2>2. \A w \in S!Slot : h[w] \in CacheJobs BY <1>2
  <2>3. \A j \in CacheJobs : [j EXCEPT !.step = "done"] \in CacheJobs BY DEF CacheJobs, CacheSteps
  <2>4. jobs \in [S!Slot -> CacheJobs] BY <2>1, <2>2, <2>3
  <2>5. QED BY <1>2, <1>5, <2>1, <2>4
<1>6. QED BY <1>4, <1>5

\* A step that gives one job of q a new value.
LEMMA CacheJobSet ==
  ASSUME CacheTypes, NEW q \in Replica, NEW s \in S!Slot, NEW j \in CacheJobs
  PROVE  /\ [job[q] EXCEPT ![s] = j] \in [S!Slot -> CacheJobs]
         /\ [job[q] EXCEPT ![s] = j][s] = j
         /\ \A w \in S!Slot \ {s} : [job[q] EXCEPT ![s] = j][w] = job[q][w]
BY DEF CacheTypes

\* Where a job goes on or ends with registry g0 done, or all that it had left, nothing
\* else is lost.
LEMMA CacheGoesOn ==
  ASSUME CacheTypes, NEW q \in Replica, NEW s \in S!Slot, NEW jobs \in [S!Slot -> CacheJobs], NEW past,
         \A w \in S!Slot \ {0, s} : jobs[w] = job[q][w] \/ (s = 0 /\ job[q][w].step = "resync"),
         s # 0 => jobs[0] = job[q][0],
         job[q][s].step \in {"mark", "delete"},
         \A g : CacheToMark(job[q][s], g) => CacheToMark(jobs[s], g) \/ g \in past,
         s = 0 => \A w \in S!Slot \ {0} : job[q][w].step = "resync" =>
                    jobs[w] = job[q][w] \/ \A g : CacheToMark(job[q][0], g) => g \in past
  PROVE  \A w \in S!Slot \ {0} : \A g : CacheMarkAhead(job[q], w, g) => CacheMarkAhead(jobs, w, g) \/ g \in past
<1> SUFFICES ASSUME NEW w \in S!Slot \ {0}, NEW g, CacheMarkAhead(job[q], w, g), g \notin past PROVE CacheMarkAhead(jobs, w, g)
  OBVIOUS
<1>1. CASE w = s BY <1>1 DEF CacheMarkAhead
<1>2. CASE w # s /\ s # 0 BY <1>2 DEF CacheMarkAhead
<1>3. CASE s = 0
  <2>1. w # s /\ w \in S!Slot \ {0, s} BY <1>3
  <2>2. CASE job[q][w].step # "resync"
    <3>1. jobs[w] = job[q][w] BY <2>1, <2>2
    <3>2. QED BY <2>2, <3>1 DEF CacheMarkAhead
  <2>3. CASE job[q][w].step = "resync"
    <3>1. CacheToMark(job[q][0], g) \/ CacheToMark(job[q][w], g) BY <2>3 DEF CacheMarkAhead
    <3>2. ~CacheToMark(job[q][w], g) BY <2>3 DEF CacheToMark, CacheToDelete
    <3>3. jobs[w] = job[q][w] BY <1>3, <2>3, <3>1, <3>2
    <3>4. CacheToMark(jobs[0], g) BY <1>3, <3>1, <3>2
    <3>5. QED BY <2>3, <3>3, <3>4 DEF CacheMarkAhead
  <2>4. QED BY <2>2, <2>3
<1>4. QED BY <1>1, <1>2, <1>3

LEMMA CacheGoesOnDeleting ==
  ASSUME CacheTypes, NEW q \in Replica, NEW s \in S!Slot, NEW jobs \in [S!Slot -> CacheJobs], NEW past,
         \A w \in S!Slot \ {0, s} : jobs[w] = job[q][w] \/ (s = 0 /\ job[q][w].step = "resync"),
         s # 0 => jobs[0] = job[q][0],
         job[q][s].step \in {"mark", "delete"},
         \A g : CacheToDelete(job[q][s], g) => CacheToDelete(jobs[s], g) \/ g \in past,
         s = 0 => \A w \in S!Slot \ {0} : job[q][w].step = "resync" =>
                    jobs[w] = job[q][w] \/ \A g : CacheToDelete(job[q][0], g) => g \in past
  PROVE  \A w \in S!Slot \ {0} : \A g : CacheDeleteAhead(job[q], w, g) => CacheDeleteAhead(jobs, w, g) \/ g \in past
<1> SUFFICES ASSUME NEW w \in S!Slot \ {0}, NEW g, CacheDeleteAhead(job[q], w, g), g \notin past PROVE CacheDeleteAhead(jobs, w, g)
  OBVIOUS
<1>1. CASE w = s BY <1>1 DEF CacheDeleteAhead
<1>2. CASE w # s /\ s # 0 BY <1>2 DEF CacheDeleteAhead
<1>3. CASE s = 0
  <2>1. w # s /\ w \in S!Slot \ {0, s} BY <1>3
  <2>2. CASE job[q][w].step # "resync"
    <3>1. jobs[w] = job[q][w] BY <2>1, <2>2
    <3>2. QED BY <2>2, <3>1 DEF CacheDeleteAhead
  <2>3. CASE job[q][w].step = "resync"
    <3>1. CacheToDelete(job[q][0], g) \/ CacheToDelete(job[q][w], g) BY <2>3 DEF CacheDeleteAhead
    <3>2. ~CacheToDelete(job[q][w], g) BY <2>3 DEF CacheToMark, CacheToDelete
    <3>3. jobs[w] = job[q][w] BY <1>3, <2>3, <3>1, <3>2
    <3>4. CacheToDelete(jobs[0], g) BY <1>3, <3>1, <3>2
    <3>5. QED BY <2>3, <3>3, <3>4 DEF CacheDeleteAhead
  <2>4. QED BY <2>2, <2>3
<1>4. QED BY <1>1, <1>2, <1>3
-----------------------------------------------------------------------------
(* What is lacked stays announced *)

\* A step after which every copy is what it was, or of a registry that q just marked,
\* or is not served, and what was ahead is ahead or was of such a registry.
LEMMA CacheStaysAnnounced ==
  ASSUME CacheInv, CacheTypes', UNCHANGED <<mode, store>>,
         \A p \in Replica : \A g \in Registry : \A w \in S!Rows(g) :
           /\ CacheCopyOK(p, g, w) => CacheCopyOK(p, g, w)'
           /\ CacheLoadOK(p, g, w) => CacheLoadOK(p, g, w)',
         \A g \in Registry : \A w \in S!Rows(g) : CacheBlobOK(g, w) => CacheBlobOK(g, w)'
  PROVE  CacheLackAnnounced'
<1>1. \A g : S!Rows(g)' = S!Rows(g) BY DEF S!Rows
<1>2. QED BY <1>1 DEF CacheInv, CacheLackAnnounced

\* Nothing is taken from what is ahead of a copy.
LEMMA CacheNothingLost ==
  ASSUME CacheInv, CacheTypes', UNCHANGED <<mode, store, cache, load, blob>>,
         \A p \in Replica : \A g \in Registry : \A w \in S!Rows(g) :
           /\ CacheMarkAhead(job[p], w, g) => CacheMarkAhead(job'[p], w, g)
           /\ CacheDeleteAhead(job[p], w, g) => CacheDeleteAhead(job'[p], w, g)
  PROVE  CacheLackAnnounced'
<1>1. ASSUME NEW g \in Registry, NEW w \in S!Rows(g), NEW p \in Replica
      PROVE  /\ CacheCopyOK(p, g, w) => CacheCopyOK(p, g, w)'
             /\ CacheLoadOK(p, g, w) => CacheLoadOK(p, g, w)'
             /\ CacheBlobOK(g, w) => CacheBlobOK(g, w)'
  <2>1. \A q \in Replica : /\ CacheMarkAhead(job[q], w, g) => CacheMarkAhead(job'[q], w, g)
                           /\ CacheDeleteAhead(job[q], w, g) => CacheDeleteAhead(job'[q], w, g)
    OBVIOUS
  <2>2. CacheCopyOK(p, g, w)' <=> (mode = "memory" /\ cache[p][g].clean /\ w \notin cache[p][g].has => CacheMarkAhead(job'[p], w, g))
    BY DEF CacheCopyOK, CacheMarkAhead, CacheToMark
  <2>3. CacheLoadOK(p, g, w)' <=> (load[p][g].step \in {"loaded", "set"} /\ ~load[p][g].moved /\ w \notin load[p][g].has
                                => CacheMarkAhead(job'[p], w, g))
    BY DEF CacheLoadOK, CacheMarkAhead, CacheToMark
  <2>4. CacheBlobOK(g, w)' <=> (mode = "redis" /\ blob[g].there /\ ~blob[g].excused /\ w \notin blob[g].has
                             => \E q \in Replica : CacheDeleteAhead(job'[q], w, g))
    BY DEF CacheBlobOK, CacheDeleteAhead, CacheToDelete
  <2>5. QED BY <2>1, <2>2, <2>3, <2>4 DEF CacheCopyOK, CacheLoadOK, CacheBlobOK
<1>2. ASSUME Replica = {} PROVE \A g \in Registry : \A w \in S!Rows(g) : CacheBlobOK(g, w) => CacheBlobOK(g, w)'
  BY <1>2 DEF CacheBlobOK
<1>3. QED BY <1>1, <1>2, CacheStaysAnnounced

\* q marks the registries in gs, and its jobs go on or end with them.
LEMMA CacheMarksWell ==
  ASSUME CacheInv, CacheTypes', UNCHANGED <<mode, store, blob>>, NEW q \in Replica, NEW gs, NEW jobs,
         S!Dirty(q, gs), job' = [job EXCEPT ![q] = jobs],
         \A w \in S!Slot \ {0} : \A g :
           /\ CacheMarkAhead(job[q], w, g) => CacheMarkAhead(jobs, w, g) \/ g \in gs
           /\ mode = "redis" /\ CacheDeleteAhead(job[q], w, g) => CacheDeleteAhead(jobs, w, g)
  PROVE  CacheLackAnnounced'
<1>1. \A g : S!Rows(g) \subseteq S!Slot \ {0} BY CacheRowsAreWrites DEF CacheInv
<1>2. job'[q] = jobs /\ \A p \in Replica \ {q} : job'[p] = job[p]
  BY DEF CacheInv, CacheTypes
<1>3. /\ \A p \in Replica \ {q} : cache'[p] = cache[p] /\ load'[p] = load[p]
      /\ \A g \in Registry : g \notin gs => cache'[q][g] = cache[q][g] /\ load'[q][g] = load[q][g]
      /\ \A g \in Registry : g \in gs => ~cache'[q][g].clean /\ (load'[q][g].step = "idle" \/ load'[q][g].moved)
  <2>1. \A p \in Replica \ {q} : cache'[p] = cache[p] /\ load'[p] = load[p]
    BY DEF S!Dirty, CacheInv, CacheTypes
  <2>2. /\ cache'[q] = [g \in Registry |-> IF g \in gs THEN S!NoCopy ELSE cache[q][g]]
        /\ load'[q] = [g \in Registry |->
             IF g \in gs /\ load[q][g].step # "idle" THEN [load[q][g] EXCEPT !.moved = TRUE] ELSE load[q][g]]
    BY DEF S!Dirty, CacheInv, CacheTypes
  <2>3. \A g \in Registry : [load[q][g] EXCEPT !.moved = TRUE].moved = TRUE
    BY DEF CacheInv, CacheTypes, CacheLoads
  <2>4. ~S!NoCopy.clean BY DEF S!NoCopy
  <2>5. QED BY <2>1, <2>2, <2>3, <2>4
<1>4. ASSUME NEW g \in Registry, NEW w \in S!Rows(g), NEW p \in Replica
      PROVE  /\ CacheCopyOK(p, g, w) => CacheCopyOK(p, g, w)'
             /\ CacheLoadOK(p, g, w) => CacheLoadOK(p, g, w)'
  <2>1. CacheMarkAhead(job[p], w, g) => CacheMarkAhead(job'[p], w, g) \/ (p = q /\ g \in gs)
    BY <1>1, <1>2
  <2>2. CacheCopyOK(p, g, w)' <=> (mode = "memory" /\ cache'[p][g].clean /\ w \notin cache'[p][g].has => CacheMarkAhead(job'[p], w, g))
    BY DEF CacheCopyOK, CacheMarkAhead, CacheToMark
  <2>3. CacheLoadOK(p, g, w)' <=> (load'[p][g].step \in {"loaded", "set"} /\ ~load'[p][g].moved /\ w \notin load'[p][g].has
                                => CacheMarkAhead(job'[p], w, g))
    BY DEF CacheLoadOK, CacheMarkAhead, CacheToMark
  <2>4. CASE p = q /\ g \in gs BY <1>3, <2>2, <2>3, <2>4
  <2>5. CASE ~(p = q /\ g \in gs)
    <3>1. cache'[p][g] = cache[p][g] /\ load'[p][g] = load[p][g] BY <1>3, <2>5
    <3>2. QED BY <2>1, <2>2, <2>3, <2>5, <3>1 DEF CacheCopyOK, CacheLoadOK
  <2>6. QED BY <2>4, <2>5
<1>5. ASSUME NEW g \in Registry, NEW w \in S!Rows(g) PROVE CacheBlobOK(g, w) => CacheBlobOK(g, w)'
  <2>1. mode = "redis" => \A p \in Replica : CacheDeleteAhead(job[p], w, g) => CacheDeleteAhead(job'[p], w, g)
    BY <1>1, <1>2
  <2>2. CacheBlobOK(g, w)' <=> (mode = "redis" /\ blob[g].there /\ ~blob[g].excused /\ w \notin blob[g].has
                             => \E p \in Replica : CacheDeleteAhead(job'[p], w, g))
    BY DEF CacheBlobOK, CacheDeleteAhead, CacheToDelete
  <2>3. QED BY <2>1, <2>2 DEF CacheBlobOK
<1>6. QED BY <1>4, <1>5, CacheStaysAnnounced

\* Registry g0 is deleted, or its key excused, and the jobs of q go on or end.
LEMMA CacheDeletesWell ==
  ASSUME CacheInv, CacheTypes', UNCHANGED <<mode, store, cache, load>>, NEW q \in Replica, NEW g0, NEW jobs,
         job' = [job EXCEPT ![q] = jobs],
         \A g \in Registry \ {g0} : blob'[g] = blob[g],
         g0 \in Registry => ~blob'[g0].there \/ blob'[g0].excused,
         \A w \in S!Slot \ {0} : \A g :
           /\ CacheMarkAhead(job[q], w, g) => CacheMarkAhead(jobs, w, g)
           /\ CacheDeleteAhead(job[q], w, g) => CacheDeleteAhead(jobs, w, g) \/ g = g0
  PROVE  CacheLackAnnounced'
<1>1. \A g : S!Rows(g) \subseteq S!Slot \ {0} BY CacheRowsAreWrites DEF CacheInv
<1>2. job'[q] = jobs /\ \A p \in Replica \ {q} : job'[p] = job[p]
  BY DEF CacheInv, CacheTypes
<1>3. ASSUME NEW g \in Registry, NEW w \in S!Rows(g), NEW p \in Replica
      PROVE  /\ CacheCopyOK(p, g, w) => CacheCopyOK(p, g, w)'
             /\ CacheLoadOK(p, g, w) => CacheLoadOK(p, g, w)'
  <2>1. CacheMarkAhead(job[p], w, g) => CacheMarkAhead(job'[p], w, g) BY <1>1, <1>2
  <2>2. CacheCopyOK(p, g, w)' <=> (mode = "memory" /\ cache[p][g].clean /\ w \notin cache[p][g].has => CacheMarkAhead(job'[p], w, g))
    BY DEF CacheCopyOK, CacheMarkAhead, CacheToMark
  <2>3. CacheLoadOK(p, g, w)' <=> (load[p][g].step \in {"loaded", "set"} /\ ~load[p][g].moved /\ w \notin load[p][g].has
                                => CacheMarkAhead(job'[p], w, g))
    BY DEF CacheLoadOK, CacheMarkAhead, CacheToMark
  <2>4. QED BY <2>1, <2>2, <2>3 DEF CacheCopyOK, CacheLoadOK
<1>4. ASSUME NEW g \in Registry, NEW w \in S!Rows(g) PROVE CacheBlobOK(g, w) => CacheBlobOK(g, w)'
  <2>1. \A p \in Replica : CacheDeleteAhead(job[p], w, g) => CacheDeleteAhead(job'[p], w, g) \/ g = g0
    BY <1>1, <1>2
  <2>2. CacheBlobOK(g, w)' <=> (mode = "redis" /\ blob'[g].there /\ ~blob'[g].excused /\ w \notin blob'[g].has
                             => \E p \in Replica : CacheDeleteAhead(job'[p], w, g))
    BY DEF CacheBlobOK, CacheDeleteAhead, CacheToDelete
  <2>3. QED BY <2>1, <2>2 DEF CacheBlobOK
<1>5. QED BY <1>3, <1>4, CacheStaysAnnounced
-----------------------------------------------------------------------------
(* The shapes *)

LEMMA CacheShapes ==
  /\ S!NoJob \in CacheJobs /\ S!NoCopy \in CacheCopies /\ S!NoLoad \in CacheLoads /\ S!NoBlob \in CacheBlobs
  /\ \A st \in CacheSteps : \A left \in SUBSET Registry : [step |-> st, left |-> left] \in CacheJobs
  /\ \A j \in CacheJobs : \A st \in CacheSteps : [j EXCEPT !.step = st] \in CacheJobs
BY DEF S!NoJob, S!NoCopy, S!NoLoad, S!NoBlob, CacheJobs, CacheSteps, CacheCopies, CacheLoads,
   CacheBlobs

LEMMA CacheMarksAreRegistries == \A g : S!Marks(g) \subseteq Registry
BY DEF S!Marks

\* The invalidations.
LEMMA CacheJobsStay ==
  ASSUME CacheTypes, [S!Next]_S!cvars
  PROVE  job' \in [Replica -> [S!Slot -> CacheJobs]]
<1>1. job \in [Replica -> [S!Slot -> CacheJobs]] BY DEF CacheTypes
<1>2. ASSUME NEW q \in Replica, NEW jobs \in [S!Slot -> CacheJobs], job' = [job EXCEPT ![q] = jobs]
      PROVE  job' \in [Replica -> [S!Slot -> CacheJobs]]
  BY <1>1, <1>2
<1>3. ASSUME NEW q \in Replica, NEW s \in S!Slot, NEW j \in CacheJobs, job' = [job EXCEPT ![q][s] = j]
      PROVE  job' \in [Replica -> [S!Slot -> CacheJobs]]
  BY <1>1, <1>3
<1>4. ASSUME NEW q \in Replica, NEW s \in S!Slot, NEW st \in CacheSteps, job' = [job EXCEPT ![q][s].step = st]
      PROVE  job' \in [Replica -> [S!Slot -> CacheJobs]]
  <2>1. [job[q][s] EXCEPT !.step = st] \in CacheJobs BY <1>1, CacheShapes
  <2>2. job' = [job EXCEPT ![q][s] = [job[q][s] EXCEPT !.step = st]] BY <1>4
  <2>3. QED BY <1>3, <2>1, <2>2
<1>5. CASE UNCHANGED job BY <1>1, <1>5
<1>6. ASSUME NEW q \in Replica, NEW g \in Written, S!Write(q, g) PROVE job' \in [Replica -> [S!Slot -> CacheJobs]]
  <2>1. Len(store) + 1 \in S!Slot BY <1>6, WritesAreCounted DEF S!Write, S!Slot, CacheTypes
  <2>2. [step |-> "mark", left |-> S!Marks(g)] \in CacheJobs
    BY CacheShapes, CacheMarksAreRegistries DEF CacheSteps
  <2>3. job' = [job EXCEPT ![q][Len(store) + 1] = [step |-> "mark", left |-> S!Marks(g)]]
    BY <1>6 DEF S!Write
  <2>4. QED BY <1>3, <2>1, <2>2, <2>3
<1>7. ASSUME NEW q \in Replica, NEW s \in S!Slot, S!Mark(q, s) PROVE job' \in [Replica -> [S!Slot -> CacheJobs]]
  <2>1. CASE job' = [job EXCEPT ![q][s].step = "delete"] BY <1>4, <2>1 DEF CacheSteps
  <2>2. CASE job' # [job EXCEPT ![q][s].step = "delete"]
    <3> DEFINE jobs == S!Resynced(q, s, [job[q] EXCEPT ![s] = S!Marked(q, s)])
    <3>1. job' = [job EXCEPT ![q] = jobs] BY <1>7, <2>2 DEF S!Mark
    <3>2. jobs \in [S!Slot -> CacheJobs] BY CacheJobEnds
    <3> HIDE DEF jobs
    <3>3. QED BY <1>2, <3>1, <3>2
  <2>3. QED BY <2>1, <2>2
<1>8. ASSUME NEW q \in Replica, NEW s \in S!Slot, S!Delete(q, s) PROVE job' \in [Replica -> [S!Slot -> CacheJobs]]
  <2> DEFINE left == job[q][s].left \ {S!First(job[q][s].left)}
             j == [step |-> "mark", left |-> left]
             jobs == S!Resynced(q, s, [job[q] EXCEPT ![s] = S!Marked(q, s)])
             jobs2 == [job[q] EXCEPT ![s] = j]
  <2>1. job' = [job EXCEPT ![q] = jobs] \/ job' = [job EXCEPT ![q] = jobs2] BY <1>8 DEF S!Delete
  <2>2. jobs \in [S!Slot -> CacheJobs] BY CacheJobEnds
  <2>3. left \subseteq Registry
    <3>1. job[q][s] \in CacheJobs BY <1>1
    <3>2. QED BY <3>1 DEF CacheJobs
  <2>4. j \in CacheJobs BY <2>3, CacheShapes DEF CacheSteps
  <2>5. jobs2 \in [S!Slot -> CacheJobs] BY <2>4, CacheJobSet
  <2> HIDE DEF jobs, jobs2
  <2>6. QED BY <1>2, <2>1, <2>2, <2>5
<1>9. ASSUME NEW q \in Replica, NEW w \in 1..MaxWrite, S!Notify(q, w) PROVE job' \in [Replica -> [S!Slot -> CacheJobs]]
  <2>1. w \in S!Slot BY WritesAreCounted DEF S!Slot
  <2>2. PICK ok \in BOOLEAN : job' = [p \in Replica |-> [job[p] EXCEPT ![w].step =
            IF p = q THEN "done" ELSE IF ok /\ conn[p] = "up" THEN "notice" ELSE "missed"]]
    BY <1>9 DEF S!Notify
  <2> DEFINE st(p) == IF p = q THEN "done" ELSE IF ok /\ conn[p] = "up" THEN "notice" ELSE "missed"
  <2>3. ASSUME NEW p \in Replica PROVE job'[p] \in [S!Slot -> CacheJobs]
    <3>1. st(p) \in CacheSteps BY DEF CacheSteps
    <3>2. job[p] \in [S!Slot -> CacheJobs] /\ [job[p][w] EXCEPT !.step = st(p)] \in CacheJobs
      BY <1>1, <2>1, <3>1, CacheShapes
    <3>3. job'[p] = [job[p] EXCEPT ![w] = [job[p][w] EXCEPT !.step = st(p)]] BY <2>2
    <3> HIDE DEF st
    <3>4. QED BY <2>1, <3>2, <3>3
  <2>4. QED BY <2>2, <2>3
<1>10. ASSUME NEW q \in Replica, NEW w \in 1..MaxWrite, S!OnNotify(q, w) PROVE job' \in [Replica -> [S!Slot -> CacheJobs]]
  <2>1. w \in S!Slot BY WritesAreCounted DEF S!Slot
  <2>2. [step |-> "mark", left |-> S!Marks(store[w])] \in CacheJobs
    BY CacheShapes, CacheMarksAreRegistries DEF CacheSteps
  <2>3. job' = [job EXCEPT ![q][w] = [step |-> "mark", left |-> S!Marks(store[w])]]
    BY <1>10 DEF S!OnNotify
  <2>4. QED BY <1>3, <2>1, <2>2, <2>3
<1>11. ASSUME NEW q \in Replica, S!Disconnect(q) PROVE job' \in [Replica -> [S!Slot -> CacheJobs]]
  <2> DEFINE jobs == [s \in S!Slot |-> IF job[q][s].step = "notice" THEN [job[q][s] EXCEPT !.step = "missed"]
                                     ELSE job[q][s]]
  <2>1. job' = [job EXCEPT ![q] = jobs] BY <1>11 DEF S!Disconnect
  <2>2. \A s \in S!Slot : job[q][s] \in CacheJobs BY <1>1
  <2>3. \A s \in S!Slot : [job[q][s] EXCEPT !.step = "missed"] \in CacheJobs
    BY <2>2, CacheShapes DEF CacheSteps
  <2>4. jobs \in [S!Slot -> CacheJobs] BY <2>2, <2>3
  <2> HIDE DEF jobs
  <2>5. QED BY <1>2, <2>1, <2>4
<1>12. ASSUME NEW q \in Replica, S!Reconnect(q) PROVE job' \in [Replica -> [S!Slot -> CacheJobs]]
  <2> DEFINE jobs == [s \in S!Slot |->
               IF s = 0 THEN [step |-> "mark", left |-> Registry]
               ELSE IF job[q][s].step = "missed" THEN [job[q][s] EXCEPT !.step = "resync"]
               ELSE job[q][s]]
  <2>1. job' = [job EXCEPT ![q] = jobs] BY <1>12 DEF S!Reconnect
  <2>2. \A s \in S!Slot : job[q][s] \in CacheJobs BY <1>1
  <2>3. \A s \in S!Slot : [job[q][s] EXCEPT !.step = "resync"] \in CacheJobs
    BY <2>2, CacheShapes DEF CacheSteps
  <2>4. [step |-> "mark", left |-> Registry] \in CacheJobs BY CacheShapes DEF CacheSteps
  <2>5. jobs \in [S!Slot -> CacheJobs] BY <2>2, <2>3, <2>4
  <2> HIDE DEF jobs
  <2>6. QED BY <1>2, <2>1, <2>5
<1>13. ASSUME NEW q \in Replica, S!Restart(q) PROVE job' \in [Replica -> [S!Slot -> CacheJobs]]
  <2>1. S!NoJob \in CacheJobs /\ [step |-> "missed", left |-> {}] \in CacheJobs
    BY CacheShapes DEF CacheSteps
  <2>2. \A p \in Replica : \A s \in S!Slot : job[p][s] \in CacheJobs BY <1>1
  <2>3. QED BY <1>13, <2>1, <2>2 DEF S!Restart
<1>14. ASSUME NEW q \in Replica, NEW g \in Registry, S!Miss(q, g) \/ S!Query(q, g) \/ S!Loaded(q, g) \/ S!SetBlob(q, g) \/ S!Expire(q, g)
       PROVE  UNCHANGED job
  BY <1>14 DEF S!Miss, S!Query, S!Loaded, S!SetBlob, S!Expire
<1>15. ASSUME NEW q \in Replica, S!Connect(q) PROVE UNCHANGED job BY <1>15 DEF S!Connect
<1>16. CASE UNCHANGED S!cvars BY <1>5, <1>16 DEF S!cvars
<1>17. QED
  BY <1>5, <1>6, <1>7, <1>8, <1>9, <1>10, <1>11, <1>12, <1>13, <1>14, <1>15, <1>16 DEF S!Next

\* The copies, the loads, the keys and the writes.
LEMMA CacheCopiesStay ==
  ASSUME CacheTypes, [S!Next]_S!cvars
  PROVE  /\ cache' \in [Replica -> [Registry -> CacheCopies]]
         /\ load' \in [Replica -> [Registry -> CacheLoads]]
         /\ blob' \in [Registry -> CacheBlobs]
         /\ store' \in Seq(Written) /\ Len(store') <= MaxWrite
<1>1. /\ cache \in [Replica -> [Registry -> CacheCopies]]
      /\ load \in [Replica -> [Registry -> CacheLoads]]
      /\ blob \in [Registry -> CacheBlobs]
      /\ store \in Seq(Written) /\ Len(store) <= MaxWrite
  BY DEF CacheTypes
<1> DEFINE Kept2 == /\ cache' \in [Replica -> [Registry -> CacheCopies]]
                    /\ load' \in [Replica -> [Registry -> CacheLoads]]
                    /\ blob' \in [Registry -> CacheBlobs]
                    /\ store' \in Seq(Written) /\ Len(store') <= MaxWrite
<1>2. ASSUME NEW q \in Replica, NEW gs, S!Dirty(q, gs)
      PROVE  cache' \in [Replica -> [Registry -> CacheCopies]] /\ load' \in [Replica -> [Registry -> CacheLoads]]
  <2>1. S!NoCopy \in CacheCopies BY CacheShapes
  <2>2. \A g \in Registry : cache[q][g] \in CacheCopies /\ load[q][g] \in CacheLoads BY <1>1
  <2>3. \A g \in Registry : [load[q][g] EXCEPT !.moved = TRUE] \in CacheLoads BY <2>2 DEF CacheLoads
  <2> DEFINE c == [g \in Registry |-> IF g \in gs THEN S!NoCopy ELSE cache[q][g]]
             l == [g \in Registry |->
               IF g \in gs /\ load[q][g].step # "idle" THEN [load[q][g] EXCEPT !.moved = TRUE] ELSE load[q][g]]
  <2>4. c \in [Registry -> CacheCopies] BY <2>1, <2>2
  <2>5. l \in [Registry -> CacheLoads] BY <2>2, <2>3
  <2>6. cache' = [cache EXCEPT ![q] = c] /\ load' = [load EXCEPT ![q] = l] BY <1>2 DEF S!Dirty
  <2> HIDE DEF c, l
  <2>7. QED BY <1>1, <2>4, <2>5, <2>6
<1>3. ASSUME NEW q \in Replica, NEW g \in Registry, NEW l \in CacheLoads, load' = [load EXCEPT ![q][g] = l]
      PROVE  load' \in [Replica -> [Registry -> CacheLoads]]
  BY <1>1, <1>3
<1>4. ASSUME NEW g \in Registry, NEW b \in CacheBlobs, blob' = [blob EXCEPT ![g] = b]
      PROVE  blob' \in [Registry -> CacheBlobs]
  BY <1>1, <1>4
<1>5. ASSUME NEW q \in Replica, NEW g \in Registry, NEW c \in CacheCopies, cache' = [cache EXCEPT ![q][g] = c]
      PROVE  cache' \in [Replica -> [Registry -> CacheCopies]]
  BY <1>1, <1>5
<1>6. CASE UNCHANGED <<cache, load, blob, store>> BY <1>1, <1>6
<1>7. ASSUME NEW q \in Replica, NEW g \in Written, S!Write(q, g) PROVE Kept2
  <2>1. store' = Append(store, g) /\ Len(store) < MaxWrite /\ UNCHANGED <<cache, load, blob>>
    BY <1>7 DEF S!Write
  <2>2. store' \in Seq(Written) /\ Len(store') = Len(store) + 1 /\ Len(store) \in Nat BY <1>1, <2>1
  <2>3. QED BY <1>1, <2>1, <2>2, WritesAreCounted
<1>8. ASSUME NEW q \in Replica, NEW s \in S!Slot, S!Mark(q, s) PROVE Kept2
  <2>1. (\E gs : S!Dirty(q, gs)) /\ UNCHANGED <<blob, store>> BY <1>8 DEF S!Mark
  <2>2. QED BY <1>1, <1>2, <2>1
<1>9. ASSUME NEW q \in Replica, NEW s \in S!Slot, S!Delete(q, s) PROVE Kept2
  <2> DEFINE g == S!First(job[q][s].left)
  <2>1. UNCHANGED <<cache, load, store>>
        /\ (blob' = [blob EXCEPT ![g] = S!NoBlob] \/ blob' = [blob EXCEPT ![g].excused = TRUE])
    BY <1>9 DEF S!Delete
  <2> HIDE DEF g
  <2>2. CASE g \in Registry
    <3>1. S!NoBlob \in CacheBlobs /\ [blob[g] EXCEPT !.excused = TRUE] \in CacheBlobs
      BY <1>1, <2>2, CacheShapes DEF CacheBlobs
    <3>2. QED BY <1>1, <1>4, <2>1, <2>2, <3>1
  <2>3. CASE g \notin Registry
    <3>1. blob' = blob BY <1>1, <2>1, <2>3
    <3>2. QED BY <1>1, <2>1, <3>1
  <2>4. QED BY <2>2, <2>3
<1>10. ASSUME NEW q \in Replica, NEW g \in Registry, S!Miss(q, g) PROVE Kept2
  <2> DEFINE l == [S!NoLoad EXCEPT !.step = "query"]
  <2>1. l \in CacheLoads BY DEF S!NoLoad, CacheLoads
  <2>2. load' = [load EXCEPT ![q][g] = l] /\ UNCHANGED <<cache, blob, store>> BY <1>10 DEF S!Miss
  <2> HIDE DEF l
  <2>3. QED BY <1>1, <1>3, <2>1, <2>2
<1>11. ASSUME NEW q \in Replica, NEW g \in Registry, S!Query(q, g) PROVE Kept2
  <2> DEFINE l == [load[q][g] EXCEPT !.step = "loaded", !.has = S!Rows(g)]
  <2>1. l \in CacheLoads
    <3>1. S!Rows(g) \subseteq S!Slot BY CacheRowsAreWrites
    <3>2. load[q][g] \in CacheLoads BY <1>1
    <3>3. QED BY <3>1, <3>2 DEF CacheLoads
  <2>2. load' = [load EXCEPT ![q][g] = l] /\ UNCHANGED <<cache, blob, store>>
    BY <1>1, <1>11 DEF S!Query
  <2> HIDE DEF l
  <2>3. QED BY <1>1, <1>3, <2>1, <2>2
<1>12. ASSUME NEW q \in Replica, NEW g \in Registry, S!Loaded(q, g) PROVE Kept2
  <2> DEFINE l == [load[q][g] EXCEPT !.step = "set"]
             c == [has |-> load[q][g].has, clean |-> TRUE]
  <2>1. load[q][g] \in CacheLoads BY <1>1
  <2>2. l \in CacheLoads /\ c \in CacheCopies /\ S!NoLoad \in CacheLoads
    BY <2>1, CacheShapes DEF CacheLoads, CacheCopies
  <2>3. load' = [load EXCEPT ![q][g] = l] \/ load' = [load EXCEPT ![q][g] = S!NoLoad]
    BY <1>12 DEF S!Loaded
  <2>4. cache' = cache \/ cache' = [cache EXCEPT ![q][g] = c] BY <1>12 DEF S!Loaded, S!Kept
  <2>5. UNCHANGED <<blob, store>> BY <1>12 DEF S!Loaded
  <2> HIDE DEF l, c
  <2>6. load' \in [Replica -> [Registry -> CacheLoads]] BY <1>3, <2>2, <2>3
  <2>7. cache' \in [Replica -> [Registry -> CacheCopies]] BY <1>1, <1>5, <2>2, <2>4
  <2>8. QED BY <1>1, <2>5, <2>6, <2>7
<1>13. ASSUME NEW q \in Replica, NEW g \in Registry, S!SetBlob(q, g) PROVE Kept2
  <2> DEFINE b == [there |-> TRUE, has |-> load[q][g].has, excused |-> load[q][g].moved]
  <2>1. load[q][g] \in CacheLoads BY <1>1
  <2>2. b \in CacheBlobs /\ S!NoLoad \in CacheLoads BY <2>1, CacheShapes DEF CacheLoads, CacheBlobs
  <2>3. /\ load' = [load EXCEPT ![q][g] = S!NoLoad] /\ UNCHANGED <<cache, store>>
        /\ blob' = [blob EXCEPT ![g] = b] \/ blob' = blob
    BY <1>13 DEF S!SetBlob
  <2> HIDE DEF b
  <2>4. QED BY <1>1, <1>3, <1>4, <2>2, <2>3
<1>14. ASSUME NEW q \in Replica, NEW g \in Registry, S!Expire(q, g) PROVE Kept2
  <2>1. S!NoCopy \in CacheCopies /\ S!NoBlob \in CacheBlobs BY CacheShapes
  <2>2. UNCHANGED <<load, store>> /\ \/ cache' = [cache EXCEPT ![q][g] = S!NoCopy] /\ blob' = blob
                                     \/ blob' = [blob EXCEPT ![g] = S!NoBlob] /\ cache' = cache
    BY <1>14 DEF S!Expire
  <2>3. QED BY <1>1, <1>4, <1>5, <2>1, <2>2
<1>15. ASSUME NEW q \in Replica, S!Restart(q) PROVE Kept2
  <2> DEFINE c == [g \in Registry |-> S!NoCopy]
             l == [g \in Registry |-> S!NoLoad]
  <2>1. c \in [Registry -> CacheCopies] /\ l \in [Registry -> CacheLoads] BY CacheShapes
  <2>2. cache' = [cache EXCEPT ![q] = c] /\ load' = [load EXCEPT ![q] = l] /\ UNCHANGED <<blob, store>>
    BY <1>15 DEF S!Restart
  <2> HIDE DEF c, l
  <2>3. QED BY <1>1, <2>1, <2>2
<1>16. ASSUME NEW q \in Replica,
              \/ S!Connect(q) \/ S!Disconnect(q) \/ S!Reconnect(q)
              \/ \E w \in 1..MaxWrite : S!Notify(q, w) \/ S!OnNotify(q, w)
       PROVE  UNCHANGED <<cache, load, blob, store>>
  BY <1>16 DEF S!Connect, S!Disconnect, S!Reconnect, S!Notify, S!OnNotify
<1>17. CASE UNCHANGED S!cvars BY <1>6, <1>17 DEF S!cvars
<1>18. QED
  BY <1>6, <1>7, <1>8, <1>9, <1>10, <1>11, <1>12, <1>13, <1>14, <1>15, <1>16, <1>17 DEF S!Next
-----------------------------------------------------------------------------
(* The steps *)

LEMMA CacheUnheardStays ==
  ASSUME CacheTypes, CacheUnheard, [S!Next]_S!cvars
  PROVE  CacheUnheard'
<1>1. /\ job \in [Replica -> [S!Slot -> CacheJobs]] /\ store \in Seq(Written) /\ Len(store) \in Nat
      /\ DOMAIN store = 1..Len(store)
  BY DEF CacheTypes
<1>2. ASSUME UNCHANGED store,
             \A p \in Replica : \A w \in S!Slot \ {0} : job[p][w].step = "none" /\ w \notin DOMAIN store => job'[p][w].step = "none"
      PROVE  CacheUnheard'
  BY <1>2 DEF CacheUnheard
<1>3. CASE UNCHANGED <<job, store>> BY <1>2, <1>3
<1>4. ASSUME NEW q \in Replica, NEW g \in Written, S!Write(q, g) PROVE CacheUnheard'
  <2>1. /\ store' = Append(store, g) /\ job' = [job EXCEPT ![q][Len(store) + 1] = [step |-> "mark", left |-> S!Marks(g)]]
    BY <1>4 DEF S!Write
  <2>2. DOMAIN store' = 1..(Len(store) + 1) BY <1>1, <2>1
  <2>3. \A p \in Replica : \A w \in S!Slot : w # Len(store) + 1 => job'[p][w] = job[p][w]
    BY <1>1, <2>1
  <2>4. QED BY <1>1, <2>2, <2>3 DEF CacheUnheard
<1>5. ASSUME NEW q \in Replica, NEW s \in S!Slot, NEW jobs, job' = [job EXCEPT ![q] = jobs], UNCHANGED store,
             \A w \in S!Slot \ {0} : job[q][w].step = "none" => jobs[w].step = "none"
      PROVE  CacheUnheard'
  BY <1>1, <1>2, <1>5
<1>6. ASSUME NEW q \in Replica, NEW s \in S!Slot, S!Mark(q, s) PROVE CacheUnheard'
  <2> DEFINE jobs == S!Resynced(q, s, [job[q] EXCEPT ![s] = S!Marked(q, s)])
             jobs2 == [job[q] EXCEPT ![s].step = "delete"]
  <2>1. /\ job[q][s].step = "mark" /\ UNCHANGED store
        /\ job' = [job EXCEPT ![q] = jobs] \/ job' = [job EXCEPT ![q] = jobs2]
    BY <1>6 DEF S!Mark
  <2>2. \A w \in S!Slot \ {0} : job[q][w].step = "none" => jobs[w].step = "none"
    <3>1. jobs \in [S!Slot -> CacheJobs] /\ (s = 0 => \A w \in S!Slot \ {0} : jobs[w].step = job[q][w].step \/ job[q][w].step = "resync")
          /\ (s # 0 => \A w \in S!Slot \ {s} : jobs[w] = job[q][w])
      BY CacheJobEnds
    <3> HIDE DEF jobs
    <3>2. QED BY <2>1, <3>1
  <2>3. \A w \in S!Slot \ {0} : job[q][w].step = "none" => jobs2[w].step = "none" BY <1>1, <2>1
  <2> HIDE DEF jobs, jobs2
  <2>4. QED BY <1>5, <2>1, <2>2, <2>3
<1>7. ASSUME NEW q \in Replica, NEW s \in S!Slot, S!Delete(q, s) PROVE CacheUnheard'
  <2> DEFINE jobs == S!Resynced(q, s, [job[q] EXCEPT ![s] = S!Marked(q, s)])
             j == [step |-> "mark", left |-> job[q][s].left \ {S!First(job[q][s].left)}]
             jobs2 == [job[q] EXCEPT ![s] = j]
  <2>1. /\ job[q][s].step = "delete" /\ UNCHANGED store
        /\ job' = [job EXCEPT ![q] = jobs] \/ job' = [job EXCEPT ![q] = jobs2]
    BY <1>7 DEF S!Delete
  <2>2. \A w \in S!Slot \ {0} : job[q][w].step = "none" => jobs[w].step = "none"
    <3>1. jobs \in [S!Slot -> CacheJobs] /\ (s = 0 => \A w \in S!Slot \ {0} : jobs[w].step = job[q][w].step \/ job[q][w].step = "resync")
          /\ (s # 0 => \A w \in S!Slot \ {s} : jobs[w] = job[q][w])
      BY CacheJobEnds
    <3> HIDE DEF jobs
    <3>2. QED BY <2>1, <3>1
  <2>3. \A w \in S!Slot \ {0} : job[q][w].step = "none" => jobs2[w].step = "none" BY <1>1, <2>1
  <2> HIDE DEF jobs, jobs2
  <2>4. QED BY <1>5, <2>1, <2>2, <2>3
<1>8. ASSUME NEW q \in Replica, NEW w \in 1..MaxWrite, S!Notify(q, w) \/ S!OnNotify(q, w) PROVE CacheUnheard'
  <2>1. w \in S!Slot \ {0} BY WritesAreCounted DEF S!Slot
  <2>2. job[q][w].step # "none" /\ UNCHANGED store BY <1>8 DEF S!Notify, S!OnNotify
  <2>3. w \in DOMAIN store BY <2>1, <2>2 DEF CacheUnheard
  <2>4. \A p \in Replica : \A v \in S!Slot \ {w} : job'[p][v] = job[p][v]
    BY <1>1, <1>8, <2>1 DEF S!Notify, S!OnNotify
  <2>5. QED BY <1>2, <2>2, <2>3, <2>4
<1>9. ASSUME NEW q \in Replica, S!Disconnect(q) \/ S!Reconnect(q) PROVE CacheUnheard'
  <2>1. UNCHANGED store /\ \A p \in Replica \ {q} : job'[p] = job[p]
    BY <1>1, <1>9 DEF S!Disconnect, S!Reconnect
  <2>2. \A w \in S!Slot \ {0} : job[q][w].step = "none" => job'[q][w] = job[q][w]
    BY <1>1, <1>9 DEF S!Disconnect, S!Reconnect
  <2>3. QED BY <1>2, <2>1, <2>2
<1>10. ASSUME NEW q \in Replica, S!Restart(q) PROVE CacheUnheard'
  <2>1. \A p \in Replica : \A w \in S!Slot \ {0} : job[p][w].step = "none" /\ w \notin DOMAIN store => job'[p][w] = job[p][w]
    BY <1>10 DEF S!Restart
  <2>2. UNCHANGED store BY <1>10 DEF S!Restart
  <2>3. QED BY <1>2, <2>1, <2>2
<1>11. ASSUME NEW q \in Replica, NEW g \in Registry, S!Miss(q, g) \/ S!Query(q, g) \/ S!Loaded(q, g) \/ S!SetBlob(q, g) \/ S!Expire(q, g)
       PROVE  UNCHANGED <<job, store>>
  BY <1>11 DEF S!Miss, S!Query, S!Loaded, S!SetBlob, S!Expire
<1>12. ASSUME NEW q \in Replica, S!Connect(q) PROVE UNCHANGED <<job, store>> BY <1>12 DEF S!Connect
<1>13. CASE UNCHANGED S!cvars BY <1>3, <1>13 DEF S!cvars
<1>14. QED BY <1>3, <1>4, <1>6, <1>7, <1>8, <1>9, <1>10, <1>11, <1>12, <1>13 DEF S!Next

\* A new write is ahead of everybody, and everywhere it shows.
LEMMA CacheWriteAnnounced ==
  ASSUME CacheInv, CacheTypes', NEW q \in Replica, NEW h \in Written, S!Write(q, h)
  PROVE  CacheLackAnnounced'
<1> DEFINE n == Len(store) + 1
<1>1. /\ CacheTypes /\ CacheUnheard /\ CacheLackAnnounced
      /\ store \in Seq(Written) /\ Len(store) \in Nat /\ n \in S!Slot \ {0} /\ n \notin DOMAIN store
      /\ job \in [Replica -> [S!Slot -> CacheJobs]]
  BY WritesAreCounted DEF CacheInv, CacheTypes, S!Write, S!Slot
<1>2. /\ store' = Append(store, h) /\ UNCHANGED <<mode, cache, load, blob>>
      /\ job' = [job EXCEPT ![q][n] = [step |-> "mark", left |-> S!Marks(h)]]
  BY DEF S!Write
<1>3. /\ DOMAIN store' = 1..n /\ store'[n] = h /\ \A w \in DOMAIN store : store'[w] = store[w]
      /\ DOMAIN store = 1..Len(store)
  BY <1>1, <1>2
<1>4. /\ job'[q][n] = [step |-> "mark", left |-> S!Marks(h)]
      /\ \A p \in Replica : \A w \in S!Slot \ {n} : job'[p][w] = job[p][w]
      /\ \A p \in Replica \ {q} : job'[p][n] = job[p][n]
  BY <1>1, <1>2
<1>5. \A p \in Replica \ {q} : job[p][n].step = "none" BY <1>1 DEF CacheUnheard
<1> HIDE DEF n
<1>6. SUFFICES ASSUME NEW g \in Registry, NEW w \in S!Rows(g)'
               PROVE  CacheBlobOK(g, w)' /\ \A p \in Replica : CacheCopyOK(p, g, w)' /\ CacheLoadOK(p, g, w)'
  BY DEF CacheLackAnnounced
<1>7. CASE w = n
  <2>1. h \in S!Embeds(g) BY <1>3, <1>6, <1>7 DEF S!Rows
  <2>2. g \in S!Marks(h) BY <2>1 DEF S!Marks
  <2>3. \A p \in Replica : CacheMarkAhead(job'[p], w, g)
    <3>1. CacheMarkAhead(job'[q], w, g) BY <1>4, <1>7, <2>2 DEF CacheMarkAhead, CacheToMark
    <3>2. \A p \in Replica \ {q} : CacheMarkAhead(job'[p], w, g)
      BY <1>4, <1>5, <1>7 DEF CacheMarkAhead
    <3>3. QED BY <3>1, <3>2
  <2>4. CacheDeleteAhead(job'[q], w, g) BY <2>3, CacheMarkThenDelete
  <2>5. CacheBlobOK(g, w)' BY <2>4 DEF CacheBlobOK, CacheDeleteAhead, CacheToDelete
  <2>6. \A p \in Replica : CacheCopyOK(p, g, w)' /\ CacheLoadOK(p, g, w)'
    BY <2>3 DEF CacheCopyOK, CacheLoadOK, CacheMarkAhead, CacheToMark
  <2>7. QED BY <2>5, <2>6
<1>8. CASE w # n
  <2>1. w \in S!Rows(g) BY <1>1, <1>3, <1>6, <1>8 DEF S!Rows, n
  <2>2. w \in S!Slot \ {0} BY <1>1, <2>1, CacheRowsAreWrites
  <2>3. 0 \in S!Slot /\ 0 # n BY <1>1, WritesAreCounted DEF S!Slot
  <2>4. \A p \in Replica : /\ CacheMarkAhead(job[p], w, g) => CacheMarkAhead(job'[p], w, g)
                           /\ CacheDeleteAhead(job[p], w, g) => CacheDeleteAhead(job'[p], w, g)
    BY <1>4, <1>8, <2>2, <2>3 DEF CacheMarkAhead, CacheDeleteAhead
  <2>5. CacheBlobOK(g, w) /\ \A p \in Replica : CacheCopyOK(p, g, w) /\ CacheLoadOK(p, g, w)
    BY <1>1, <2>1 DEF CacheLackAnnounced
  <2>6. CacheBlobOK(g, w)' <=> (mode = "redis" /\ blob[g].there /\ ~blob[g].excused /\ w \notin blob[g].has
                             => \E p \in Replica : CacheDeleteAhead(job'[p], w, g))
    BY <1>2 DEF CacheBlobOK, CacheDeleteAhead, CacheToDelete
  <2>7. ASSUME NEW p \in Replica PROVE CacheCopyOK(p, g, w)' /\ CacheLoadOK(p, g, w)'
    <3>1. CacheCopyOK(p, g, w)' <=> (mode = "memory" /\ cache[p][g].clean /\ w \notin cache[p][g].has => CacheMarkAhead(job'[p], w, g))
      BY <1>2 DEF CacheCopyOK, CacheMarkAhead, CacheToMark
    <3>2. CacheLoadOK(p, g, w)' <=> (load[p][g].step \in {"loaded", "set"} /\ ~load[p][g].moved /\ w \notin load[p][g].has
                                => CacheMarkAhead(job'[p], w, g))
      BY <1>2 DEF CacheLoadOK, CacheMarkAhead, CacheToMark
    <3>3. QED BY <2>4, <2>5, <3>1, <3>2 DEF CacheCopyOK, CacheLoadOK
  <2>8. QED BY <2>4, <2>5, <2>6, <2>7 DEF CacheBlobOK
<1>9. QED BY <1>7, <1>8

LEMMA CacheMarkAnnounced ==
  ASSUME CacheInv, CacheTypes', NEW q \in Replica, NEW s \in S!Slot, S!Mark(q, s)
  PROVE  CacheLackAnnounced'
<1>1. CacheTypes /\ job[q] \in [S!Slot -> CacheJobs] /\ job[q][s] \in CacheJobs
  BY DEF CacheInv, CacheTypes
<1>2. job[q][s].step = "mark" /\ UNCHANGED <<mode, store, blob>> BY DEF S!Mark
<1> DEFINE left == job[q][s].left
<1>3. CASE mode = "memory" \/ left = {}
  <2> DEFINE jobs == S!Resynced(q, s, [job[q] EXCEPT ![s] = S!Marked(q, s)])
  <2>1. S!Dirty(q, left) /\ job' = [job EXCEPT ![q] = jobs] BY <1>3 DEF S!Mark
  <2>2. /\ jobs \in [S!Slot -> CacheJobs]
        /\ s = 0 => \A w \in S!Slot \ {0} : job[q][w].step # "resync" => jobs[w] = job[q][w]
        /\ s # 0 => \A w \in S!Slot \ {s} : jobs[w] = job[q][w]
    BY <1>1, CacheJobEnds
  <2> HIDE DEF jobs
  <2>3. \A w \in S!Slot \ {0, s} : jobs[w] = job[q][w] \/ (s = 0 /\ job[q][w].step = "resync")
    BY <2>2
  <2>4. s # 0 => jobs[0] = job[q][0] BY <2>2, WritesAreCounted DEF S!Slot
  <2>5. \A g : (CacheToMark(job[q][s], g) => g \in left) /\ (CacheToDelete(job[q][s], g) => g \in left)
    BY <1>2 DEF CacheToMark, CacheToDelete
  <2>6. \A w \in S!Slot \ {0} : \A g : CacheMarkAhead(job[q], w, g) => CacheMarkAhead(jobs, w, g) \/ g \in left
    BY <1>1, <1>2, <2>2, <2>3, <2>4, <2>5, CacheGoesOn
  <2>7. \A w \in S!Slot \ {0} : \A g : CacheDeleteAhead(job[q], w, g) => CacheDeleteAhead(jobs, w, g) \/ g \in left
    BY <1>1, <1>2, <2>2, <2>3, <2>4, <2>5, CacheGoesOnDeleting
  <2>8. mode = "redis" => left = {} BY <1>3
  <2> HIDE DEF left
  <2>9. QED BY <1>2, <2>1, <2>6, <2>7, <2>8, CacheMarksWell
<1>4. CASE ~(mode = "memory" \/ left = {})
  <2> DEFINE j == [job[q][s] EXCEPT !.step = "delete"]
             jobs == [job[q] EXCEPT ![s] = j]
             past == {S!First(left)}
             none == {}
  <2>1. S!Dirty(q, past) /\ job' = [job EXCEPT ![q] = jobs] BY <1>4 DEF S!Mark
  <2>2. j \in CacheJobs /\ j.step = "delete" /\ j.left = left
    <3>1. "delete" \in CacheSteps BY DEF CacheSteps
    <3>2. j \in CacheJobs BY <1>1, <3>1, CacheShapes
    <3>3. j.step = "delete" /\ j.left = left BY <1>1 DEF CacheJobs
    <3>4. QED BY <3>2, <3>3
  <2> HIDE DEF j
  <2>3. /\ jobs \in [S!Slot -> CacheJobs] /\ jobs[s] = j
        /\ \A w \in S!Slot \ {s} : jobs[w] = job[q][w]
    BY <1>1, <2>2, CacheJobSet
  <2> HIDE DEF jobs
  <2>4. s # 0 => jobs[0] = job[q][0] BY <2>3, WritesAreCounted DEF S!Slot
  <2>5. \A g : CacheToMark(job[q][s], g) => CacheToMark(jobs[s], g) \/ g \in past
    BY <1>2, <2>2, <2>3 DEF CacheToMark
  <2>6. \A g : CacheToDelete(job[q][s], g) => CacheToDelete(jobs[s], g) \/ g \in none
    BY <1>2, <2>2, <2>3 DEF CacheToDelete
  <2>7. \A g : g \notin none OBVIOUS
  <2>8. s = 0 => \A w \in S!Slot \ {0} : jobs[w] = job[q][w] BY <2>3
  <2>9. \A w \in S!Slot \ {0, s} : jobs[w] = job[q][w] BY <2>3
  <2> HIDE DEF past, none, left
  <2>10. \A w \in S!Slot \ {0} : \A g : CacheMarkAhead(job[q], w, g) => CacheMarkAhead(jobs, w, g) \/ g \in past
    BY <1>1, <1>2, <2>3, <2>4, <2>5, <2>8, <2>9, CacheGoesOn
  <2>11. \A w \in S!Slot \ {0} : \A g : CacheDeleteAhead(job[q], w, g) => CacheDeleteAhead(jobs, w, g) \/ g \in none
    BY <1>1, <1>2, <2>3, <2>4, <2>6, <2>8, <2>9, CacheGoesOnDeleting
  <2>12. QED BY <1>2, <2>1, <2>7, <2>10, <2>11, CacheMarksWell
<1>5. QED BY <1>3, <1>4

LEMMA CacheDeleteAnnounced ==
  ASSUME CacheInv, CacheTypes', NEW q \in Replica, NEW s \in S!Slot, S!Delete(q, s)
  PROVE  CacheLackAnnounced'
<1>1. /\ CacheTypes /\ job[q] \in [S!Slot -> CacheJobs] /\ job[q][s] \in CacheJobs /\ blob \in [Registry -> CacheBlobs]
  BY DEF CacheInv, CacheTypes
<1> DEFINE g0 == S!First(job[q][s].left)
           left == job[q][s].left \ {g0}
           past == {g0}
           none == {}
           jobs == IF left # {} THEN [job[q] EXCEPT ![s] = [step |-> "mark", left |-> left]]
                   ELSE S!Resynced(q, s, [job[q] EXCEPT ![s] = S!Marked(q, s)])
<1>2. /\ job[q][s].step = "delete" /\ UNCHANGED <<mode, store, cache, load>>
      /\ job' = [job EXCEPT ![q] = jobs]
      /\ blob' = [blob EXCEPT ![g0] = S!NoBlob] \/ blob' = [blob EXCEPT ![g0].excused = TRUE]
  BY DEF S!Delete
<1>3. /\ \A g \in Registry \ {g0} : blob'[g] = blob[g]
      /\ g0 \in Registry => ~blob'[g0].there \/ blob'[g0].excused
  <2> HIDE DEF g0
  <2>1. ~S!NoBlob.there BY DEF S!NoBlob
  <2>2. g0 \in Registry => [blob[g0] EXCEPT !.excused = TRUE].excused BY <1>1 DEF CacheBlobs
  <2>3. QED BY <1>1, <1>2, <2>1, <2>2
<1>4. /\ jobs \in [S!Slot -> CacheJobs]
      /\ \A w \in S!Slot \ {0, s} : jobs[w] = job[q][w] \/ (s = 0 /\ job[q][w].step = "resync")
      /\ s # 0 => jobs[0] = job[q][0]
      /\ left # {} => jobs[s] = [step |-> "mark", left |-> left]
      /\ left # {} => \A w \in S!Slot \ {s} : jobs[w] = job[q][w]
  <2>1. 0 \in S!Slot BY WritesAreCounted DEF S!Slot
  <2>2. CASE left # {}
    <3>1. [step |-> "mark", left |-> left] \in CacheJobs BY <1>1 DEF CacheJobs, CacheSteps
    <3>2. /\ jobs \in [S!Slot -> CacheJobs] /\ jobs[s] = [step |-> "mark", left |-> left]
          /\ \A w \in S!Slot \ {s} : jobs[w] = job[q][w]
      BY <1>1, <2>2, <3>1, CacheJobSet
    <3> HIDE DEF jobs
    <3>3. QED BY <2>1, <3>2
  <2>3. CASE left = {}
    <3>1. /\ jobs \in [S!Slot -> CacheJobs]
          /\ s = 0 => \A w \in S!Slot \ {0} : job[q][w].step # "resync" => jobs[w] = job[q][w]
          /\ s # 0 => \A w \in S!Slot \ {s} : jobs[w] = job[q][w]
      BY <1>1, <2>3, CacheJobEnds
    <3> HIDE DEF jobs
    <3>2. QED BY <2>1, <2>3, <3>1
  <2>4. QED BY <2>2, <2>3
<1> HIDE DEF jobs
<1>5. \A g : CacheToMark(job[q][s], g) => CacheToMark(jobs[s], g)
  <2>1. \A g : CacheToMark(job[q][s], g) => g \in left BY <1>2 DEF CacheToMark
  <2>2. QED BY <1>4, <2>1 DEF CacheToMark
<1>6. \A g : CacheToDelete(job[q][s], g) => CacheToDelete(jobs[s], g) \/ g \in past
  <2>1. \A g : CacheToDelete(job[q][s], g) => g \in left \/ g = g0 BY <1>2 DEF CacheToDelete
  <2>2. QED BY <1>4, <2>1 DEF CacheToDelete
<1>7. s = 0 => \A w \in S!Slot \ {0} : job[q][w].step = "resync" =>
                  /\ jobs[w] = job[q][w] \/ \A g : CacheToMark(job[q][0], g) => g \in none
                  /\ jobs[w] = job[q][w] \/ \A g : CacheToDelete(job[q][0], g) => g \in past
  <2>1. CASE left # {} BY <1>4, <2>1
  <2>2. CASE left = {}
    <3>1. \A g : (CacheToMark(job[q][s], g) => g \in none) /\ (CacheToDelete(job[q][s], g) => g \in past)
      BY <1>2, <2>2 DEF CacheToMark, CacheToDelete
    <3>2. QED BY <3>1
  <2>3. QED BY <2>1, <2>2
<1>8. (\A g : g \notin none) /\ (\A g : g \in past <=> g = g0) OBVIOUS
<1>9. \A g : CacheToMark(job[q][s], g) => CacheToMark(jobs[s], g) \/ g \in none BY <1>5
<1> HIDE DEF past, none, g0, left
<1>10. \A w \in S!Slot \ {0} : \A g : CacheMarkAhead(job[q], w, g) => CacheMarkAhead(jobs, w, g) \/ g \in none
  BY <1>1, <1>2, <1>4, <1>7, <1>9, CacheGoesOn
<1>11. \A w \in S!Slot \ {0} : \A g : CacheDeleteAhead(job[q], w, g) => CacheDeleteAhead(jobs, w, g) \/ g \in past
  BY <1>1, <1>2, <1>4, <1>6, <1>7, CacheGoesOnDeleting
<1>12. \A w \in S!Slot \ {0} : \A g :
         /\ CacheMarkAhead(job[q], w, g) => CacheMarkAhead(jobs, w, g)
         /\ CacheDeleteAhead(job[q], w, g) => CacheDeleteAhead(jobs, w, g) \/ g = g0
  BY <1>8, <1>10, <1>11
<1>13. QED BY <1>2, <1>3, <1>12, CacheDeletesWell

\* Whoever tells has done his own, and the others have it ahead.
LEMMA CacheNotifyAnnounced ==
  ASSUME CacheInv, CacheTypes', NEW q \in Replica, NEW v \in 1..MaxWrite, S!Notify(q, v)
  PROVE  CacheLackAnnounced'
<1>1. CacheTypes /\ job \in [Replica -> [S!Slot -> CacheJobs]] BY DEF CacheInv, CacheTypes
<1>2. v \in S!Slot \ {0} /\ 0 \in S!Slot BY WritesAreCounted DEF S!Slot
<1>3. job[q][v].step = "tell" /\ UNCHANGED <<mode, store, cache, load, blob>> BY DEF S!Notify
<1>4. /\ \A p \in Replica : \A w \in S!Slot \ {v} : job'[p][w] = job[p][w]
      /\ \A p \in Replica \ {q} : job'[p][v].step \in {"notice", "missed"}
  <2>1. PICK ok \in BOOLEAN : job' = [p \in Replica |-> [job[p] EXCEPT ![v].step =
            IF p = q THEN "done" ELSE IF ok /\ conn[p] = "up" THEN "notice" ELSE "missed"]]
    BY DEF S!Notify
  <2>2. \A p \in Replica : \A w \in S!Slot \ {v} : job'[p][w] = job[p][w] BY <1>1, <2>1
  <2>3. ASSUME NEW p \in Replica \ {q} PROVE job'[p][v].step \in {"notice", "missed"}
    <3>1. job'[p] = [job[p] EXCEPT ![v].step = IF ok /\ conn[p] = "up" THEN "notice" ELSE "missed"]
      BY <2>1
    <3>2. job[p] \in [S!Slot -> CacheJobs] /\ job[p][v] \in CacheJobs BY <1>1, <1>2
    <3>3. job'[p][v] = [job[p][v] EXCEPT !.step = IF ok /\ conn[p] = "up" THEN "notice" ELSE "missed"]
      BY <1>2, <3>1, <3>2
    <3>4. QED BY <3>2, <3>3 DEF CacheJobs
  <2>4. QED BY <2>2, <2>3
<1>5. \A g : ~CacheMarkAhead(job[q], v, g) /\ ~CacheDeleteAhead(job[q], v, g)
  BY <1>3 DEF CacheMarkAhead, CacheDeleteAhead, CacheToMark, CacheToDelete
<1>6. ASSUME NEW p \in Replica, NEW g \in Registry, NEW w \in S!Rows(g)
      PROVE  /\ CacheMarkAhead(job[p], w, g) => CacheMarkAhead(job'[p], w, g)
             /\ CacheDeleteAhead(job[p], w, g) => CacheDeleteAhead(job'[p], w, g)
  <2>1. w \in S!Slot \ {0} BY <1>1, CacheRowsAreWrites
  <2>2. CASE w # v BY <1>2, <1>4, <2>1, <2>2 DEF CacheMarkAhead, CacheDeleteAhead
  <2>3. CASE w = v /\ p # q BY <1>4, <2>3 DEF CacheMarkAhead, CacheDeleteAhead
  <2>4. CASE w = v /\ p = q BY <1>5, <2>4
  <2>5. QED BY <2>2, <2>3, <2>4
<1>7. QED BY <1>3, <1>6, CacheNothingLost

\* Whoever was told is to mark all that embeds what was written.
LEMMA CacheOnNotifyAnnounced ==
  ASSUME CacheInv, CacheTypes', NEW q \in Replica, NEW v \in 1..MaxWrite, S!OnNotify(q, v)
  PROVE  CacheLackAnnounced'
<1>1. CacheTypes /\ job \in [Replica -> [S!Slot -> CacheJobs]] BY DEF CacheInv, CacheTypes
<1>2. v \in S!Slot \ {0} /\ 0 \in S!Slot BY WritesAreCounted DEF S!Slot
<1>3. /\ UNCHANGED <<mode, store, cache, load, blob>>
      /\ job' = [job EXCEPT ![q][v] = [step |-> "mark", left |-> S!Marks(store[v])]]
  BY DEF S!OnNotify
<1>4. /\ \A p \in Replica \ {q} : job'[p] = job[p]
      /\ \A w \in S!Slot \ {v} : job'[q][w] = job[q][w]
      /\ job'[q][v] = [step |-> "mark", left |-> S!Marks(store[v])]
  BY <1>1, <1>2, <1>3
<1>5. ASSUME NEW p \in Replica, NEW g \in Registry, NEW w \in S!Rows(g)
      PROVE  /\ CacheMarkAhead(job[p], w, g) => CacheMarkAhead(job'[p], w, g)
             /\ CacheDeleteAhead(job[p], w, g) => CacheDeleteAhead(job'[p], w, g)
  <2>1. w \in S!Slot \ {0} BY <1>1, CacheRowsAreWrites
  <2>2. CASE p # q BY <1>4, <2>2
  <2>3. CASE p = q /\ w # v BY <1>2, <1>4, <2>1, <2>3 DEF CacheMarkAhead, CacheDeleteAhead
  <2>4. CASE p = q /\ w = v
    <3>1. g \in S!Marks(store[v]) BY <2>4 DEF S!Rows, S!Marks
    <3>2. CacheMarkAhead(job'[p], w, g) BY <1>4, <2>4, <3>1 DEF CacheMarkAhead, CacheToMark
    <3>3. QED BY <3>2, CacheMarkThenDelete
  <2>5. QED BY <2>2, <2>3, <2>4
<1>6. QED BY <1>3, <1>5, CacheNothingLost

\* What a lost connection takes along is missed, and comes with the resync.
LEMMA CacheDisconnectAnnounced ==
  ASSUME CacheInv, CacheTypes', NEW q \in Replica, S!Disconnect(q)
  PROVE  CacheLackAnnounced'
<1>1. CacheTypes /\ job \in [Replica -> [S!Slot -> CacheJobs]] BY DEF CacheInv, CacheTypes
<1>2. 0 \in S!Slot BY WritesAreCounted DEF S!Slot
<1>3. UNCHANGED <<mode, store, cache, load, blob>> BY DEF S!Disconnect
<1>4. /\ \A p \in Replica \ {q} : job'[p] = job[p]
      /\ \A w \in S!Slot : job[q][w].step # "notice" => job'[q][w] = job[q][w]
      /\ \A w \in S!Slot : job[q][w].step = "notice" => job'[q][w].step = "missed"
  <2>1. job' = [job EXCEPT ![q] = [s \in S!Slot |-> IF job[q][s].step = "notice" THEN [job[q][s] EXCEPT !.step = "missed"]
                                                  ELSE job[q][s]]]
    BY DEF S!Disconnect
  <2>2. \A w \in S!Slot : [job[q][w] EXCEPT !.step = "missed"].step = "missed"
    <3>1. \A w \in S!Slot : job[q][w] \in CacheJobs BY <1>1
    <3>2. QED BY <3>1 DEF CacheJobs
  <2>3. QED BY <1>1, <2>1, <2>2
<1>5. ASSUME NEW p \in Replica, NEW g \in Registry, NEW w \in S!Rows(g)
      PROVE  /\ CacheMarkAhead(job[p], w, g) => CacheMarkAhead(job'[p], w, g)
             /\ CacheDeleteAhead(job[p], w, g) => CacheDeleteAhead(job'[p], w, g)
  <2>1. w \in S!Slot \ {0} BY <1>1, CacheRowsAreWrites
  <2>2. CASE p # q BY <1>4, <2>2
  <2>3. CASE p = q /\ job[q][w].step = "notice"
    BY <1>4, <2>1, <2>3 DEF CacheMarkAhead, CacheDeleteAhead
  <2>4. CASE p = q /\ job[q][w].step # "notice"
    <3>1. job'[q][w] = job[q][w] BY <1>4, <2>1, <2>4
    <3>2. (CacheToMark(job[q][0], g) => CacheToMark(job'[q][0], g)) /\ (CacheToDelete(job[q][0], g) => CacheToDelete(job'[q][0], g))
      BY <1>2, <1>4 DEF CacheToMark, CacheToDelete
    <3>3. QED BY <2>4, <3>1, <3>2 DEF CacheMarkAhead, CacheDeleteAhead
  <2>5. QED BY <2>2, <2>3, <2>4
<1>6. QED BY <1>3, <1>5, CacheNothingLost

\* The resync is to mark everything.
LEMMA CacheReconnectAnnounced ==
  ASSUME CacheInv, CacheTypes', NEW q \in Replica, S!Reconnect(q)
  PROVE  CacheLackAnnounced'
<1>1. CacheTypes /\ job \in [Replica -> [S!Slot -> CacheJobs]] BY DEF CacheInv, CacheTypes
<1>2. 0 \in S!Slot BY WritesAreCounted DEF S!Slot
<1>3. UNCHANGED <<mode, store, cache, load, blob>> /\ job[q][0].step \in {"none", "done"}
  BY DEF S!Reconnect
<1>4. /\ \A p \in Replica \ {q} : job'[p] = job[p]
      /\ job'[q][0] = [step |-> "mark", left |-> Registry]
      /\ \A w \in S!Slot \ {0} : job[q][w].step # "missed" => job'[q][w] = job[q][w]
      /\ \A w \in S!Slot \ {0} : job[q][w].step = "missed" => job'[q][w].step = "resync"
  <2>1. job' = [job EXCEPT ![q] = [s \in S!Slot |->
                  IF s = 0 THEN [step |-> "mark", left |-> Registry]
                  ELSE IF job[q][s].step = "missed" THEN [job[q][s] EXCEPT !.step = "resync"]
                  ELSE job[q][s]]]
    BY DEF S!Reconnect
  <2>2. \A w \in S!Slot : [job[q][w] EXCEPT !.step = "resync"].step = "resync"
    <3>1. \A w \in S!Slot : job[q][w] \in CacheJobs BY <1>1
    <3>2. QED BY <3>1 DEF CacheJobs
  <2>3. QED BY <1>1, <1>2, <2>1, <2>2
<1>5. ASSUME NEW p \in Replica, NEW g \in Registry, NEW w \in S!Rows(g)
      PROVE  /\ CacheMarkAhead(job[p], w, g) => CacheMarkAhead(job'[p], w, g)
             /\ CacheDeleteAhead(job[p], w, g) => CacheDeleteAhead(job'[p], w, g)
  <2>1. w \in S!Slot \ {0} BY <1>1, CacheRowsAreWrites
  <2>2. CASE p # q BY <1>4, <2>2
  <2>3. CASE p = q
    <3>1. CacheToMark(job'[q][0], g) /\ CacheToDelete(job'[q][0], g)
      BY <1>4 DEF CacheToMark, CacheToDelete
    <3>2. ~CacheToMark(job[q][0], g) /\ ~CacheToDelete(job[q][0], g)
      BY <1>3 DEF CacheToMark, CacheToDelete
    <3>3. CASE job[q][w].step = "missed"
      BY <1>4, <2>1, <2>3, <3>1, <3>3 DEF CacheMarkAhead, CacheDeleteAhead
    <3>4. CASE job[q][w].step # "missed"
      BY <1>4, <2>1, <2>3, <3>1, <3>4 DEF CacheMarkAhead, CacheDeleteAhead
    <3>5. QED BY <3>3, <3>4
  <2>4. QED BY <2>2, <2>3
<1>6. QED BY <1>3, <1>5, CacheNothingLost

\* A load has what there is when it asks, and hands it on unless it was marked.
LEMMA CacheLoadAnnounced ==
  ASSUME CacheInv, CacheTypes', NEW q \in Replica, NEW g \in Registry,
         S!Miss(q, g) \/ S!Query(q, g) \/ S!Loaded(q, g) \/ S!SetBlob(q, g) \/ S!Expire(q, g)
  PROVE  CacheLackAnnounced'
<1>1. /\ CacheLackAnnounced
      /\ cache \in [Replica -> [Registry -> CacheCopies]]
      /\ load \in [Replica -> [Registry -> CacheLoads]]
      /\ blob \in [Registry -> CacheBlobs]
  BY DEF CacheInv, CacheTypes
<1>2. UNCHANGED <<mode, store, job>> BY DEF S!Miss, S!Query, S!Loaded, S!SetBlob, S!Expire
<1>3. \A h : S!Rows(h)' = S!Rows(h) BY <1>2 DEF S!Rows
<1>4. SUFFICES ASSUME NEW h \in Registry, NEW w \in S!Rows(h)
               PROVE  CacheBlobOK(h, w)' /\ \A p \in Replica : CacheCopyOK(p, h, w)' /\ CacheLoadOK(p, h, w)'
  BY <1>3 DEF CacheLackAnnounced
<1>5. CacheBlobOK(h, w) /\ \A p \in Replica : CacheCopyOK(p, h, w) /\ CacheLoadOK(p, h, w)
  BY <1>1 DEF CacheLackAnnounced
<1>6. /\ CacheBlobOK(h, w)' <=> (mode = "redis" /\ blob'[h].there /\ ~blob'[h].excused /\ w \notin blob'[h].has
                              => \E p \in Replica : CacheDeleteAhead(job[p], w, h))
      /\ \A p \in Replica :
           /\ CacheCopyOK(p, h, w)' <=> (mode = "memory" /\ cache'[p][h].clean /\ w \notin cache'[p][h].has
                                      => CacheMarkAhead(job[p], w, h))
           /\ CacheLoadOK(p, h, w)' <=> (load'[p][h].step \in {"loaded", "set"} /\ ~load'[p][h].moved /\ w \notin load'[p][h].has
                                      => CacheMarkAhead(job[p], w, h))
  BY <1>2 DEF CacheBlobOK, CacheCopyOK, CacheLoadOK, CacheMarkAhead, CacheToMark,
     CacheDeleteAhead, CacheToDelete
<1>7. /\ \A p \in Replica : p # q \/ h # g => cache'[p][h] = cache[p][h] /\ load'[p][h] = load[p][h]
      /\ h # g => blob'[h] = blob[h]
  <2>1. /\ cache' = cache \/ \E c : cache' = [cache EXCEPT ![q][g] = c]
        /\ load' = load \/ \E l : load' = [load EXCEPT ![q][g] = l]
        /\ blob' = blob \/ \E b : blob' = [blob EXCEPT ![g] = b]
    BY DEF S!Miss, S!Query, S!Loaded, S!Kept, S!SetBlob, S!Expire
  <2>2. QED BY <1>1, <2>1
<1>8. \A p \in Replica : p # q \/ h # g => CacheCopyOK(p, h, w)' /\ CacheLoadOK(p, h, w)'
  BY <1>5, <1>6, <1>7 DEF CacheCopyOK, CacheLoadOK
<1>9. h # g => CacheBlobOK(h, w)' BY <1>5, <1>6, <1>7 DEF CacheBlobOK
<1>10. h = g => CacheBlobOK(h, w)' /\ CacheCopyOK(q, h, w)' /\ CacheLoadOK(q, h, w)'
  <2> SUFFICES ASSUME h = g PROVE CacheBlobOK(h, w)' /\ CacheCopyOK(q, h, w)' /\ CacheLoadOK(q, h, w)' OBVIOUS
  <2>1. CacheBlobOK(g, w) /\ CacheCopyOK(q, g, w) /\ CacheLoadOK(q, g, w) BY <1>5
  <2>2. load[q][g] \in CacheLoads /\ cache[q][g] \in CacheCopies /\ blob[g] \in CacheBlobs BY <1>1
  <2>3. CASE S!Miss(q, g)
    <3>1. load'[q][g] = [S!NoLoad EXCEPT !.step = "query"] /\ UNCHANGED <<cache, blob>>
      BY <1>1, <2>3 DEF S!Miss
    <3>2. load'[q][g].step = "query" BY <3>1 DEF S!NoLoad
    <3>3. QED BY <1>6, <2>1, <3>1, <3>2 DEF CacheCopyOK, CacheBlobOK
  <2>4. CASE S!Query(q, g)
    <3>1. load'[q][g].has = S!Rows(g) /\ UNCHANGED <<cache, blob>>
      BY <1>1, <2>2, <2>4 DEF S!Query, CacheLoads
    <3>2. QED BY <1>6, <2>1, <3>1 DEF CacheCopyOK, CacheBlobOK
  <2>5. CASE S!Loaded(q, g)
    <3>1. load[q][g].step = "loaded" /\ UNCHANGED blob BY <2>5 DEF S!Loaded
    <3>2. CASE mode = "redis" /\ ~load[q][g].moved
      <4>1. cache' = cache /\ load' = [load EXCEPT ![q][g].step = "set"] BY <2>5, <3>2 DEF S!Loaded
      <4>2. load'[q][g] = [load[q][g] EXCEPT !.step = "set"] BY <1>1, <4>1
      <4>3. load'[q][g].moved = load[q][g].moved /\ load'[q][g].has = load[q][g].has
        BY <2>2, <4>2 DEF CacheLoads
      <4>4. QED BY <1>6, <2>1, <3>1, <4>1, <4>3 DEF CacheCopyOK, CacheBlobOK, CacheLoadOK
    <3>3. CASE ~(mode = "redis" /\ ~load[q][g].moved)
      <4>1. cache' = S!Kept(q, g, ~load[q][g].moved) /\ load'[q][g] = S!NoLoad
        BY <1>1, <2>5, <3>3 DEF S!Loaded
      <4>2. cache' = cache \/ (cache'[q][g].has = load[q][g].has /\ ~load[q][g].moved)
        BY <1>1, <4>1 DEF S!Kept
      <4>3. S!NoLoad.step = "idle" BY DEF S!NoLoad
      <4>4. QED BY <1>6, <2>1, <3>1, <4>1, <4>2, <4>3 DEF CacheCopyOK, CacheBlobOK, CacheLoadOK
    <3>4. QED BY <3>2, <3>3
  <2>6. CASE S!SetBlob(q, g)
    <3>1. load[q][g].step = "set" /\ load'[q][g] = S!NoLoad /\ UNCHANGED cache
      BY <1>1, <2>6 DEF S!SetBlob
    <3>2. S!NoLoad.step = "idle" BY DEF S!NoLoad
    <3>3. blob' = blob \/ (blob'[g].has = load[q][g].has /\ blob'[g].excused = load[q][g].moved)
      BY <1>1, <2>6 DEF S!SetBlob
    <3>4. CacheMarkAhead(job[q], w, g) => CacheDeleteAhead(job[q], w, g) BY CacheMarkThenDelete
    <3>5. QED BY <1>6, <2>1, <3>1, <3>2, <3>3, <3>4 DEF CacheCopyOK, CacheBlobOK, CacheLoadOK
  <2>7. CASE S!Expire(q, g)
    <3>1. UNCHANGED load /\ (cache' = cache \/ cache'[q][g] = S!NoCopy) /\ (blob' = blob \/ blob'[g] = S!NoBlob)
      BY <1>1, <2>7 DEF S!Expire
    <3>2. ~S!NoCopy.clean /\ ~S!NoBlob.there BY DEF S!NoCopy, S!NoBlob
    <3>3. QED BY <1>6, <2>1, <3>1, <3>2 DEF CacheCopyOK, CacheBlobOK, CacheLoadOK
  <2>8. QED BY <2>3, <2>4, <2>5, <2>6, <2>7
<1>11. QED BY <1>8, <1>9, <1>10

\* A process that starts again has no copies, and the others miss what it did not tell.
LEMMA CacheRestartAnnounced ==
  ASSUME CacheInv, CacheTypes', NEW q \in Replica, S!Restart(q)
  PROVE  CacheLackAnnounced'
<1>1. /\ CacheTypes /\ job \in [Replica -> [S!Slot -> CacheJobs]]
      /\ cache \in [Replica -> [Registry -> CacheCopies]]
      /\ load \in [Replica -> [Registry -> CacheLoads]]
      /\ 0 \notin DOMAIN store
  BY DEF CacheInv, CacheTypes
<1>2. 0 \in S!Slot BY WritesAreCounted DEF S!Slot
<1>3. UNCHANGED <<mode, store, blob>> BY DEF S!Restart
<1>4. /\ \A p \in Replica \ {q} : cache'[p] = cache[p] /\ load'[p] = load[p]
      /\ \A g \in Registry : cache'[q][g] = S!NoCopy /\ load'[q][g] = S!NoLoad
  BY <1>1 DEF S!Restart
<1>5. /\ \A p \in Replica : \A w \in S!Slot \ {0} : job'[p][w] = job[p][w] \/ job'[p][w].step = "missed"
      /\ \A p \in Replica \ {q} : job'[p][0] = job[p][0]
                                  \/ (job'[p][0].step = "missed" /\ 0 \in DOMAIN store)
      /\ \A w \in S!Slot \ {0} : job[q][w].step \notin {"none", "done"} => job'[q][w].step = "missed"
  BY <1>1, <1>2 DEF S!Restart
<1>6. ASSUME NEW p \in Replica \ {q}, NEW w \in S!Slot \ {0}, NEW g
      PROVE  /\ CacheMarkAhead(job[p], w, g) => CacheMarkAhead(job'[p], w, g)
             /\ CacheDeleteAhead(job[p], w, g) => CacheDeleteAhead(job'[p], w, g)
  <2>1. job'[p][0] = job[p][0] BY <1>1, <1>5
  <2>2. CASE job'[p][w] = job[p][w] BY <2>1, <2>2 DEF CacheMarkAhead, CacheDeleteAhead
  <2>3. CASE job'[p][w].step = "missed" BY <2>3 DEF CacheMarkAhead, CacheDeleteAhead
  <2>4. QED BY <1>5, <2>2, <2>3
<1>7. ASSUME NEW w \in S!Slot \ {0}, NEW g, CacheDeleteAhead(job[q], w, g) PROVE CacheDeleteAhead(job'[q], w, g)
  <2>1. CASE job[q][w].step = "none" BY <1>5, <2>1 DEF CacheDeleteAhead
  <2>2. CASE job[q][w].step # "none"
    <3>1. job[q][w].step # "done" BY <1>7 DEF CacheDeleteAhead, CacheToDelete
    <3>2. job'[q][w].step = "missed" BY <1>5, <2>2, <3>1
    <3>3. QED BY <3>2 DEF CacheDeleteAhead
  <2>3. QED BY <2>1, <2>2
<1>8. \A g : S!Rows(g) \subseteq S!Slot \ {0} BY <1>1, CacheRowsAreWrites
<1>9. ASSUME NEW g \in Registry, NEW w \in S!Rows(g), NEW p \in Replica
      PROVE  /\ CacheCopyOK(p, g, w) => CacheCopyOK(p, g, w)'
             /\ CacheLoadOK(p, g, w) => CacheLoadOK(p, g, w)'
  <2>1. CacheCopyOK(p, g, w)' <=> (mode = "memory" /\ cache'[p][g].clean /\ w \notin cache'[p][g].has => CacheMarkAhead(job'[p], w, g))
    BY <1>3 DEF CacheCopyOK, CacheMarkAhead, CacheToMark
  <2>2. CacheLoadOK(p, g, w)' <=> (load'[p][g].step \in {"loaded", "set"} /\ ~load'[p][g].moved /\ w \notin load'[p][g].has
                                => CacheMarkAhead(job'[p], w, g))
    BY <1>3 DEF CacheLoadOK, CacheMarkAhead, CacheToMark
  <2>3. CASE p = q
    <3>1. ~S!NoCopy.clean /\ S!NoLoad.step = "idle" BY DEF S!NoCopy, S!NoLoad
    <3>2. QED BY <1>4, <2>1, <2>2, <2>3, <3>1
  <2>4. CASE p # q BY <1>4, <1>6, <1>8, <2>1, <2>2, <2>4 DEF CacheCopyOK, CacheLoadOK
  <2>5. QED BY <2>3, <2>4
<1>10. ASSUME NEW g \in Registry, NEW w \in S!Rows(g) PROVE CacheBlobOK(g, w) => CacheBlobOK(g, w)'
  <2>1. \A p \in Replica : CacheDeleteAhead(job[p], w, g) => CacheDeleteAhead(job'[p], w, g)
    BY <1>6, <1>7, <1>8
  <2>2. CacheBlobOK(g, w)' <=> (mode = "redis" /\ blob[g].there /\ ~blob[g].excused /\ w \notin blob[g].has
                             => \E p \in Replica : CacheDeleteAhead(job'[p], w, g))
    BY <1>3 DEF CacheBlobOK, CacheDeleteAhead, CacheToDelete
  <2>3. QED BY <2>1, <2>2 DEF CacheBlobOK
<1>11. QED BY <1>3, <1>9, <1>10, CacheStaysAnnounced

-----------------------------------------------------------------------------
LEMMA CacheInit == S!Init => CacheInv
<1> SUFFICES ASSUME S!Init PROVE CacheInv OBVIOUS
<1>1. store = <<>> /\ Len(store) = 0 /\ DOMAIN store = {} BY DEF S!Init
<1>2. CacheTypes
  <2>1. store \in Seq(Written) /\ Len(store) <= MaxWrite BY <1>1, WritesAreCounted
  <2>2. QED BY <2>1, CacheShapes DEF S!Init, CacheTypes
<1>3. CacheUnheard BY DEF S!Init, CacheUnheard, S!NoJob
<1>4. CacheLackAnnounced BY <1>1 DEF CacheLackAnnounced, S!Rows
<1>5. QED BY <1>2, <1>3, <1>4 DEF CacheInv

LEMMA CacheStep == CacheInv /\ [S!Next]_S!cvars => CacheInv'
<1> SUFFICES ASSUME CacheInv, [S!Next]_S!cvars PROVE CacheInv' OBVIOUS
<1>1. CacheTypes /\ CacheUnheard /\ CacheLackAnnounced BY DEF CacheInv
<1>2. CacheTypes' BY <1>1, CacheJobsStay, CacheCopiesStay DEF CacheTypes
<1>3. CacheUnheard' BY <1>1, CacheUnheardStays
<1>4. CacheLackAnnounced'
  <2>1. ASSUME NEW q \in Replica, NEW g \in Written, S!Write(q, g) PROVE CacheLackAnnounced'
    BY <1>2, <2>1, CacheWriteAnnounced
  <2>2. ASSUME NEW q \in Replica, NEW g \in Registry,
               S!Miss(q, g) \/ S!Query(q, g) \/ S!Loaded(q, g) \/ S!SetBlob(q, g) \/ S!Expire(q, g)
        PROVE  CacheLackAnnounced'
    BY <1>2, <2>2, CacheLoadAnnounced
  <2>3. ASSUME NEW q \in Replica, NEW s \in S!Slot, S!Mark(q, s) PROVE CacheLackAnnounced'
    BY <1>2, <2>3, CacheMarkAnnounced
  <2>4. ASSUME NEW q \in Replica, NEW s \in S!Slot, S!Delete(q, s) PROVE CacheLackAnnounced'
    BY <1>2, <2>4, CacheDeleteAnnounced
  <2>5. ASSUME NEW q \in Replica, NEW w \in 1..MaxWrite, S!Notify(q, w) PROVE CacheLackAnnounced'
    BY <1>2, <2>5, CacheNotifyAnnounced
  <2>6. ASSUME NEW q \in Replica, NEW w \in 1..MaxWrite, S!OnNotify(q, w) PROVE CacheLackAnnounced'
    BY <1>2, <2>6, CacheOnNotifyAnnounced
  <2>7. ASSUME NEW q \in Replica, S!Connect(q) PROVE CacheLackAnnounced'
    <3>1. UNCHANGED <<mode, store, job, cache, load, blob>> BY <2>7 DEF S!Connect
    <3>2. QED BY <1>2, <3>1, CacheNothingLost
  <2>8. ASSUME NEW q \in Replica, S!Disconnect(q) PROVE CacheLackAnnounced'
    BY <1>2, <2>8, CacheDisconnectAnnounced
  <2>9. ASSUME NEW q \in Replica, S!Reconnect(q) PROVE CacheLackAnnounced'
    BY <1>2, <2>9, CacheReconnectAnnounced
  <2>10. ASSUME NEW q \in Replica, S!Restart(q) PROVE CacheLackAnnounced'
    BY <1>2, <2>10, CacheRestartAnnounced
  <2>11. CASE UNCHANGED S!cvars
    <3>1. UNCHANGED <<mode, store, job, cache, load, blob>> BY <2>11 DEF S!cvars
    <3>2. QED BY <1>2, <3>1, CacheNothingLost
  <2>12. QED BY <2>1, <2>2, <2>3, <2>4, <2>5, <2>6, <2>7, <2>8, <2>9, <2>10, <2>11 DEF S!Next
<1>5. QED BY <1>2, <1>3, <1>4 DEF CacheInv

\* Who processed a write has nothing of it ahead.
LEMMA CacheHolds == CacheInv => S!ProcessedWritesShow
<1> SUFFICES ASSUME CacheInv, NEW g \in Registry, NEW w \in S!Rows(g)
             PROVE  /\ mode = "memory" =>
                         \A q \in Replica : cache[q][g].clean /\ S!Processed(q, w) => w \in cache[q][g].has
                    /\ mode = "redis" /\ blob[g].there /\ ~blob[g].excused /\ (\A q \in Replica : S!Processed(q, w))
                         => w \in blob[g].has
  BY DEF S!ProcessedWritesShow
<1>1. CacheBlobOK(g, w) /\ \A q \in Replica : CacheCopyOK(q, g, w)
  BY DEF CacheInv, CacheLackAnnounced
<1>2. \A q \in Replica : S!Processed(q, w) => ~CacheMarkAhead(job[q], w, g) /\ ~CacheDeleteAhead(job[q], w, g)
  BY DEF S!Processed, CacheMarkAhead, CacheDeleteAhead, CacheToMark, CacheToDelete
<1>3. QED BY <1>1, <1>2 DEF CacheBlobOK, CacheCopyOK

\* ProcessedWritesShow, for every number of replicas, registries and writes, in both
\* modes, whatever connections, processes and deletions fail: what a replica serves, and
\* what a key in Redis holds, shows the writes whose invalidation is behind
\* (_mark_dirty, _ensure's generation, start_listener's resync).
THEOREM InvalidatedIsGone == Spec => []ProcessedWritesShow
<1>1. Init => CacheInv
  BY CacheInit DEF Init
<1>2. CacheInv /\ [Next]_vars => CacheInv'
  BY CacheStep, OnePartMoves
<1>3. CacheInv => ProcessedWritesShow
  BY CacheHolds DEF ProcessedWritesShow
<1>4. QED
  BY <1>1, <1>2, <1>3, PTL DEF Spec


-----------------------------------------------------------------------------
(* An MCP server's connection (McpConnection) *)

McpPlaces == {"idle", "tear", "row", "wait", "ingest", "active", "error", "failed", "ok", "no", "policy", "sleep", "over"}
McpAlive(k) == who[k].at \notin {"idle", "over"}

McpTypes ==
  /\ server \in [deleted : BOOLEAN, status : {"inactive", "active", "error"}]
  /\ current \in Nat
  /\ breaker \in [attempts : Nat, open : BOOLEAN, task : Loop \cup {"none"}]
  /\ who \in [M!Caller -> [at : McpPlaces, c : Nat]]
  /\ health \in [at : {"idle", "ping", "error"}, c : Nat]

\* The breaker's loop is alive.
McpTaskAlive == \A k \in Loop : breaker.task = k => McpAlive(k)

\* Whoever is not about to report a success will follow up a failure.
McpCarries(w) == who[w].at \notin {"idle", "over", "active", "ok"}

\* Whoever tears a connection down carries the server on: that is why nobody's
\* success needs to last.
McpCarried ==
  current # 0 \/ breaker.open \/ health.at = "error" \/ \E w \in M!Caller : McpCarries(w)

McpUntried == server.status = "inactive" /\ health.at = "idle" /\ breaker.task = "none"
           /\ \A w \in M!Caller : who[w].at = "idle"

McpInv == McpTypes /\ McpTaskAlive /\ (excused # {} \/ server.deleted \/ McpUntried \/ McpCarried)

-----------------------------------------------------------------------------
\* One coroutine moves.
LEMMA McpMoves ==
  ASSUME McpTypes, NEW w \in M!Caller, NEW to \in McpPlaces, NEW c \in Nat,
         who' = [who EXCEPT ![w] = [at |-> to, c |-> c]]
  PROVE  /\ who' \in [M!Caller -> [at : McpPlaces, c : Nat]]
         /\ who'[w].at = to
         /\ \A v \in M!Caller \ {w} : who'[v] = who[v]
BY DEF McpTypes

LEMMA McpGoesMoves ==
  ASSUME McpTypes, NEW w \in M!Caller, NEW to \in McpPlaces, M!Goes(w, to)
  PROVE  /\ who' \in [M!Caller -> [at : McpPlaces, c : Nat]]
         /\ who'[w].at = to
         /\ \A v \in M!Caller \ {w} : who'[v] = who[v]
BY McpMoves DEF M!Goes

\* Who is cancelled ends, or goes on with the attempt he is in.
LEMMA McpCancelledTyped ==
  ASSUME McpTypes, NEW k \in M!Caller
  PROVE  M!Cancelled(k) \in [at : McpPlaces, c : Nat]
BY DEF McpTypes, M!Cancelled, McpPlaces

\* A loop is scheduled, or there is a reason not to.
LEMMA McpScheduled ==
  ASSUME McpTypes, McpTaskAlive, NEW others, others \in [M!Caller -> [at : McpPlaces, c : Nat]], M!Schedule(others),
         \A k \in Loop : others[k] = who[k]
  PROVE  /\ who' \in [M!Caller -> [at : McpPlaces, c : Nat]]
         /\ breaker' \in [attempts : Nat, open : BOOLEAN, task : Loop \cup {"none"}]
         /\ McpTaskAlive'
         /\ excused' # {} \/ breaker'.open \/ \E w \in M!Caller : McpCarries(w)'
<1>1. breaker \in [attempts : Nat, open : BOOLEAN, task : Loop \cup {"none"}] BY DEF McpTypes
<1>2. Loop \subseteq M!Caller /\ who \in [M!Caller -> [at : McpPlaces, c : Nat]]
  BY DEF M!Caller, McpTypes
<1>3. ASSUME breaker' = breaker, who' = others
      PROVE  /\ who' \in [M!Caller -> [at : McpPlaces, c : Nat]]
             /\ breaker' \in [attempts : Nat, open : BOOLEAN, task : Loop \cup {"none"}]
             /\ McpTaskAlive'
  BY <1>1, <1>3 DEF McpTaskAlive, McpAlive
<1>4. CASE breaker.open /\ breaker' = breaker /\ who' = others BY <1>3, <1>4
<1>5. CASE /\ ~breaker.open /\ breaker.task # "none"
           /\ excused' = IF who[breaker.task].at \in {"active", "ok"} THEN excused \cup {"overlooked"}
                         ELSE excused \ {"off"}
           /\ breaker' = breaker /\ who' = others
  <2>1. PICK k \in Loop : k = breaker.task BY <1>1, <1>5
  <2>2. CASE who[k].at \in {"active", "ok"}
    <3>1. "overlooked" \in excused' BY <1>5, <2>1, <2>2
    <3>2. QED BY <1>3, <1>5, <3>1
  <2>3. CASE who[k].at \notin {"active", "ok"}
    <3>1. who[k].at \notin {"idle", "over"} BY <2>1 DEF McpTaskAlive, McpAlive
    <3>2. who'[k] = who[k] BY <1>5, <2>1
    <3>3. McpCarries(k)' BY <2>3, <3>1, <3>2 DEF McpCarries
    <3>4. QED BY <1>2, <1>3, <1>5, <3>3
  <2>4. QED BY <2>2, <2>3
<1>6. CASE excused' = excused \cup {"off"} /\ breaker' = breaker /\ who' = others
  BY <1>3, <1>6
<1>7. CASE /\ breaker.task = "none"
           /\ \E k \in Loop : /\ who[k].at = "idle"
                              /\ breaker' = [breaker EXCEPT !.task = k]
                              /\ who' = [others EXCEPT ![k].at = "policy"]
  <2>1. PICK k \in Loop : /\ breaker' = [breaker EXCEPT !.task = k]
                          /\ who' = [others EXCEPT ![k].at = "policy"]
    BY <1>7
  <2>2. "policy" \in McpPlaces BY DEF McpPlaces
  <2> DEFINE new == [others[k] EXCEPT !.at = "policy"]
  <2>3. new \in [at : McpPlaces, c : Nat] /\ new.at = "policy" BY <1>2, <2>2
  <2>4. who' = [others EXCEPT ![k] = new] BY <2>1
  <2> HIDE DEF new
  <2>5. who' \in [M!Caller -> [at : McpPlaces, c : Nat]] /\ who'[k] = new BY <1>2, <2>3, <2>4
  <2>6. breaker' \in [attempts : Nat, open : BOOLEAN, task : Loop \cup {"none"}] /\ breaker'.task = k
    BY <1>1, <2>1
  <2>7. McpAlive(k)' /\ McpCarries(k)' BY <2>3, <2>5 DEF McpAlive, McpCarries
  <2>8. McpTaskAlive' BY <2>6, <2>7 DEF McpTaskAlive
  <2>9. QED BY <1>2, <2>5, <2>6, <2>7, <2>8
<1>8. QED BY <1>4, <1>5, <1>6, <1>7 DEF M!Schedule

LEMMA McpInit == M!Init => McpInv
<1> SUFFICES ASSUME M!Init PROVE McpInv
  OBVIOUS
<1>1. /\ server = [deleted |-> FALSE, status |-> "inactive"] /\ current = 0
      /\ breaker = M!Fresh /\ who = [w \in M!Caller |-> M!Rest] /\ health = M!Rest
  BY DEF M!Init
<1>2. M!Rest \in [at : McpPlaces, c : Nat] /\ M!Rest \in [at : {"idle", "ping", "error"}, c : Nat] /\ M!Rest.at = "idle"
  BY DEF M!Rest, McpPlaces
<1>3. M!Fresh \in [attempts : Nat, open : BOOLEAN, task : Loop \cup {"none"}] /\ M!Fresh.task = "none"
  BY DEF M!Fresh
<1>4. McpTypes BY <1>1, <1>2, <1>3 DEF McpTypes
<1>5. McpTaskAlive BY <1>1, <1>3, RequestsAreNoLoops DEF McpTaskAlive
<1>6. McpUntried BY <1>1, <1>2, <1>3 DEF McpUntried
<1>7. QED BY <1>4, <1>5, <1>6 DEF McpInv

LEMMA McpStep == McpInv /\ [M!Next]_M!mvars => McpInv'
<1> SUFFICES ASSUME McpInv, [M!Next]_M!mvars PROVE McpInv'
  OBVIOUS
<1>1. /\ server \in [deleted : BOOLEAN, status : {"inactive", "active", "error"}]
      /\ current \in Nat
      /\ breaker \in [attempts : Nat, open : BOOLEAN, task : Loop \cup {"none"}]
      /\ who \in [M!Caller -> [at : McpPlaces, c : Nat]]
      /\ health \in [at : {"idle", "ping", "error"}, c : Nat]
      /\ McpTypes /\ McpTaskAlive /\ (excused # {} \/ server.deleted \/ McpUntried \/ McpCarried)
  BY DEF McpInv, McpTypes
<1>2. /\ M!Fresh \in [attempts : Nat, open : BOOLEAN, task : Loop \cup {"none"}] /\ M!Fresh.task = "none"
      /\ M!Rest \in [at : {"idle", "ping", "error"}, c : Nat] /\ M!Rest \in [at : McpPlaces, c : Nat] /\ M!Rest.at = "idle"
  BY DEF M!Fresh, M!Rest, McpPlaces
<1>3. Loop \subseteq M!Caller /\ Request \subseteq M!Caller BY DEF M!Caller
\* w goes to a place at which it is alive
<1>4. ASSUME NEW w \in M!Caller, NEW to \in McpPlaces \ {"idle", "over"}, NEW c \in Nat, McpTypes',
             who' = [who EXCEPT ![w] = [at |-> to, c |-> c]], breaker'.task = breaker.task
      PROVE  /\ McpTaskAlive' /\ who'[w].at = to /\ \A v \in M!Caller \ {w} : who'[v] = who[v]
             /\ to \notin {"active", "ok"} => McpCarried'
  <2>1. who'[w].at = to /\ \A v \in M!Caller \ {w} : who'[v] = who[v] BY <1>1, <1>4
  <2>2. McpTaskAlive' BY <1>1, <1>3, <1>4, <2>1 DEF McpTaskAlive, McpAlive
  <2>3. to \notin {"active", "ok"} => McpCarries(w)' BY <1>4, <2>1 DEF McpCarries
  <2>4. QED BY <2>1, <2>2, <2>3 DEF McpCarried
<1>5. CASE UNCHANGED M!mvars
  <2>1. McpInv' <=> McpInv
    BY <1>5 DEF McpInv, McpTypes, McpTaskAlive, McpAlive, McpUntried, McpCarried, McpCarries,
       M!mvars
  <2>2. QED BY <2>1
<1>6. ASSUME NEW w \in M!Caller, M!Connect(w) PROVE McpInv'
  <2>1. \A v \in M!Caller : M!Cancelled(v) \in [at : McpPlaces, c : Nat] BY <1>1, McpCancelledTyped
  <2>2. [at |-> "tear", c |-> 0] \in [at : McpPlaces, c : Nat] BY DEF McpPlaces
  <2>3. /\ who' = [v \in M!Caller |-> IF v = w THEN [at |-> "tear", c |-> 0]
                                    ELSE IF v = breaker.task THEN M!Cancelled(v) ELSE who[v]]
        /\ breaker' = M!Fresh /\ UNCHANGED <<server, current, health>>
    BY <1>6 DEF M!Connect
  <2>4. McpTypes' BY <1>1, <1>2, <2>1, <2>2, <2>3 DEF McpTypes
  <2>5. McpTaskAlive' BY <1>2, <2>3, RequestsAreNoLoops DEF McpTaskAlive
  <2>6. who'[w].at = "tear" BY <2>3
  <2>7. McpCarried' BY <2>6 DEF McpCarried, McpCarries
  <2>8. QED BY <2>4, <2>5, <2>7 DEF McpInv
<1>7. CASE M!Delete
  <2>1. server' = [server EXCEPT !.deleted = TRUE] /\ UNCHANGED <<current, breaker, who, health>>
    BY <1>7 DEF M!Delete
  <2>2. server'.deleted /\ McpTypes' BY <1>1, <2>1 DEF McpTypes
  <2>3. McpTaskAlive' BY <1>1, <2>1 DEF McpTaskAlive, McpAlive
  <2>4. QED BY <2>2, <2>3 DEF McpInv
<1>8. CASE M!Disconnect
  <2>1. \A v \in M!Caller : M!Cancelled(v) \in [at : McpPlaces, c : Nat] BY <1>1, McpCancelledTyped
  <2>2. /\ who' = [v \in M!Caller |-> IF v = breaker.task THEN M!Cancelled(v) ELSE who[v]]
        /\ breaker' = M!Fresh /\ current' = 0 /\ server.deleted /\ UNCHANGED <<server, health>>
    BY <1>8 DEF M!Disconnect, M!TearDown
  <2>3. McpTypes' BY <1>1, <1>2, <2>1, <2>2 DEF McpTypes
  <2>4. McpTaskAlive' BY <1>2, <2>2, RequestsAreNoLoops DEF McpTaskAlive
  <2>5. QED BY <2>2, <2>3, <2>4 DEF McpInv
<1>9. ASSUME NEW w \in M!Caller, M!Tear(w) \/ M!Failed(w) PROVE McpInv'
  <2>1. PICK to \in {"row", "error"} : M!Goes(w, to) BY <1>9 DEF M!Tear, M!Failed
  <2>2. who' = [who EXCEPT ![w] = [at |-> to, c |-> 0]] /\ to \in McpPlaces \ {"idle", "over"}
    BY <2>1 DEF M!Goes, McpPlaces
  <2>3. current' = 0 /\ UNCHANGED <<server, breaker, health>>
    BY <1>9 DEF M!Tear, M!Failed, M!TearDown
  <2>4. McpTypes' BY <1>1, <2>2, <2>3 DEF McpTypes
  <2>5. McpTaskAlive' /\ McpCarried' BY <1>4, <2>1, <2>2, <2>3, <2>4
  <2>6. QED BY <2>4, <2>5 DEF McpInv
\* an attempt moves on, or is told that the row is gone
<1>10. ASSUME NEW w \in M!Caller, M!ReadRow(w) \/ M!Ready(w) PROVE McpInv'
  <2>1. UNCHANGED <<server, breaker, health>> BY <1>10 DEF M!ReadRow, M!Ready
  <2>2. CASE M!ReadRow(w) /\ server.deleted
    <3>1. who' = [who EXCEPT ![w] = [at |-> "ok", c |-> 0]] /\ current' = current /\ "ok" \in McpPlaces \ {"idle", "over"}
      BY <2>2 DEF M!ReadRow, M!Goes, McpPlaces
    <3>2. McpTypes' BY <1>1, <2>1, <3>1 DEF McpTypes
    <3>3. McpTaskAlive' BY <1>4, <2>1, <3>1, <3>2
    <3>4. QED BY <2>1, <2>2, <3>2, <3>3 DEF McpInv
  <2>3. CASE M!ReadRow(w) /\ ~server.deleted
    <3>1. PICK c \in 1..MaxConn : current' = c /\ who' = [who EXCEPT ![w] = [at |-> "wait", c |-> c]]
      BY <2>3 DEF M!ReadRow
    <3>2. c \in Nat /\ "wait" \in McpPlaces \ {"idle", "over"} BY DEF McpPlaces
    <3>3. McpTypes' BY <1>1, <2>1, <3>1, <3>2 DEF McpTypes
    <3>4. McpTaskAlive' /\ McpCarried' BY <1>4, <2>1, <3>1, <3>2, <3>3
    <3>5. QED BY <3>3, <3>4 DEF McpInv
  <2>4. CASE M!Ready(w)
    <3>1. PICK to \in {"ingest", "failed"} : M!Goes(w, to) /\ current' = current BY <2>4 DEF M!Ready
    <3>2. who' = [who EXCEPT ![w] = [at |-> to, c |-> 0]] /\ to \in McpPlaces \ {"idle", "over"}
      BY <3>1 DEF M!Goes, McpPlaces
    <3>3. McpTypes' BY <1>1, <2>1, <3>1, <3>2 DEF McpTypes
    <3>4. McpTaskAlive' /\ McpCarried' BY <1>4, <2>1, <3>1, <3>2, <3>3
    <3>5. QED BY <3>3, <3>4 DEF McpInv
  <2>5. QED BY <1>10, <2>2, <2>3, <2>4
<1>11. ASSUME NEW w \in M!Caller, M!Ingest(w) PROVE McpInv'
  <2>1. UNCHANGED <<server, breaker, health, current>> BY <1>11 DEF M!Ingest
  <2>2. PICK to \in {"active", "failed"} : M!Goes(w, to) /\ (to = "active" => current # 0)
    BY <1>11 DEF M!Ingest
  <2>3. who' = [who EXCEPT ![w] = [at |-> to, c |-> 0]] /\ to \in McpPlaces \ {"idle", "over"}
    BY <2>2 DEF M!Goes, McpPlaces
  <2>4. McpTypes' BY <1>1, <2>1, <2>3 DEF McpTypes
  <2>5. McpTaskAlive' /\ (to \notin {"active", "ok"} => McpCarried') BY <1>4, <2>1, <2>3, <2>4
  <2>6. McpCarried' BY <2>1, <2>2, <2>5 DEF McpCarried
  <2>7. QED BY <2>4, <2>5, <2>6 DEF McpInv
\* who reports a success carried nothing, and who reports a failure goes on carrying
<1>12. ASSUME NEW w \in M!Caller, M!Record(w) PROVE McpInv'
  <2>1. UNCHANGED <<breaker, health, current, excused>> /\ who[w].at \in {"active", "error"}
        /\ server' = [server EXCEPT !.status = who[w].at]
    BY <1>12 DEF M!Record
  <2>2. PICK to \in {"ok", "no"} : M!Goes(w, to) /\ (who[w].at = "error" => to = "no")
    BY <1>12 DEF M!Record
  <2>3. who' = [who EXCEPT ![w] = [at |-> to, c |-> 0]] /\ to \in McpPlaces \ {"idle", "over"}
    BY <2>2 DEF M!Goes, McpPlaces
  <2>4. McpTypes' /\ server'.deleted = server.deleted BY <1>1, <2>1, <2>3 DEF McpTypes
  <2>5. /\ McpTaskAlive' /\ (to \notin {"active", "ok"} => McpCarried') /\ \A v \in M!Caller \ {w} : who'[v] = who[v]
    BY <1>4, <2>1, <2>3, <2>4
  <2>6. ~McpUntried BY <2>1 DEF McpUntried
  <2>7. CASE to = "ok"
    <3>1. who[w].at = "active" BY <2>1, <2>2, <2>7
    <3>2. McpCarried => McpCarried' BY <2>1, <2>5, <3>1 DEF McpCarried, McpCarries
    <3>3. QED BY <1>1, <2>1, <2>4, <2>5, <2>6, <3>2 DEF McpInv
  <2>8. CASE to = "no" BY <2>4, <2>5, <2>8 DEF McpInv
  <2>9. QED BY <2>2, <2>7, <2>8
\* a loop ends, and with it the breaker's task
<1>13. ASSUME NEW k \in Loop, NEW b \in [attempts : Nat, open : BOOLEAN, task : Loop \cup {"none"}], M!Ends(k, b)
       PROVE  /\ who' \in [M!Caller -> [at : McpPlaces, c : Nat]]
              /\ breaker' \in [attempts : Nat, open : BOOLEAN, task : Loop \cup {"none"}]
              /\ breaker'.open = b.open /\ McpTaskAlive' /\ who'[k].at = "over"
              /\ \A v \in M!Caller \ {k} : who'[v] = who[v]
  <2>1. who' = [who EXCEPT ![k] = [at |-> "over", c |-> 0]] /\ breaker' = [b EXCEPT !.task = "none"]
    BY <1>13 DEF M!Ends
  <2>2. [at |-> "over", c |-> 0] \in [at : McpPlaces, c : Nat] BY DEF McpPlaces
  <2>3. breaker'.task = "none" BY <2>1
  <2>4. McpTaskAlive' BY <2>3, RequestsAreNoLoops DEF McpTaskAlive
  <2>5. QED BY <1>1, <1>3, <2>1, <2>2, <2>4
<1>14. ASSUME NEW w \in M!Caller, M!DatabaseFails(w) PROVE McpInv'
  <2>1. UNCHANGED <<server, current, health>> /\ "database" \in excused'
    BY <1>14 DEF M!DatabaseFails
  <2>2. CASE w \in Loop
    <3>1. M!Ends(w, breaker) BY <1>14, <2>2 DEF M!DatabaseFails, M!Ends
    <3>2. McpTypes' /\ McpTaskAlive' BY <1>1, <1>13, <2>1, <2>2, <3>1 DEF McpTypes
    <3>3. QED BY <2>1, <3>2 DEF McpInv
  <2>3. CASE w \notin Loop
    <3>1. who' = [who EXCEPT ![w] = M!Rest] /\ breaker' = breaker BY <1>14, <2>3 DEF M!DatabaseFails
    <3>2. McpTypes' BY <1>1, <1>2, <2>1, <3>1 DEF McpTypes
    <3>3. McpTaskAlive' BY <1>1, <1>3, <2>3, <3>1 DEF McpTaskAlive, McpAlive
    <3>4. QED BY <2>1, <3>2, <3>3 DEF McpInv
  <2>4. QED BY <2>2, <2>3
<1>15. ASSUME NEW w \in M!Caller, M!Answered(w) PROVE McpInv'
  <2> DEFINE rest == [who EXCEPT ![w] = M!Rest]
  <2>1. UNCHANGED <<server, current, health>> /\ w \in Request /\ who[w].at \in {"ok", "no"}
    BY <1>15 DEF M!Answered
  <2>2. PICK others \in [M!Caller -> [at : McpPlaces, c : Nat]] : others = rest BY <1>1, <1>2
  <2>3. w \notin Loop /\ (\A v \in M!Caller \ {w} : others[v] = who[v]) /\ others[w].at = "idle"
    BY <1>1, <1>2, <2>1, <2>2, RequestsAreNoLoops
  <2>4. ~McpUntried BY <2>1 DEF McpUntried
  <2>5. CASE who[w].at = "ok"
    <3>1. who' = others /\ UNCHANGED <<breaker, excused>> BY <1>15, <2>2, <2>5 DEF M!Answered
    <3>2. McpTypes' BY <1>1, <2>1, <3>1 DEF McpTypes
    <3>3. McpTaskAlive' BY <1>1, <1>3, <2>3, <3>1 DEF McpTaskAlive, McpAlive
    <3>4. McpCarried => McpCarried' BY <2>1, <2>3, <2>5, <3>1 DEF McpCarried, McpCarries
    <3>5. QED BY <1>1, <2>1, <2>4, <3>1, <3>2, <3>3, <3>4 DEF McpInv
  <2>6. CASE who[w].at # "ok"
    <3>1. M!Schedule(rest) BY <1>15, <2>6 DEF M!Answered
    <3> HIDE DEF rest
    <3>2. M!Schedule(others) BY <2>2, <3>1
    <3>3. \A k \in Loop : others[k] = who[k] BY <1>3, <2>3
    <3>4. /\ who' \in [M!Caller -> [at : McpPlaces, c : Nat]] /\ McpTaskAlive'
          /\ breaker' \in [attempts : Nat, open : BOOLEAN, task : Loop \cup {"none"}]
          /\ excused' # {} \/ breaker'.open \/ \E v \in M!Caller : McpCarries(v)'
      BY <1>1, <3>2, <3>3, McpScheduled
    <3>5. McpTypes' BY <1>1, <2>1, <3>4 DEF McpTypes
    <3>6. QED BY <3>4, <3>5 DEF McpInv, McpCarried
  <2>7. QED BY <2>5, <2>6
<1>16. ASSUME NEW k \in M!Caller, M!Policy(k) PROVE McpInv'
  <2>1. UNCHANGED <<server, current, health>> /\ k \in Loop BY <1>16 DEF M!Policy
  <2>2. CASE M!Ends(k, breaker) /\ excused' = excused \cup {"off"}
    <3>1. McpTypes' /\ McpTaskAlive' BY <1>1, <1>13, <2>1, <2>2 DEF McpTypes
    <3>2. QED BY <2>2, <3>1 DEF McpInv
  <2>3. CASE M!Goes(k, "sleep") /\ breaker' = [breaker EXCEPT !.attempts = @ + 1]
    <3>1. who' = [who EXCEPT ![k] = [at |-> "sleep", c |-> 0]] /\ "sleep" \in McpPlaces \ {"idle", "over"}
      BY <2>3 DEF M!Goes, McpPlaces
    <3>2. breaker' \in [attempts : Nat, open : BOOLEAN, task : Loop \cup {"none"}] /\ breaker'.task = breaker.task
      BY <1>1, <2>3
    <3>3. McpTypes' BY <1>1, <2>1, <3>1, <3>2 DEF McpTypes
    <3>4. McpTaskAlive' /\ McpCarried' BY <1>4, <3>1, <3>2, <3>3
    <3>5. QED BY <3>3, <3>4 DEF McpInv
  <2>4. QED BY <1>16, <2>2, <2>3 DEF M!Policy
<1>17. ASSUME NEW k \in M!Caller, M!Wake(k) PROVE McpInv'
  <2>1. who' = [who EXCEPT ![k] = [at |-> "tear", c |-> 0]] /\ "tear" \in McpPlaces \ {"idle", "over"}
        /\ UNCHANGED <<server, current, breaker, health>>
    BY <1>17 DEF M!Wake, M!Goes, McpPlaces
  <2>2. McpTypes' BY <1>1, <2>1 DEF McpTypes
  <2>3. McpTaskAlive' /\ McpCarried' BY <1>4, <2>1, <2>2
  <2>4. QED BY <2>2, <2>3 DEF McpInv
<1>18. ASSUME NEW k \in M!Caller, M!Attempted(k) PROVE McpInv'
  <2>1. UNCHANGED <<current, health, excused>> /\ k \in Loop /\ who[k].at \in {"ok", "no"}
    BY <1>18 DEF M!Attempted
  <2>2. ~McpUntried BY <2>1 DEF McpUntried
  <2>3. CASE who[k].at = "ok" /\ M!Ends(k, [breaker EXCEPT !.attempts = 0]) /\ server' = server
    <3> DEFINE b == [breaker EXCEPT !.attempts = 0]
    <3>1. b \in [attempts : Nat, open : BOOLEAN, task : Loop \cup {"none"}] /\ b.open = breaker.open
      BY <1>1
    <3>2. M!Ends(k, b) BY <2>3
    <3> HIDE DEF b
    <3>3. /\ who' \in [M!Caller -> [at : McpPlaces, c : Nat]] /\ McpTaskAlive'
          /\ breaker' \in [attempts : Nat, open : BOOLEAN, task : Loop \cup {"none"}]
          /\ breaker'.open = breaker.open /\ \A v \in M!Caller \ {k} : who'[v] = who[v]
      BY <1>13, <2>1, <3>1, <3>2
    <3>4. McpTypes' BY <1>1, <2>1, <2>3, <3>3 DEF McpTypes
    <3>5. McpCarried => McpCarried' BY <2>1, <2>3, <3>3 DEF McpCarried, McpCarries
    <3>6. QED BY <1>1, <2>1, <2>2, <2>3, <3>3, <3>4, <3>5 DEF McpInv
  <2>4. CASE M!Goes(k, "policy") /\ UNCHANGED <<breaker, server>>
    <3>1. who' = [who EXCEPT ![k] = [at |-> "policy", c |-> 0]] /\ "policy" \in McpPlaces \ {"idle", "over"}
      BY <2>4 DEF M!Goes, McpPlaces
    <3>2. McpTypes' BY <1>1, <2>1, <2>4, <3>1 DEF McpTypes
    <3>3. McpTaskAlive' /\ McpCarried' BY <1>3, <1>4, <2>1, <2>4, <3>1, <3>2
    <3>4. QED BY <3>2, <3>3 DEF McpInv
  <2>5. CASE M!Ends(k, [breaker EXCEPT !.open = TRUE]) /\ server' = [server EXCEPT !.status = "error"]
    <3> DEFINE b == [breaker EXCEPT !.open = TRUE]
    <3>1. b \in [attempts : Nat, open : BOOLEAN, task : Loop \cup {"none"}] /\ b.open BY <1>1
    <3>2. M!Ends(k, b) BY <2>5
    <3> HIDE DEF b
    <3>3. /\ who' \in [M!Caller -> [at : McpPlaces, c : Nat]] /\ McpTaskAlive' /\ breaker'.open
          /\ breaker' \in [attempts : Nat, open : BOOLEAN, task : Loop \cup {"none"}]
      BY <1>13, <2>1, <3>1, <3>2
    <3>4. McpTypes' BY <1>1, <2>1, <2>5, <3>3 DEF McpTypes
    <3>5. QED BY <3>3, <3>4 DEF McpInv, McpCarried
  <2>6. QED BY <1>18, <2>3, <2>4, <2>5 DEF M!Attempted
<1>19. CASE M!Ping
  <2>1. /\ health' = [at |-> "ping", c |-> current] /\ UNCHANGED <<server, current, breaker, who, excused>>
        /\ current # 0 /\ health.at = "idle"
    BY <1>19 DEF M!Ping
  <2>2. McpTypes' BY <1>1, <2>1 DEF McpTypes
  <2>3. McpTaskAlive' BY <1>1, <2>1 DEF McpTaskAlive, McpAlive
  <2>4. McpCarried' BY <2>1 DEF McpCarried
  <2>5. QED BY <2>2, <2>3, <2>4 DEF McpInv
<1>20. CASE M!Pong
  <2>1. UNCHANGED <<server, breaker, who, excused>> /\ health.at = "ping" BY <1>20 DEF M!Pong
  <2>2. McpTaskAlive' BY <1>1, <2>1 DEF McpTaskAlive, McpAlive
  <2>3. CASE health' = M!Rest /\ UNCHANGED <<mConn, current, fault>>
    <3>1. McpTypes' BY <1>1, <1>2, <2>1, <2>3 DEF McpTypes
    <3>2. ~McpUntried /\ (McpCarried => McpCarried')
      BY <2>1, <2>3 DEF McpUntried, McpCarried, McpCarries
    <3>3. QED BY <1>1, <2>1, <2>2, <3>1, <3>2 DEF McpInv
  <2>4. CASE M!TearDown /\ health' = [health EXCEPT !.at = "error"]
    <3>1. current' = 0 /\ health'.at = "error" /\ health' \in [at : {"idle", "ping", "error"}, c : Nat]
      BY <1>1, <2>4 DEF M!TearDown
    <3>2. McpTypes' BY <1>1, <2>1, <3>1 DEF McpTypes
    <3>3. QED BY <2>2, <3>1, <3>2 DEF McpInv, McpCarried
  <2>5. QED BY <1>20, <2>3, <2>4 DEF M!Pong
<1>21. CASE M!Unhealthy
  <2>1. health' = M!Rest /\ current' = current BY <1>21 DEF M!Unhealthy
  <2>2. CASE server' = [server EXCEPT !.status = "error"] /\ M!Schedule(who)
    <3>1. PICK others \in [M!Caller -> [at : McpPlaces, c : Nat]] : others = who BY <1>1
    <3>2. M!Schedule(others) BY <2>2, <3>1
    <3>3. /\ who' \in [M!Caller -> [at : McpPlaces, c : Nat]] /\ McpTaskAlive'
          /\ breaker' \in [attempts : Nat, open : BOOLEAN, task : Loop \cup {"none"}]
          /\ excused' # {} \/ breaker'.open \/ \E v \in M!Caller : McpCarries(v)'
      BY <1>1, <3>1, <3>2, McpScheduled
    <3>4. McpTypes' BY <1>1, <1>2, <2>1, <2>2, <3>3 DEF McpTypes
    <3>5. QED BY <3>3, <3>4 DEF McpInv, McpCarried
  <2>3. CASE excused' = excused \cup {"database"} /\ UNCHANGED <<server, breaker, who>>
    <3>1. McpTypes' BY <1>1, <1>2, <2>1, <2>3 DEF McpTypes
    <3>2. McpTaskAlive' BY <1>1, <2>3 DEF McpTaskAlive, McpAlive
    <3>3. QED BY <2>3, <3>1, <3>2 DEF McpInv
  <2>4. QED BY <1>21, <2>2, <2>3 DEF M!Unhealthy
\* the connections and the setting move
<1>22. ASSUME UNCHANGED <<server, current, breaker, who, health, excused>> PROVE McpInv'
  <2>1. McpInv' <=> McpInv
    BY <1>22 DEF McpInv, McpTypes, McpTaskAlive, McpAlive, McpUntried, McpCarried, McpCarries
  <2>2. QED BY <2>1
<1>23. CASE M!Configure BY <1>22, <1>23 DEF M!Configure
<1>24. ASSUME NEW c \in 1..MaxConn, M!Start(c) \/ M!Die(c) PROVE McpInv'
  BY <1>22, <1>24 DEF M!Start, M!Die
<1>25. CASE M!Next
  <2>1. CASE \E w \in M!Caller : M!Connect(w) \/ M!Tear(w) \/ M!ReadRow(w) \/ M!Ready(w) \/ M!Ingest(w) \/ M!Failed(w) \/ M!Record(w)
    BY <1>6, <1>9, <1>10, <1>11, <1>12, <2>1
  <2>2. CASE \E w \in M!Caller : M!DatabaseFails(w) \/ M!Answered(w) \/ M!Policy(w) \/ M!Wake(w) \/ M!Attempted(w)
    BY <1>14, <1>15, <1>16, <1>17, <1>18, <2>2
  <2>3. QED BY <1>7, <1>8, <1>19, <1>20, <1>21, <1>23, <1>24, <1>25, <2>1, <2>2 DEF M!Next
<1>26. QED BY <1>5, <1>25

LEMMA McpHolds == McpInv => M!NotAbandoned
<1> SUFFICES ASSUME McpInv, excused = {}, M!Settled, ~server.deleted, server.status # "inactive"
             PROVE  current # 0 \/ breaker.open
  BY DEF M!NotAbandoned, M!Tended
<1>1. McpCarried BY DEF McpInv, McpUntried
<1>2. \A w \in M!Caller : ~McpCarries(w) BY DEF M!Settled, McpCarries
<1>3. QED BY <1>1, <1>2 DEF McpCarried, M!Settled

\* NotAbandoned, for every number of requests and reconnect loops, however often
\* connecting fails, pings fail and servers are edited: an enabled server that is not
\* connected has somebody on it, or its circuit is open, unless automatic reconnects were
\* off when one was due, the database failed under a step, or the loop about to report
\* a success was taken for one at work (_connect_once, _reconnect_loop, ping_all).
THEOREM ServersAreHeld == Spec => []NotAbandoned
<1>1. Init => McpInv
  BY McpInit DEF Init
<1>2. McpInv /\ [Next]_vars => McpInv'
  BY McpStep, OnePartMoves
<1>3. McpInv => NotAbandoned
  BY McpHolds DEF NotAbandoned
<1>4. QED
  BY <1>1, <1>2, <1>3, PTL DEF Spec


-----------------------------------------------------------------------------
(* Tool rows (ToolRows) *)

ToolMarks  == {"none", "present", "missing", "changed", "agentoff"}
ToolRowType == [here : BOOLEAN, status : {"active", "inactive"}, ingest : ToolMarks, deleted : BOOLEAN,
            flag : BOOLEAN, hash : Nat]

ToolRowsTypeOK ==
  /\ kind \in {"mcp", "a2a"}
  /\ tRow \in ToolRowType
  /\ work \in [Replica -> [at : {"rest", "fetch", "ingest", "write"}, read : ToolRowType, offer : Nat]]
  /\ held \in {"none", "off", "changed", "away", "raced"}

\* Out of service, and not by an absence whose end would undo it
ToolOut(r) == r.here /\ r.status = "inactive" /\ r.ingest \notin {"missing", "agentoff"}

\* One ingest of an MCP server is between its read and its write, for its lock; of a
\* remote agent's skills none quarantines.
ToolApart ==
  /\ kind = "mcp" => \A i, j \in Replica : work[i].at = "write" /\ work[j].at = "write" => i = j
  /\ kind = "a2a" => /\ tRow.ingest # "changed" /\ held # "changed"
                     /\ \A i \in Replica : work[i].read.ingest # "changed"
  /\ \A i \in Replica : work[i].at \in {"fetch", "ingest"} => kind = "a2a"

\* A row is marked deleted, never removed.
ToolStays == \A i \in Replica : work[i].read.here => tRow.here

ToolHeld(h) == h \in {"off", "changed"}

\* Nobody holds a view of the row from before it was taken out.
ToolRowsInv ==
  /\ ToolRowsTypeOK /\ ToolApart /\ ToolStays
  /\ ToolHeld(held) => ToolOut(tRow) /\ \A i \in Replica : work[i].at = "write" => ToolOut(work[i].read)

-----------------------------------------------------------------------------
LEMMA ToolRowsInit == T!Init => ToolRowsInv
BY DEF T!Init, ToolRowsInv, ToolHeld, ToolRowsTypeOK, ToolApart, ToolStays, ToolRowType,
   ToolMarks, T!Absent, T!Rest, T!Nothing

\* What a listing makes of a row, and of one that is out
LEMMA ToolListed ==
  ASSUME NEW r \in ToolRowType, NEW offer \in Nat, NEW policy \in {"warn", "quarantine"},
         kind \in {"mcp", "a2a"}
  PROVE  /\ T!Dropped(r) \in ToolRowType /\ T!Offered(r, offer, policy) \in ToolRowType
         /\ ToolOut(r) => ToolOut(T!Dropped(r)) /\ ToolOut(T!Offered(r, offer, policy))
         /\ kind = "a2a" /\ policy = "warn" /\ r.ingest # "changed" =>
              T!Dropped(r).ingest # "changed" /\ T!Offered(r, offer, policy).ingest # "changed"
         /\ T!Dropped(r).ingest = "changed" => r.ingest = "changed"
         /\ T!Dropped(r).here = r.here /\ T!Offered(r, offer, policy).here = r.here
  BY DEF T!Dropped, T!Offered, T!Schemed, ToolOut, ToolRowType, ToolMarks

\* A step of the operator: the ingests go on with what they read.
LEMMA ToolOperatorStep ==
  ASSUME ToolRowsInv, kind' = kind, work' = work, tRow' \in ToolRowType,
         held' \in {"none", "off", "away", "raced", held},
         kind = "a2a" => tRow'.ingest # "changed", tRow.here => tRow'.here,
         ToolHeld(held') => ToolOut(tRow') /\ (held' = held \/ ~T!Mid)
  PROVE  ToolRowsInv'
<1>1. ToolRowsTypeOK' /\ ToolApart' /\ ToolStays'
  BY DEF ToolRowsInv, ToolRowsTypeOK, ToolApart, ToolStays
<1>2. ToolHeld(held') => \A i \in Replica : work'[i].at = "write" => ToolOut(work'[i].read)
  BY DEF ToolRowsInv, T!Mid
<1>3. QED
  BY <1>1, <1>2 DEF ToolRowsInv

LEMMA ToolRowsStep == ToolRowsInv /\ [T!Next]_T!tvars => ToolRowsInv'
<1> SUFFICES ASSUME ToolRowsInv, [T!Next]_T!tvars PROVE ToolRowsInv'
  OBVIOUS
<1> USE DEF ToolRowsInv, ToolRowsTypeOK, ToolApart, ToolStays, ToolHeld
<1>1. ASSUME NEW i \in Replica, T!Fetch(i) PROVE ToolRowsInv'
  BY <1>1 DEF T!Fetch, ToolOut
<1>2. ASSUME NEW i \in Replica, T!FetchFails(i) PROVE ToolRowsInv'
  <2>1. T!Rest \in [at : {"rest", "fetch", "ingest", "write"}, read : ToolRowType, offer : Nat]
    BY DEF T!Rest, T!Absent, ToolRowType, ToolMarks, T!Nothing
  <2>2. QED
    BY <1>2, <2>1 DEF T!FetchFails, ToolOut, T!Rest, T!Absent
<1>3. ASSUME NEW i \in Replica, T!Fetched(i) PROVE ToolRowsInv'
  BY <1>3 DEF T!Fetched, ToolOut
<1>4. ASSUME NEW i \in Replica, T!Read(i) PROVE ToolRowsInv'
  BY <1>4 DEF T!Read, ToolOut, T!Offers
<1>5. ASSUME NEW i \in Replica, T!Write(i) PROVE ToolRowsInv'
  <2>1. T!Rest \in [at : {"rest", "fetch", "ingest", "write"}, read : ToolRowType, offer : Nat]
    BY DEF T!Rest, T!Absent, ToolRowType, ToolMarks, T!Nothing
  <2> DEFINE old == work[i].read
             offer == work[i].offer
  <2>2. old \in ToolRowType /\ offer \in Nat
    OBVIOUS
  <2>3. T!New(offer) \in ToolRowType /\ T!New(offer).ingest = "present"
    BY <2>2 DEF T!New, ToolRowType, ToolMarks
  <2>4. PICK policy \in {"warn"} \cup (IF kind = "mcp" THEN {"quarantine"} ELSE {}) :
          LET new == CASE offer = T!Nothing /\ old.here -> T!Dropped(old)
                       [] offer # T!Nothing /\ old.here -> T!Offered(old, offer, policy)
                       [] offer # T!Nothing /\ ~old.here /\ ~tRow.here -> T!New(offer)
                       [] OTHER -> old
          IN /\ tRow' = [c \in DOMAIN tRow |-> IF new[c] # old[c] THEN new[c] ELSE tRow[c]]
             /\ held' = IF new.ingest = "changed" /\ old.ingest # "changed" /\ tRow'.status = "inactive"
                          THEN "changed" ELSE held
    BY <1>5 DEF T!Write
  <2> DEFINE new == CASE offer = T!Nothing /\ old.here -> T!Dropped(old)
                      [] offer # T!Nothing /\ old.here -> T!Offered(old, offer, policy)
                      [] offer # T!Nothing /\ ~old.here /\ ~tRow.here -> T!New(offer)
                      [] OTHER -> old
  <2>18. \/ old.here /\ new \in {T!Dropped(old), T!Offered(old, offer, policy)}
         \/ ~old.here /\ new \in {T!New(offer), old}
    OBVIOUS
  <2>19. policy \in {"warn", "quarantine"} /\ (kind = "a2a" => policy = "warn")
    BY <2>4 DEF ToolRowsTypeOK
  <2> HIDE DEF new, old, offer
  <2>5. /\ new \in ToolRowType
        /\ ToolOut(old) => ToolOut(new)
        /\ kind = "a2a" /\ old.ingest # "changed" => new.ingest # "changed"
        /\ old.here => new.here
        /\ new.ingest = "changed" /\ old.ingest # "changed" => new.here /\ old.here /\ kind = "mcp"
    <3>1. CASE old.here /\ new = T!Dropped(old)
      <4>1. /\ T!Dropped(old) \in ToolRowType /\ T!Dropped(old).here = old.here
            /\ ToolOut(old) => ToolOut(T!Dropped(old))
            /\ kind = "a2a" /\ old.ingest # "changed" => T!Dropped(old).ingest # "changed"
            /\ T!Dropped(old).ingest = "changed" => old.ingest = "changed"
        BY <2>2, <2>19, ToolListed
      <4>2. QED
        BY <3>1, <4>1
    <3>2. CASE old.here /\ new = T!Offered(old, offer, policy)
      <4>1. /\ T!Offered(old, offer, policy) \in ToolRowType /\ T!Offered(old, offer, policy).here = old.here
            /\ ToolOut(old) => ToolOut(T!Offered(old, offer, policy))
            /\ kind = "a2a" /\ old.ingest # "changed" => T!Offered(old, offer, policy).ingest # "changed"
            /\ T!Offered(old, offer, policy).ingest = "changed" /\ old.ingest # "changed" => kind = "mcp"
        BY <2>2, <2>19, ToolListed
      <4>2. QED
        BY <3>2, <4>1
    <3>3. CASE ~old.here /\ new = T!New(offer)
      BY <2>3, <3>3 DEF ToolOut
    <3>4. CASE new = old
      BY <2>2, <3>4
    <3>5. QED
      BY <2>18, <3>1, <3>2, <3>3, <3>4
  <2>6. tRow' = [c \in DOMAIN tRow |-> IF new[c] # old[c] THEN new[c] ELSE tRow[c]]
    BY <2>4 DEF new, old, offer
  <2>7. /\ tRow' \in ToolRowType
        /\ tRow'.status \in {tRow.status, new.status} /\ tRow'.ingest \in {tRow.ingest, new.ingest}
        /\ tRow'.here \in {tRow.here, new.here}
        /\ new.ingest # old.ingest => tRow'.ingest = new.ingest
        /\ tRow.here => tRow'.here
    BY <2>2, <2>5, <2>6 DEF ToolRowType
  <2>8. /\ work' = [work EXCEPT ![i] = T!Rest] /\ kind' = kind
        /\ held' = IF new.ingest = "changed" /\ old.ingest # "changed" /\ tRow'.status = "inactive"
                     THEN "changed" ELSE held
    BY <1>5, <2>4 DEF T!Write, new, old, offer
  <2>9. ToolRowsTypeOK'
    BY <2>1, <2>7, <2>8
  <2>10. \A j \in Replica : work'[j].at = "write" => j # i /\ work'[j] = work[j]
    BY <2>8 DEF T!Rest
  <2>11. work[i].at = "write" /\ T!Rest.read.ingest # "changed" /\ T!Rest.at = "rest" /\ ~T!Rest.read.here
    BY <1>5 DEF T!Write, T!Rest, T!Absent
  <2>12. ToolApart'
    <3>1. kind' = "mcp" => \A j, m \in Replica : work'[j].at = "write" /\ work'[m].at = "write" => j = m
      BY <2>8, <2>10
    <3>2. ASSUME kind' = "a2a"
          PROVE  /\ tRow'.ingest # "changed" /\ held' # "changed"
                 /\ \A j \in Replica : work'[j].read.ingest # "changed"
      <4>1. kind = "a2a" /\ tRow.ingest # "changed" /\ held # "changed" /\ old.ingest # "changed"
        BY <3>2, <2>8 DEF old
      <4>2. QED
        BY <4>1, <2>5, <2>7, <2>8, <2>11
    <3>3. \A j \in Replica : work'[j].at \in {"fetch", "ingest"} => kind' = "a2a"
      BY <2>8, <2>11
    <3>4. QED
      BY <3>1, <3>2, <3>3
  <2>17. ToolStays'
    <3>1. tRow.here => tRow'.here
      BY <2>7
    <3>2. QED
      BY <2>8, <2>11, <3>1
  <2>13. CASE ToolHeld(held)
    <3>1. ToolOut(tRow) /\ ToolOut(old) /\ \A j \in Replica : work[j].at = "write" => ToolOut(work[j].read)
      BY <2>11, <2>13 DEF old
    <3>2. ToolOut(new)
      BY <3>1, <2>5
    <3>3. ToolOut(tRow')
      BY <3>1, <3>2, <2>7 DEF ToolOut
    <3>4. QED
      BY <3>1, <3>3, <2>9, <2>10, <2>12, <2>17
  <2>14. CASE ~ToolHeld(held) /\ ToolHeld(held')
    <3>1. new.ingest = "changed" /\ old.ingest # "changed" /\ tRow'.status = "inactive"
      BY <2>8, <2>14
    <3>2. new.here /\ old.here /\ kind = "mcp"
      BY <3>1, <2>5
    <3>3. tRow.here
      BY <3>2, <2>11 DEF old
    <3>4. ToolOut(tRow')
      BY <3>1, <3>2, <3>3, <2>7 DEF ToolOut
    <3>5. \A j \in Replica : work'[j].at # "write"
      BY <3>2, <2>10, <2>11
    <3>6. QED
      BY <3>4, <3>5, <2>9, <2>12, <2>17
  <2>15. CASE ~ToolHeld(held')
    BY <2>15, <2>9, <2>12, <2>17
  <2>16. QED
    BY <2>13, <2>14, <2>15
<1>6. ASSUME NEW s \in {"active", "inactive"}, T!Patch(s) PROVE ToolRowsInv'
  <2>1. tRow' \in ToolRowType /\ tRow'.ingest = tRow.ingest /\ tRow'.here /\ tRow'.status = s
    BY <1>6 DEF T!Patch, ToolRowType
  <2>2. kind' = kind /\ work' = work
    BY <1>6 DEF T!Patch
  <2>3. CASE s = "active"
    <3>1. held' = "none"
      BY <1>6, <2>3 DEF T!Patch
    <3>2. QED
      BY <2>1, <2>2, <3>1, ToolOperatorStep
  <2>4. CASE s # "active" /\ held' = held
    <3>1. ToolHeld(held) => ToolOut(tRow')
      BY <2>1, <2>4 DEF ToolOut
    <3>2. QED
      BY <2>1, <2>2, <2>4, <3>1, ToolOperatorStep
  <2>5. CASE s # "active" /\ held' = "off" /\ tRow.ingest \notin {"missing", "agentoff"} /\ ~T!Mid
    <3>1. ToolOut(tRow')
      BY <2>1, <2>5 DEF ToolOut
    <3>2. QED
      BY <2>1, <2>2, <2>5, <3>1, ToolOperatorStep
  <2>6. CASE held' \in {"away", "raced"}
    BY <2>1, <2>2, <2>6, ToolOperatorStep DEF ToolHeld
  <2>7. QED
    BY <1>6, <2>3, <2>4, <2>5, <2>6 DEF T!Patch
<1>7. ASSUME NEW s \in {"active", "inactive"}, T!PatchAgent(s) PROVE ToolRowsInv'
  BY <1>7 DEF T!PatchAgent, ToolOut, ToolRowType, ToolMarks
<1>8. CASE T!Delete
  BY <1>8 DEF T!Delete, ToolOut, ToolRowType, ToolMarks
<1>9. CASE T!Restore
  BY <1>9 DEF T!Restore, ToolOut, ToolRowType, ToolMarks
<1>10. CASE T!Acknowledge
  <2> DEFINE in  == IF tRow.ingest = "changed" THEN "present" ELSE tRow.ingest
             st  == IF tRow.ingest = "changed" THEN "active" ELSE tRow.status
  <2>1. in \in ToolMarks /\ st \in {"active", "inactive"}
    BY DEF ToolRowType, ToolMarks
  <2>2. tRow' = [tRow EXCEPT !.flag = FALSE, !.ingest = in, !.status = st]
    BY <1>10 DEF T!Acknowledge
  <2> HIDE DEF in, st
  <2>3. tRow' \in ToolRowType /\ tRow'.here = tRow.here /\ tRow'.ingest = in /\ tRow'.status = st
    BY <2>1, <2>2 DEF ToolRowType
  <2> USE DEF in, st
  <2>4. CASE tRow.ingest = "changed"
    BY <1>10, <2>3, <2>4 DEF T!Acknowledge, ToolOut
  <2>5. CASE tRow.ingest # "changed"
    BY <1>10, <2>3, <2>5 DEF T!Acknowledge, ToolOut
  <2>6. QED
    BY <2>4, <2>5
<1>11. CASE UNCHANGED T!tvars
  BY <1>11 DEF T!tvars, ToolOut
<1>12. QED
  BY <1>1, <1>2, <1>3, <1>4, <1>5, <1>6, <1>7, <1>8, <1>9, <1>10, <1>11 DEF T!Next

\* OutUntilAllowed, however many replicas ingest: a tool that was in place when the
\* operator disabled it, with no ingest to write over him, or that the quarantine took
\* out, stays out until the operator allows it.
THEOREM ToolStaysOut == Spec => []OutUntilAllowed
<1>1. Init => ToolRowsInv
  BY ToolRowsInit DEF Init
<1>2. ToolRowsInv /\ [Next]_vars => ToolRowsInv'
  BY ToolRowsStep, OnePartMoves
<1>3. ToolRowsInv => OutUntilAllowed
  BY DEF OutUntilAllowed, ToolRowsInv, ToolOut, ToolHeld, T!OutUntilAllowed
<1>4. QED
  BY <1>1, <1>2, <1>3, PTL DEF Spec


-----------------------------------------------------------------------------
(* A remote agent's task (RemoteTasks) *)

RemoteState == {"none", "working", "asks", "auth", "completed", "failed", "canceled"}

RemoteTypes ==
  /\ remote \in [state : RemoteState, q : Nat]
  /\ row \in [state : RemoteState \cup {"parked", "unknown"}, delivered : BOOLEAN]
  /\ call \in [at : {"start", "send", "record", "wait", "ask", "gate", "reply", "over"}, passed : Nat]
  /\ poll \in [at : {"idle", "listed", "seen", "mark"}, saw : RemoteState]
  /\ cleanup \in BOOLEAN /\ told \in BOOLEAN /\ meddled \in BOOLEAN
  /\ gone \in BOOLEAN /\ died \in BOOLEAN
  /\ sends \in Nat

\* Until the drawer acts, nobody else touches the row of a call that is under way, and
\* what the call sent has an open row whenever it could be sent again.
RemoteOneOpenRow ==
  ~meddled =>
    /\ sends <= 1 /\ drawer = "idle"
    /\ call.at # "over" => ~cleanup /\ poll = A!NoPass /\ row.state # "parked"
    /\ call.at \in {"wait", "ask", "gate", "reply"} => row.state \in A!Open
    /\ call.at = "start" => sends = 0 \/ row.state \in A!Open
    /\ call.at = "send" => sends = 0

\* What is marked as delivered, or is about to be, has been told; so has the end of a
\* call that cleans up after itself.
RemoteToldFirst ==
  /\ row.delivered => told \/ gone
  /\ row.state \in A!Terminal \cup {"auth", "unknown"} => told \/ gone
  /\ cleanup => told
  /\ poll.at = "mark" /\ poll.saw # "asks" => told

RemoteInv == RemoteTypes /\ RemoteOneOpenRow /\ RemoteToldFirst /\ A!SentOnce /\ A!NotForgotten

-----------------------------------------------------------------------------
LEMMA RemoteInit == A!Init => RemoteInv
<1> SUFFICES ASSUME A!Init PROVE RemoteInv OBVIOUS
<1>1. RemoteTypes BY DEF A!Init, RemoteTypes, RemoteState, A!NoRow, A!NoPass
<1>2. RemoteOneOpenRow /\ RemoteToldFirst
  BY DEF A!Init, RemoteOneOpenRow, RemoteToldFirst, A!NoRow, A!NoPass, A!Terminal, A!Open
<1>3. A!SentOnce /\ A!NotForgotten BY DEF A!Init, A!SentOnce, A!NotForgotten
<1>4. QED BY <1>1, <1>2, <1>3 DEF RemoteInv

LEMMA RemoteStep == RemoteInv /\ [A!Next]_A!avars => RemoteInv'
<1> SUFFICES ASSUME RemoteInv, [A!Next]_A!avars PROVE RemoteInv'
  OBVIOUS
<1> USE DEF RemoteInv, RemoteTypes, RemoteState, RemoteOneOpenRow, RemoteToldFirst, A!SentOnce, A!NotForgotten, A!At, A!To, A!NoPass, A!NoRow, A!Open, A!Terminal, A!CancelAtAgent, A!Answered
<1>1. CASE A!AgentMoves
  BY <1>1 DEF A!AgentMoves
<1>2. CASE A!Lookup
  BY <1>2 DEF A!Lookup, A!Adopts
<1>3. CASE A!Send
  BY <1>3 DEF A!Send
<1>4. CASE A!Record
  BY <1>4 DEF A!Record
<1>5. CASE A!Asked
  BY <1>5 DEF A!Asked
<1>6. CASE A!Finished
  BY <1>6 DEF A!Finished
<1>7. CASE A!PortFails
  BY <1>7 DEF A!PortFails
<1>8. CASE A!TimesOut
  <2>1. call' = [at |-> "over", passed |-> call.passed] /\ call.at # "over"
        /\ UNCHANGED <<remote, decisions, poll, drawer, cleanup, sends, meddled, gone, died>>
    BY <1>8 DEF A!TimesOut
  <2>2. CASE call.at \in {"wait", "reply"} /\ row' = [row EXCEPT !.state = "parked"] /\ told' = told
    <3>1. row' = [state |-> "parked", delivered |-> row.delivered]
      BY <2>2
    <3>2. QED
      BY <2>1, <2>2, <3>1
  <2>3. CASE call.at \in {"wait", "reply"} /\ row' = [row EXCEPT !.state = "unknown"] /\ told' = TRUE
    <3>1. row' = [state |-> "unknown", delivered |-> row.delivered]
      BY <2>3
    <3>2. QED
      BY <2>1, <2>3, <3>1
  <2>4. CASE row' = row /\ told' = TRUE
    BY <2>1, <2>4
  <2>5. QED
    BY <1>8, <2>2, <2>3, <2>4 DEF A!TimesOut
<1>9. CASE A!Interrupt
  <2>1. call.at = "ask" /\ UNCHANGED <<decisions, poll, drawer, cleanup, sends, meddled, gone, died>>
    BY <1>9 DEF A!Interrupt
  <2>2. CASE call' = [call EXCEPT !.at = "gate"] /\ UNCHANGED <<remote, row, told>>
    BY <2>1, <2>2
  <2>3. CASE call' = [at |-> "reply", passed |-> call.passed + 1] /\ UNCHANGED <<remote, row, told>>
    BY <2>1, <2>3
  <2>4. CASE A!CancelAtAgent /\ row' = [row EXCEPT !.state = "canceled"] /\ told' = TRUE /\ A!To("over")
    <3>1. row' = [state |-> "canceled", delivered |-> row.delivered]
      BY <2>4
    <3>2. call' = [at |-> "over", passed |-> call.passed]
      BY <2>4
    <3>3. remote' \in [state : RemoteState, q : Nat]
      BY <2>4
    <3>4. QED
      BY <2>1, <2>4, <3>1, <3>2, <3>3
  <2>5. QED
    BY <1>9, <2>2, <2>3, <2>4 DEF A!Interrupt
<1>10. CASE A!Decide
  BY <1>10 DEF A!Decide
<1>11. CASE A!Reply
  <2>1. call.at = "reply" /\ UNCHANGED <<row, decisions, poll, drawer, cleanup, sends, meddled, gone, died>>
    BY <1>11 DEF A!Reply
  <2>2. CASE A!Answered /\ A!To("wait") /\ told' = told
    <3>1. call' = [at |-> "wait", passed |-> call.passed]
      BY <2>2
    <3>2. remote' \in [state : RemoteState, q : Nat]
      BY <2>2
    <3>3. QED
      BY <2>1, <2>2, <3>1, <3>2
  <2>3. CASE remote' = remote /\ A!To("over") /\ told' = TRUE
    <3>1. call' = [at |-> "over", passed |-> call.passed]
      BY <2>3
    <3>2. QED
      BY <2>1, <2>3, <3>1
  <2>4. QED
    BY <1>11, <2>2, <2>3 DEF A!Reply
<1>12. CASE A!Stop
  BY <1>12 DEF A!Stop
<1>13. CASE A!Cleanup
  <2>1. cleanup /\ cleanup' = FALSE /\ UNCHANGED <<call, decisions, poll, drawer, sends, told, meddled, gone, died>>
    BY <1>13 DEF A!Cleanup
  <2>2. told /\ (meddled \/ call.at = "over")
    BY <2>1
  <2>3. CASE UNCHANGED <<remote, row>>
    <3>1. remote' \in [state : RemoteState, q : Nat]
      BY <2>3
    <3>2. RemoteTypes'
      <4>1. (row \in [state : RemoteState \cup {"parked", "unknown"}, delivered : BOOLEAN])'
        BY <2>3
      <4>2. (/\ call \in [at : {"start", "send", "record", "wait", "ask", "gate", "reply", "over"}, passed : Nat]
             /\ poll \in [at : {"idle", "listed", "seen", "mark"}, saw : RemoteState])'
        BY <2>1
      <4>3. (cleanup \in BOOLEAN /\ told \in BOOLEAN /\ meddled \in BOOLEAN /\ sends \in Nat /\ gone \in BOOLEAN /\ died \in BOOLEAN)'
        BY <2>1
      <4>4. QED
        BY <3>1, <4>1, <4>2, <4>3
    <3>3. (RemoteToldFirst /\ A!SentOnce /\ A!NotForgotten)'
      BY <2>1, <2>2, <2>3
    <3>4. RemoteOneOpenRow'
      BY <2>1, <2>2, <2>3
    <3>5. QED
      BY <3>2, <3>3, <3>4
  <2>4. CASE A!CancelAtAgent /\ row' = row
    <3>1. remote' \in [state : RemoteState, q : Nat]
      BY <2>4
    <3>2. RemoteTypes'
      <4>1. (row \in [state : RemoteState \cup {"parked", "unknown"}, delivered : BOOLEAN])'
        BY <2>4
      <4>2. (/\ call \in [at : {"start", "send", "record", "wait", "ask", "gate", "reply", "over"}, passed : Nat]
             /\ poll \in [at : {"idle", "listed", "seen", "mark"}, saw : RemoteState])'
        BY <2>1
      <4>3. (cleanup \in BOOLEAN /\ told \in BOOLEAN /\ meddled \in BOOLEAN /\ sends \in Nat /\ gone \in BOOLEAN /\ died \in BOOLEAN)'
        BY <2>1
      <4>4. QED
        BY <3>1, <4>1, <4>2, <4>3
    <3>3. (RemoteToldFirst /\ A!SentOnce /\ A!NotForgotten)'
      BY <2>1, <2>2, <2>4
    <3>4. RemoteOneOpenRow'
      BY <2>1, <2>2, <2>4
    <3>5. QED
      BY <3>2, <3>3, <3>4
  <2>5. CASE A!CancelAtAgent /\ row' = [row EXCEPT !.state = "canceled"]
    <3>1. row' = [state |-> "canceled", delivered |-> row.delivered]
      BY <2>5
    <3>2. remote' \in [state : RemoteState, q : Nat]
      BY <2>5
    <3>3. row' \in [state : RemoteState \cup {"parked", "unknown"}, delivered : BOOLEAN]
      BY <3>1
    <3>4. RemoteTypes'
      BY <2>1, <3>2, <3>3
    <3>5. (RemoteToldFirst /\ A!SentOnce /\ A!NotForgotten)'
      BY <2>1, <2>2, <3>1
    <3>6. RemoteOneOpenRow'
      BY <2>1, <2>2, <3>1
    <3>7. QED
      BY <3>4, <3>5, <3>6
  <2>6. QED
    BY <1>13, <2>3, <2>4, <2>5 DEF A!Cleanup
<1>14. CASE A!Recheck
  <2>1. poll.at = "listed" /\ UNCHANGED <<remote, call, decisions, drawer, cleanup, sends, told, meddled, gone, died>>
    BY <1>14 DEF A!Recheck
  <2>2. ASSUME row' = row, NEW s \in RemoteState, poll' = [at |-> "seen", saw |-> s]
        PROVE  RemoteInv'
    BY <2>1, <2>2
  <2>3. CASE gone /\ row' = [state |-> "canceled", delivered |-> TRUE] /\ poll' = A!NoPass
    BY <2>1, <2>3
  <2>4. QED
    BY <1>14, <2>2, <2>3 DEF A!Recheck
<1>15. CASE A!Repark
  BY <1>15 DEF A!Repark
<1>16. CASE A!Deliver
  <2>1. poll.at = "seen" /\ poll' = [at |-> "mark", saw |-> poll.saw]
        /\ told' = (told \/ poll.saw \in A!Terminal) /\ poll.saw \in A!Terminal \cup {"asks"}
        /\ UNCHANGED <<remote, row, call, decisions, drawer, cleanup, sends, meddled, gone, died>>
    BY <1>16 DEF A!Deliver
  <2>2. told' \in BOOLEAN /\ (told => told') /\ (poll.saw # "asks" => told')
    BY <2>1
  <2>3. meddled \/ call.at = "over"
    BY <2>1
  <2>4. RemoteTypes'
    BY <2>1, <2>2
  <2>5. (RemoteToldFirst /\ A!SentOnce /\ A!NotForgotten)'
    BY <2>1, <2>2
  <2>6. RemoteOneOpenRow'
    BY <2>1, <2>3
  <2>7. QED
    BY <2>4, <2>5, <2>6
<1>17. CASE A!Mark
  <2>1. poll.at = "mark" /\ poll' = A!NoPass /\ meddled' = meddled
        /\ row' = [state |-> poll.saw, delivered |-> row.delivered \/ poll.saw # "asks"]
        /\ UNCHANGED <<remote, call, decisions, drawer, cleanup, sends, told, meddled, gone, died>>
    BY <1>17 DEF A!Mark
  <2>2. row' \in [state : RemoteState \cup {"parked", "unknown"}, delivered : BOOLEAN]
    BY <2>1
  <2>3. RemoteTypes'
    BY <2>1, <2>2
  <2>4. meddled \/ call.at = "over"
    BY <2>1
  <2>5. RemoteOneOpenRow'
    BY <2>1, <2>4
  <2>6. (poll.saw # "asks" => told) /\ (row.delivered => told \/ gone)
    BY <2>1
  <2>7. CASE poll.saw = "asks"
    <3>1. row'.state = "asks" /\ row'.delivered = row.delivered
      BY <2>1, <2>2, <2>7
    <3>2. (RemoteToldFirst /\ A!SentOnce /\ A!NotForgotten)'
      BY <2>1, <2>6, <3>1
    <3>3. QED
      BY <2>3, <2>5, <3>2
  <2>8. CASE poll.saw # "asks"
    <3>1. told /\ told'
      BY <2>1, <2>6, <2>8
    <3>2. (RemoteToldFirst /\ A!SentOnce /\ A!NotForgotten)'
      BY <2>1, <3>1
    <3>3. QED
      BY <2>3, <2>5, <3>2
  <2>9. QED
    BY <2>7, <2>8
<1>18. CASE A!PollStops
  BY <1>18 DEF A!PollStops
<1>19. CASE A!DrawerReply
  BY <1>19 DEF A!DrawerReply
<1>20. CASE A!DrawerReplied
  <2>1. drawer = "sent" /\ drawer' = "idle"
        /\ UNCHANGED <<remote, call, decisions, poll, cleanup, sends, meddled, gone, died>>
    BY <1>20 DEF A!DrawerReplied
  <2>2. meddled
    BY <2>1
  <2>3. CASE remote.state \in A!Terminal /\ row' = [state |-> remote.state, delivered |-> TRUE] /\ told' = TRUE
    BY <2>1, <2>2, <2>3
  <2>4. CASE row' = [row EXCEPT !.state = "asks"] /\ told' = told
    <3>1. row' = [state |-> "asks", delivered |-> row.delivered]
      BY <2>4
    <3>2. QED
      BY <2>1, <2>2, <2>4, <3>1
  <2>5. CASE row' = [row EXCEPT !.state = "parked"] /\ told' = told
    <3>1. row' = [state |-> "parked", delivered |-> row.delivered]
      BY <2>5
    <3>2. QED
      BY <2>1, <2>2, <2>5, <3>1
  <2>6. QED
    BY <1>20, <2>3, <2>4, <2>5 DEF A!DrawerReplied
<1>21. CASE A!DrawerCancel
  BY <1>21 DEF A!DrawerCancel
<1>22. CASE UNCHANGED A!avars
  BY <1>22 DEF A!avars
<1>23. CASE A!List
  BY <1>23 DEF A!List
<1>24. CASE A!LookupFails
  BY <1>24 DEF A!LookupFails
<1>25. CASE A!DrawerFails
  BY <1>25 DEF A!DrawerFails
<1>26. CASE A!DeleteAgent
  BY <1>26 DEF A!DeleteAgent
<1>27. CASE A!Die
  BY <1>27 DEF A!Die
<1>28. QED
  BY <1>1, <1>2, <1>3, <1>4, <1>5, <1>6, <1>7, <1>8, <1>9, <1>10, <1>11, <1>12, <1>13, <1>14, <1>15,
     <1>16, <1>17, <1>18, <1>19, <1>20, <1>21, <1>22,
     <1>23, <1>24, <1>25, <1>26, <1>27 DEF A!Next

\* SentOnce, however often the run pauses, is replayed, times out or is stopped: until
\* the drawer closes its row, what a call sent has an open row whenever the call could
\* send again (find_open_task).
THEOREM AdoptedNotResent == Spec => []SentOnce
<1>1. Init => RemoteInv
  BY RemoteInit DEF Init
<1>2. RemoteInv /\ [Next]_vars => RemoteInv'
  BY RemoteStep, OnePartMoves
<1>3. RemoteInv => SentOnce
  BY DEF SentOnce, RemoteInv, A!SentOnce
<1>4. QED
  BY <1>1, <1>2, <1>3, PTL DEF Spec

\* NotForgotten, with the call, the poller, the drawer and a late cancellation writing
\* the same row: whoever closes it without a successor has told somebody (_settle,
\* the poller's delivery, task_reply, task_cancel), but the poller that finds the agent
\* deleted; and a row stays open for nobody only if its call died.
THEOREM NeverForgotten == Spec => []NotForgotten
<1>1. Init => RemoteInv
  BY RemoteInit DEF Init
<1>2. RemoteInv /\ [Next]_vars => RemoteInv'
  BY RemoteStep, OnePartMoves
<1>3. RemoteInv => NotForgotten
  BY DEF NotForgotten, RemoteInv, A!NotForgotten
<1>4. QED
  BY <1>1, <1>2, <1>3, PTL DEF Spec


-----------------------------------------------------------------------------
(* The graph of a plan (GraphRun) *)

GraphTasks == {"idle", "enter", "going", "asking", "paused", "done"}
GraphThreads == [done : Nat, gates : Nat, is : {"new", "pending", "ok", "denied", "error"}]

GraphTypes ==
  /\ task \in [Entry -> GraphTasks] /\ worker \in [Entry -> GraphThreads]
  /\ runs \in [Entry -> Nat] /\ steps \in [Entry -> Nat]
  /\ gMet \in [Entry -> Nat] /\ DOMAIN output = Entry

\* A thread has as many nodes behind it as were run, and where its dispatch is says
\* how it stands; what is about to be dispatched anew has not run, unless it is direct.
GraphEntryOK(e) ==
  /\ e \notin Direct => runs[e] = worker[e].done /\ steps[e] <= 1
  /\ worker[e].done <= Len(Nodes[e])
  /\ e \in Direct => worker[e].gates = 0
  /\ worker[e].is = "pending" => worker[e].done < Len(Nodes[e]) /\ G!NextNode(e) # "skill"
  /\ task[e] \in {"asking", "paused"} => worker[e].is = "pending"
  /\ task[e] = "going" => worker[e].is = "new"
  /\ task[e] = "done" => worker[e].is \in {"ok", "denied", "error"}
  /\ task[e] = "enter" => worker[e].is \in {"ok", "denied", "pending"} \/ worker[e] = G!Fresh
  /\ output[e] = "none" /\ (at # "dispatch" \/ task[e] = "idle") => worker[e] = G!Fresh

GraphInv == GraphTypes /\ \A e \in Entry : GraphEntryOK(e)

-----------------------------------------------------------------------------
LEMMA GraphInit == G!Init => GraphInv
<1> SUFFICES ASSUME G!Init PROVE GraphInv OBVIOUS
<1>1. GraphTypes BY DEF G!Init, GraphTypes, GraphTasks, GraphThreads, G!Fresh
<1>2. ASSUME NEW e \in Entry PROVE GraphEntryOK(e)
  <2>1. Len(Nodes[e]) \in Nat BY WorkersAreLists
  <2>2. QED BY <2>1 DEF G!Init, GraphEntryOK, G!Fresh
<1>3. QED BY <1>1, <1>2 DEF GraphInv

\* A step of one entry's dispatch.
GraphDispatches(e) ==
  /\ at = "dispatch" /\ UNCHANGED <<at, output>>
  /\ \A x \in Entry : x # e =>
       task'[x] = task[x] /\ worker'[x] = worker[x] /\ runs'[x] = runs[x] /\ steps'[x] = steps[x]

LEMMA GraphOneEntryMoves ==
  ASSUME GraphInv, GraphTypes', NEW e \in Entry, GraphDispatches(e),
         /\ e \notin Direct => runs'[e] = worker'[e].done /\ steps'[e] <= 1
         /\ worker'[e].done <= Len(Nodes[e])
         /\ e \in Direct => worker'[e].gates = 0
         /\ worker'[e].is = "pending" =>
              worker'[e].done < Len(Nodes[e]) /\ Nodes[e][worker'[e].done + 1] # "skill"
         /\ task'[e] \in {"asking", "paused"} => worker'[e].is = "pending"
         /\ task'[e] = "going" => worker'[e].is = "new"
         /\ task'[e] = "done" => worker'[e].is \in {"ok", "denied", "error"}
         /\ task'[e] \notin {"enter", "idle"}
  PROVE  GraphInv'
<1>1. GraphEntryOK(e)' BY DEF GraphEntryOK, G!NextNode, GraphDispatches
<1>2. ASSUME NEW x \in Entry, x # e PROVE GraphEntryOK(x)'
  <2>1. task'[x] = task[x] /\ worker'[x] = worker[x] /\ runs'[x] = runs[x] /\ steps'[x] = steps[x]
    BY <1>2 DEF GraphDispatches
  <2>2. GraphEntryOK(x) BY DEF GraphInv
  <2>3. QED BY <2>1, <2>2 DEF GraphEntryOK, G!NextNode, GraphDispatches
<1>3. QED BY <1>1, <1>2 DEF GraphInv

\* Steps of the graph around the dispatches.
LEMMA GraphAroundDispatches ==
  ASSUME GraphInv, UNCHANGED <<task, worker, runs, steps, gMet>>, DOMAIN output' = Entry,
         at' # "dispatch", at # "dispatch",
         \A e \in Entry : output'[e] = "none" => output[e] = "none"
  PROVE  GraphInv'
<1>1. GraphTypes' BY DEF GraphInv, GraphTypes
<1>2. ASSUME NEW e \in Entry PROVE GraphEntryOK(e)'
  BY DEF GraphInv, GraphEntryOK, G!NextNode
<1>3. QED BY <1>1, <1>2 DEF GraphInv

LEMMA GraphStep == GraphInv /\ [G!Next]_G!gvars => GraphInv'
<1> SUFFICES ASSUME GraphInv, [G!Next]_G!gvars PROVE GraphInv'
  OBVIOUS
<1>1. \A e \in Entry : GraphEntryOK(e) /\ Len(Nodes[e]) \in Nat
  BY WorkersAreLists DEF GraphInv
<1>2. CASE G!PlanNode \/ G!FallbackNode \/ G!AggregateNode \/ G!ResolveNode
  <2>1. UNCHANGED <<task, worker, runs, steps, gMet>>
    BY <1>2 DEF G!PlanNode, G!FallbackNode, G!AggregateNode, G!ResolveNode, G!UNCHANGEDDispatches
  <2>2. at # "dispatch" /\ at' # "dispatch"
    BY <1>2 DEF G!PlanNode, G!FallbackNode, G!AggregateNode, G!ResolveNode
  <2>3. output' = output \/ \E es : output' = [e \in Entry |-> IF e \in es THEN "error" ELSE output[e]]
    BY <1>2 DEF G!PlanNode, G!FallbackNode, G!AggregateNode, G!ResolveNode
  <2>4. DOMAIN output' = Entry /\ \A e \in Entry : output'[e] = "none" => output[e] = "none"
    BY <2>3 DEF GraphInv, GraphTypes
  <2>5. QED BY <2>1, <2>2, <2>4, GraphAroundDispatches
<1>3. CASE G!Coordinate
  <2>1. at = "coordinate" /\ UNCHANGED <<output, worker, gMet, runs, steps>>
    BY <1>3 DEF G!Coordinate
  <2>2. CASE at' = "aggregate" /\ UNCHANGED task
    BY <2>1, <2>2, GraphAroundDispatches DEF GraphInv, GraphTypes
  <2>3. CASE at' = "dispatch" /\ task' = [e \in Entry |-> IF e \in G!Batch THEN "enter" ELSE "idle"]
    <3>1. GraphTypes' BY <2>1, <2>3 DEF GraphInv, GraphTypes, GraphTasks
    <3>2. ASSUME NEW e \in Entry PROVE GraphEntryOK(e)'
      <4>1. e \in G!Batch => output[e] = "none" BY DEF G!Batch, G!Ready, G!Pending
      <4>2. task'[e] = IF e \in G!Batch THEN "enter" ELSE "idle" BY <2>3
      <4>3. output[e] = "none" => worker[e] = G!Fresh BY <1>1, <2>1 DEF GraphEntryOK
      <4>4. QED BY <1>1, <2>1, <2>3, <4>1, <4>2, <4>3 DEF GraphEntryOK, G!NextNode
    <3>3. QED BY <3>1, <3>2 DEF GraphInv
  <2>4. QED BY <1>3, <2>2, <2>3 DEF G!Coordinate
<1>4. ASSUME NEW e \in Entry, G!Enter(e) PROVE GraphInv'
  <2> DEFINE n == IF G!Adopts(e) THEN steps[e] ELSE steps[e] + 1
  <2>1. /\ at = "dispatch" /\ task[e] = "enter" /\ UNCHANGED <<at, output, runs>>
        /\ steps' = [steps EXCEPT ![e] = n]
    BY <1>4 DEF G!Enter
  <2>2. n \in Nat /\ (e \notin Direct => n <= 1)
    BY <1>1 DEF GraphEntryOK, G!Adopts, GraphInv, GraphTypes
  <2> HIDE DEF n
  <2>3. GraphEntryOK(e) /\ worker[e] \in GraphThreads /\ runs[e] \in Nat /\ gMet[e] \in Nat
    BY <1>1 DEF GraphInv, GraphTypes
  <2>4. CASE G!ReadsBack(e)
    <3>1. task' = [task EXCEPT ![e] = "done"] /\ UNCHANGED <<worker, gMet>>
      BY <1>4, <2>4 DEF G!Enter, G!ReadsBack
    <3>2. worker[e].is \in {"ok", "denied"} BY <2>4 DEF G!ReadsBack
    <3>3. GraphTypes' /\ GraphDispatches(e) /\ steps'[e] = n /\ task'[e] = "done"
      BY <2>1, <2>2, <3>1 DEF GraphInv, GraphTypes, GraphTasks, GraphDispatches
    <3>4. QED BY <2>1, <2>2, <2>3, <3>1, <3>2, <3>3, GraphOneEntryMoves DEF GraphEntryOK
  <2>5. CASE worker[e].is = "pending"
    <3>1. /\ task' = [task EXCEPT ![e] = "asking"] /\ UNCHANGED worker
          /\ gMet' = [gMet EXCEPT ![e] = worker[e].gates]
      BY <1>4, <2>5 DEF G!Enter, G!ReadsBack, G!Burned
    <3>2. worker[e].gates \in Nat BY <2>3 DEF GraphThreads
    <3>3. GraphTypes' /\ GraphDispatches(e) /\ steps'[e] = n /\ task'[e] = "asking"
      BY <2>1, <2>2, <3>1, <3>2 DEF GraphInv, GraphTypes, GraphTasks, GraphDispatches
    <3>4. QED BY <2>1, <2>2, <2>3, <2>5, <3>1, <3>3, GraphOneEntryMoves DEF GraphEntryOK, G!NextNode
  <2>6. CASE ~G!ReadsBack(e) /\ worker[e].is # "pending"
    <3>1. /\ task' = [task EXCEPT ![e] = "going"] /\ worker' = [worker EXCEPT ![e] = G!Fresh]
          /\ gMet' = [gMet EXCEPT ![e] = 0]
      BY <1>4, <2>6 DEF G!Enter, G!ReadsBack
    <3>2. e \notin Direct => worker[e] = G!Fresh BY <2>1, <2>3, <2>6 DEF GraphEntryOK, G!ReadsBack
    <3>3. /\ e \notin Direct => runs[e] = 0
          /\ G!Fresh \in GraphThreads /\ G!Fresh.done = 0 /\ G!Fresh.is = "new" /\ G!Fresh.gates = 0
      BY <2>3, <3>2 DEF GraphEntryOK, G!Fresh, GraphThreads
    <3>4. /\ GraphTypes' /\ GraphDispatches(e)
          /\ steps'[e] = n /\ task'[e] = "going" /\ worker'[e] = G!Fresh /\ runs'[e] = runs[e]
      BY <2>1, <2>2, <3>1, <3>3 DEF GraphInv, GraphTypes, GraphTasks, GraphDispatches
    <3>5. QED BY <1>1, <2>2, <3>3, <3>4, GraphOneEntryMoves
  <2>7. QED BY <2>4, <2>5, <2>6
<1>5. ASSUME NEW e \in Entry, G!WorkerStep(e) PROVE GraphInv'
  <2>1. /\ at = "dispatch" /\ task[e] = "going" /\ worker[e].done < Len(Nodes[e])
        /\ UNCHANGED <<at, output, gMet, steps>>
    BY <1>5 DEF G!WorkerStep
  <2>2. GraphEntryOK(e) /\ worker[e] \in GraphThreads /\ runs[e] \in Nat /\ gMet[e] \in Nat /\ steps[e] \in Nat
    BY <1>1 DEF GraphInv, GraphTypes
  <2>3. \A is : [worker[e] EXCEPT !.is = is] = [done |-> worker[e].done, gates |-> worker[e].gates, is |-> is]
    BY <2>2 DEF GraphThreads
  <2>4. CASE /\ worker' = [worker EXCEPT ![e].done = @ + 1]
             /\ runs' = [runs EXCEPT ![e] = @ + 1] /\ UNCHANGED task
    <3> DEFINE w == [done |-> worker[e].done + 1, gates |-> worker[e].gates, is |-> "new"]
    <3>1. [worker[e] EXCEPT !.done = worker[e].done + 1] = w
      BY <2>1, <2>2 DEF GraphThreads, GraphEntryOK
    <3>2. worker' = [worker EXCEPT ![e] = w]
      BY <2>4, <3>1
    <3>3. w \in GraphThreads /\ w.done = worker[e].done + 1 /\ w.is = "new" /\ w.gates = worker[e].gates
      BY <2>2 DEF GraphThreads
    <3> HIDE DEF w
    <3>4. /\ runs[e] + 1 \in Nat /\ w.done <= Len(Nodes[e])
          /\ e \notin Direct => runs[e] + 1 = w.done /\ steps[e] <= 1
          /\ e \in Direct => w.gates = 0
      BY <1>1, <2>1, <2>2, <3>3 DEF GraphEntryOK, GraphThreads
    <3>5. /\ GraphTypes' /\ GraphDispatches(e)
          /\ steps'[e] = steps[e] /\ task'[e] = "going" /\ worker'[e] = w /\ runs'[e] = runs[e] + 1
      BY <2>1, <2>4, <3>2, <3>3, <3>4 DEF GraphInv, GraphTypes, GraphDispatches
    <3>6. QED BY <3>3, <3>4, <3>5, GraphOneEntryMoves
  <2>5. ASSUME NEW is \in {"error", "pending"}, is = "pending" => G!NextNode(e) # "skill",
               worker' = [worker EXCEPT ![e].is = is], UNCHANGED runs,
               task' = [task EXCEPT ![e] = IF is = "error" THEN "done" ELSE "asking"]
        PROVE  GraphInv'
    <3> DEFINE w == [done |-> worker[e].done, gates |-> worker[e].gates, is |-> is]
    <3>1. worker' = [worker EXCEPT ![e] = w] BY <2>3, <2>5
    <3>2. w \in GraphThreads /\ w.done = worker[e].done /\ w.is = is /\ w.gates = worker[e].gates
      BY <2>2 DEF GraphThreads
    <3> HIDE DEF w
    <3>3. /\ w.done < Len(Nodes[e]) /\ w.done <= Len(Nodes[e])
          /\ e \notin Direct => runs[e] = w.done /\ steps[e] <= 1
          /\ e \in Direct => w.gates = 0
      BY <1>1, <2>1, <2>2, <3>2 DEF GraphEntryOK, GraphThreads
    <3>4. w.is = "pending" => Nodes[e][w.done + 1] # "skill" BY <2>5, <3>2 DEF G!NextNode
    <3>5. /\ GraphTypes' /\ GraphDispatches(e) /\ steps'[e] = steps[e]
          /\ task'[e] = (IF is = "error" THEN "done" ELSE "asking") /\ worker'[e] = w /\ runs'[e] = runs[e]
      BY <2>1, <2>5, <3>1, <3>2 DEF GraphInv, GraphTypes, GraphTasks, GraphDispatches
    <3>6. QED BY <3>2, <3>3, <3>4, <3>5, GraphOneEntryMoves
  <2>6. QED BY <1>5, <2>4, <2>5 DEF G!WorkerStep
<1>6. ASSUME NEW e \in Entry, G!WorkerEnds(e) PROVE GraphInv'
  <2>1. /\ at = "dispatch" /\ task[e] = "going" /\ UNCHANGED <<at, output, gMet, runs, steps>>
        /\ worker' = [worker EXCEPT ![e].is = "ok"] /\ task' = [task EXCEPT ![e] = "done"]
    BY <1>6 DEF G!WorkerEnds
  <2>2. GraphEntryOK(e) /\ worker[e] \in GraphThreads /\ runs[e] \in Nat /\ gMet[e] \in Nat /\ steps[e] \in Nat
    BY <1>1 DEF GraphInv, GraphTypes
  <2> DEFINE w == [done |-> worker[e].done, gates |-> worker[e].gates, is |-> "ok"]
  <2>3. [worker[e] EXCEPT !.is = "ok"] = w BY <2>2 DEF GraphThreads
  <2>4. worker' = [worker EXCEPT ![e] = w] BY <2>3, <2>1
  <2>5. w \in GraphThreads /\ w.done = worker[e].done /\ w.is = "ok" /\ w.gates = worker[e].gates
    BY <2>2 DEF GraphThreads
  <2> HIDE DEF w
  <2>6. /\ GraphTypes' /\ GraphDispatches(e)
        /\ steps'[e] = steps[e] /\ task'[e] = "done" /\ worker'[e] = w /\ runs'[e] = runs[e]
    BY <2>1, <2>4, <2>5 DEF GraphInv, GraphTypes, GraphTasks, GraphDispatches
  <2>7. QED BY <2>2, <2>5, <2>6, GraphOneEntryMoves DEF GraphEntryOK
<1>7. ASSUME NEW e \in Entry, G!Ask(e) PROVE GraphInv'
  <2>1. at = "dispatch" /\ task[e] = "asking" /\ UNCHANGED <<at, output, steps>>
    BY <1>7 DEF G!Ask
  <2>2. GraphEntryOK(e) /\ worker[e] \in GraphThreads /\ runs[e] \in Nat /\ gMet[e] \in Nat /\ steps[e] \in Nat
    BY <1>1 DEF GraphInv, GraphTypes
  <2>3. worker[e].is = "pending" /\ worker[e].done < Len(Nodes[e]) /\ G!NextNode(e) # "skill"
    BY <2>1, <2>2 DEF GraphEntryOK
  <2>4. e \notin Direct
    <3>1. worker[e].done \in Nat BY <2>2 DEF GraphThreads
    <3>2. ASSUME e \in Direct PROVE FALSE
      <4>1. Nodes[e] = <<"skill">> BY <3>2, WorkersAreLists
      <4>2. worker[e].done = 0 BY <2>3, <3>1, <4>1
      <4>3. QED BY <2>3, <4>1, <4>2 DEF G!NextNode
    <3>3. QED BY <3>2
  <2>5. CASE gMet[e] < Len(answers[e])
    <3> DEFINE denied == G!NextNode(e) = "gate" /\ posts[answers[e][gMet[e] + 1]].verdict = "deny"
               w == [done |-> worker[e].done + 1, gates |-> worker[e].gates + (IF G!NextNode(e) = "gate" THEN 1 ELSE 0),
                     is |-> IF denied THEN "denied" ELSE "new"]
               t == IF denied THEN "done" ELSE "going"
    <3>1. /\ gMet' = [gMet EXCEPT ![e] = gMet[e] + 1] /\ runs' = [runs EXCEPT ![e] = runs[e] + 1]
          /\ worker' = [worker EXCEPT ![e] = w] /\ task' = [task EXCEPT ![e] = t]
      BY <1>7, <2>5 DEF G!Ask
    <3>2. worker[e].done \in Nat /\ worker[e].gates \in Nat BY <2>2 DEF GraphThreads
    <3>3. worker[e].gates + (IF G!NextNode(e) = "gate" THEN 1 ELSE 0) \in Nat BY <3>2
    <3>4. w \in GraphThreads /\ w.done = worker[e].done + 1 /\ t \in {"done", "going"}
          /\ w.is = (IF t = "done" THEN "denied" ELSE "new")
      BY <3>2, <3>3 DEF GraphThreads
    <3> HIDE DEF w, t, denied
    <3>5. runs[e] + 1 = w.done /\ runs[e] + 1 \in Nat /\ gMet[e] + 1 \in Nat /\ w.done <= Len(Nodes[e]) /\ steps[e] <= 1
      BY <1>1, <2>2, <2>3, <2>4, <3>2, <3>4 DEF GraphEntryOK
    <3>6. /\ GraphTypes' /\ GraphDispatches(e)
          /\ steps'[e] = steps[e] /\ task'[e] = t /\ worker'[e] = w /\ runs'[e] = runs[e] + 1
      BY <2>1, <3>1, <3>4, <3>5 DEF GraphInv, GraphTypes, GraphTasks, GraphDispatches
    <3>7. QED BY <2>4, <3>4, <3>5, <3>6, GraphOneEntryMoves
  <2>6. CASE ~(gMet[e] < Len(answers[e]))
    <3>1. task' = [task EXCEPT ![e] = "paused"] /\ UNCHANGED <<gMet, runs, worker>>
      BY <1>7, <2>6 DEF G!Ask
    <3>2. GraphTypes' /\ GraphDispatches(e) /\ task'[e] = "paused"
      BY <2>1, <3>1 DEF GraphInv, GraphTypes, GraphTasks, GraphDispatches
    <3>3. QED BY <2>1, <2>2, <2>3, <3>1, <3>2, GraphOneEntryMoves DEF GraphEntryOK, G!NextNode
  <2>7. QED BY <2>5, <2>6
<1>8. CASE G!Superstep
  <2>1. at = "dispatch" /\ G!Settled /\ UNCHANGED <<task, worker, gMet, runs, steps>>
    BY <1>8 DEF G!Superstep
  <2>2. CASE /\ G!Waiting = {} /\ at' = "coordinate"
             /\ output' = [e \in Entry |-> IF task[e] = "done" THEN worker[e].is ELSE output[e]]
    <3>1. GraphTypes' BY <2>1, <2>2 DEF GraphInv, GraphTypes
    <3>2. ASSUME NEW e \in Entry PROVE GraphEntryOK(e)'
      <4>1. task[e] \in {"idle", "done"} BY <2>1, <2>2 DEF G!Settled, G!Waiting
      <4>2. output'[e] = IF task[e] = "done" THEN worker[e].is ELSE output[e] BY <2>2
      <4>3. output'[e] = "none" => worker[e] = G!Fresh
        BY <1>1, <4>1, <4>2 DEF GraphEntryOK
      <4>4. QED BY <1>1, <2>1, <2>2, <4>1, <4>3 DEF GraphEntryOK, G!NextNode
    <3>3. QED BY <3>1, <3>2 DEF GraphInv
  <2>3. CASE UNCHANGED <<at, output>>
    <3>1. GraphTypes' BY <2>1, <2>3 DEF GraphInv, GraphTypes
    <3>2. ASSUME NEW e \in Entry PROVE GraphEntryOK(e)'
      BY <1>1, <2>1, <2>3 DEF GraphEntryOK, G!NextNode
    <3>3. QED BY <3>1, <3>2 DEF GraphInv
  <2>4. QED BY <1>8, <2>2, <2>3 DEF G!Superstep
<1>9. CASE G!Post
  <2>1. UNCHANGED <<at, output, worker, gMet, runs, steps>> BY <1>9 DEF G!Post
  <2>2. PICK again \in SUBSET {e \in Entry : task[e] = "done" /\ worker[e].is # "error"} :
          task' = [e \in Entry |-> IF e \in G!Waiting \cup again THEN "enter" ELSE task[e]]
    BY <1>9 DEF G!Post
  <2>3. GraphTypes' BY <2>1, <2>2 DEF GraphInv, GraphTypes, GraphTasks
  <2>4. ASSUME NEW e \in Entry PROVE GraphEntryOK(e)'
    <3>1. CASE e \in G!Waiting \cup again
      <4>1. task'[e] = "enter" BY <2>2, <3>1
      <4>2. worker[e].is \in {"ok", "denied", "pending"}
        BY <1>1, <2>2, <3>1 DEF GraphEntryOK, G!Waiting
      <4>3. task[e] # "idle" BY <2>2, <3>1 DEF G!Waiting
      <4>4. QED BY <1>1, <2>1, <4>1, <4>2, <4>3 DEF GraphEntryOK, G!NextNode
    <3>2. CASE e \notin G!Waiting \cup again
      <4>1. task'[e] = task[e] BY <2>2, <3>2
      <4>2. QED BY <1>1, <2>1, <4>1 DEF GraphEntryOK, G!NextNode
    <3>3. QED BY <3>1, <3>2
  <2>5. QED BY <2>3, <2>4 DEF GraphInv
<1>10. CASE UNCHANGED G!gvars
  <2>1. UNCHANGED <<at, output, task, worker, gMet, runs, steps>> BY <1>10 DEF G!gvars
  <2>2. GraphTypes' BY <2>1 DEF GraphInv, GraphTypes
  <2>3. ASSUME NEW e \in Entry PROVE GraphEntryOK(e)' BY <1>1, <2>1 DEF GraphEntryOK, G!NextNode
  <2>4. QED BY <2>2, <2>3 DEF GraphInv
<1>11. QED
  BY <1>2, <1>3, <1>4, <1>5, <1>6, <1>7, <1>8, <1>9, <1>10 DEF G!Next

-----------------------------------------------------------------------------
\* The nodes left to e's worker ask nothing.
GraphOnlySkills(e) ==
  \A j \in DOMAIN Nodes[e] : worker[e].done < j => Nodes[e][j] = "skill"

\* The entry an answer's gate belongs to.
GraphOf(u) == u[2][1]

GraphPostTypes ==
  /\ posts \in Seq({posts[i] : i \in DOMAIN posts})
  /\ answers \in [Entry -> Seq(Nat)]

\* A post is an answer of one dispatch, in one place.
GraphEachOnce ==
  /\ \A e \in Entry : \A i \in DOMAIN answers[e] : answers[e][i] <= Len(posts)
  /\ \A e, f \in Entry : \A i \in DOMAIN answers[e], j \in DOMAIN answers[f] :
       answers[e][i] = answers[f][j] => e = f /\ i = j

\* A worker that goes on has met its gates' interrupts, and no other if it is to
\* meet one more.
GraphMetOK(e) == task[e] \in {"going", "asking"} => gMet[e] = worker[e].gates \/ GraphOnlySkills(e)

\* A worker's answers were taken in their order, and those taken are behind its
\* gates, or nothing is left that takes one.
GraphUsedOK(u) ==
  /\ GraphOf(u) \in Entry
  /\ \E i \in DOMAIN answers[GraphOf(u)] :
       u[1] = answers[GraphOf(u)][i] /\ (i <= worker[GraphOf(u)].gates \/ GraphOnlySkills(GraphOf(u)))

GraphPostInv ==
  /\ GraphPostTypes /\ GraphEachOnce
  /\ \A e \in Entry : GraphMetOK(e)
  /\ \A u \in used : GraphUsedOK(u)
  /\ G!OnePostOneGate

LEMMA GraphPostInit == G!Init => GraphPostInv
<1> SUFFICES ASSUME G!Init PROVE GraphPostInv OBVIOUS
<1>1. /\ posts = <<>> /\ used = {} /\ answers = [e \in Entry |-> <<>>] /\ task = [e \in Entry |-> "idle"]
  BY DEF G!Init
<1>2. GraphPostTypes BY <1>1 DEF GraphPostTypes
<1>3. GraphEachOnce BY <1>1 DEF GraphEachOnce
<1>4. QED BY <1>1, <1>2, <1>3 DEF GraphPostInv, GraphMetOK, G!OnePostOneGate

\* Nothing is posted or taken; the threads that move keep the gates behind them, and
\* a worker that asks nothing more goes on to ask nothing.
LEMMA GraphTakesNothing ==
  ASSUME GraphPostInv, GraphTypes, UNCHANGED <<posts, answers, used>>,
         \A e \in Entry :
           /\ worker'[e].gates = worker[e].gates
           /\ GraphOnlySkills(e) => GraphOnlySkills(e)'
           /\ GraphMetOK(e)'
  PROVE  GraphPostInv'
<1>1. GraphPostTypes' BY DEF GraphPostInv, GraphPostTypes
<1>2. GraphEachOnce' BY DEF GraphPostInv, GraphEachOnce
<1>3. ASSUME NEW u \in used PROVE GraphUsedOK(u)'
  <2>1. GraphUsedOK(u) BY DEF GraphPostInv
  <2>2. GraphOf(u) \in Entry BY <2>1 DEF GraphUsedOK
  <2>3. PICK i \in DOMAIN answers[GraphOf(u)] :
          u[1] = answers[GraphOf(u)][i] /\ (i <= worker[GraphOf(u)].gates \/ GraphOnlySkills(GraphOf(u)))
    BY <2>1 DEF GraphUsedOK
  <2>4. worker'[GraphOf(u)].gates = worker[GraphOf(u)].gates /\ (GraphOnlySkills(GraphOf(u)) => GraphOnlySkills(GraphOf(u))')
    BY <2>2
  <2>5. GraphOf(u)' = GraphOf(u) BY DEF GraphOf
  <2>6. QED BY <2>2, <2>3, <2>4, <2>5 DEF GraphUsedOK
<1>4. G!OnePostOneGate' BY DEF GraphPostInv, G!OnePostOneGate
<1>5. QED BY <1>1, <1>2, <1>3, <1>4 DEF GraphPostInv

LEMMA GraphPostStep == G!AsksLast /\ GraphInv /\ GraphPostInv /\ [G!Next]_G!gvars => GraphPostInv'
<1> SUFFICES ASSUME G!AsksLast, GraphInv, GraphPostInv, [G!Next]_G!gvars PROVE GraphPostInv'
  OBVIOUS
<1>1. \A e \in Entry : GraphEntryOK(e) /\ GraphMetOK(e) /\ worker[e] \in GraphThreads /\ Len(Nodes[e]) \in Nat
  BY WorkersAreLists DEF GraphInv, GraphTypes, GraphPostInv
<1>2. GraphTypes BY DEF GraphInv
<1>3. CASE G!PlanNode \/ G!FallbackNode \/ G!AggregateNode \/ G!ResolveNode \/ G!Superstep \/ UNCHANGED G!gvars
  <2>1. UNCHANGED <<posts, answers, used, worker, task, gMet>>
    BY <1>3 DEF G!PlanNode, G!FallbackNode, G!AggregateNode, G!ResolveNode, G!Superstep,
       G!UNCHANGEDDispatches, G!gvars
  <2>2. \A e \in Entry : (GraphOnlySkills(e) => GraphOnlySkills(e)') /\ GraphMetOK(e)'
    BY <1>1, <2>1 DEF GraphOnlySkills, GraphMetOK
  <2>3. QED BY <1>2, <2>1, <2>2, GraphTakesNothing
<1>4. CASE G!Coordinate
  <2>1. UNCHANGED <<posts, answers, used, worker, gMet>> BY <1>4 DEF G!Coordinate
  <2>2. \A e \in Entry : GraphOnlySkills(e) => GraphOnlySkills(e)' BY <2>1 DEF GraphOnlySkills
  <2>3. task' = task \/ \A e \in Entry : task'[e] \in {"enter", "idle"}
    BY <1>4 DEF G!Coordinate
  <2>4. \A e \in Entry : GraphMetOK(e)' BY <1>1, <2>1, <2>2, <2>3 DEF GraphMetOK
  <2>5. QED BY <1>2, <2>1, <2>2, <2>4, GraphTakesNothing
<1>5. ASSUME NEW e \in Entry, G!Enter(e) PROVE GraphPostInv'
  <2>1. task[e] = "enter" /\ UNCHANGED <<posts, answers, used>> BY <1>5 DEF G!Enter
  <2>2. /\ \A x \in Entry : worker'[x].gates = worker[x].gates
        /\ \A x \in Entry : x # e \/ e \notin Direct => worker'[x] = worker[x]
        /\ \A x \in Entry : x # e => task'[x] = task[x] /\ gMet'[x] = gMet[x]
        /\ \/ task'[e] = "done"
           \/ task'[e] \in {"asking", "going"} /\ gMet'[e] = worker[e].gates
    <3>1. CASE G!ReadsBack(e)
      <4>1. task' = [task EXCEPT ![e] = "done"] /\ UNCHANGED <<worker, gMet>>
        BY <1>5, <3>1 DEF G!Enter, G!ReadsBack
      <4>2. QED BY <1>2, <4>1 DEF GraphTypes
    <3>2. CASE worker[e].is = "pending"
      <4>1. /\ task' = [task EXCEPT ![e] = "asking"] /\ UNCHANGED worker
            /\ gMet' = [gMet EXCEPT ![e] = worker[e].gates]
        BY <1>5, <3>2 DEF G!Enter, G!ReadsBack, G!Burned
      <4>2. QED BY <1>2, <4>1 DEF GraphTypes
    <3>3. CASE ~G!ReadsBack(e) /\ worker[e].is # "pending"
      <4>1. /\ task' = [task EXCEPT ![e] = "going"] /\ worker' = [worker EXCEPT ![e] = G!Fresh]
            /\ gMet' = [gMet EXCEPT ![e] = 0]
        BY <1>5, <3>3 DEF G!Enter, G!ReadsBack
      <4>2. e \notin Direct => worker[e] = G!Fresh BY <1>1, <2>1, <3>3 DEF GraphEntryOK, G!ReadsBack
      <4>3. worker[e].gates = 0 /\ G!Fresh.gates = 0 BY <1>1, <4>2 DEF G!Fresh, GraphEntryOK
      <4>4. \A x \in Entry : worker'[x] = IF x = e THEN G!Fresh ELSE worker[x]
        BY <1>2, <4>1 DEF GraphTypes
      <4>5. \A x \in Entry : /\ worker'[x].gates = worker[x].gates
                             /\ x # e \/ e \notin Direct => worker'[x] = worker[x]
        BY <4>2, <4>3, <4>4
      <4>6. QED BY <1>2, <4>1, <4>3, <4>5 DEF GraphTypes
    <3>4. QED BY <3>1, <3>2, <3>3
  <2>3. \A x \in Entry : GraphOnlySkills(x) => GraphOnlySkills(x)'
    <3>1. e \in Direct => Nodes[e] = <<"skill">> BY WorkersAreLists
    <3>2. e \in Direct => GraphOnlySkills(e)' BY <3>1 DEF GraphOnlySkills
    <3>3. \A x \in Entry : x # e \/ e \notin Direct => (GraphOnlySkills(x) => GraphOnlySkills(x)')
      BY <2>2 DEF GraphOnlySkills
    <3>4. QED BY <3>2, <3>3
  <2>4. ASSUME NEW x \in Entry PROVE GraphMetOK(x)'
    BY <1>1, <2>2, <2>3 DEF GraphMetOK
  <2>5. QED BY <1>2, <2>1, <2>2, <2>3, <2>4, GraphTakesNothing
<1>6. ASSUME NEW e \in Entry, G!WorkerStep(e) \/ G!WorkerEnds(e) PROVE GraphPostInv'
  <2>1. task[e] = "going" /\ UNCHANGED <<posts, answers, used, gMet>>
    BY <1>6 DEF G!WorkerStep, G!WorkerEnds
  <2>2. PICK w, t :
          /\ worker' = [worker EXCEPT ![e] = w] /\ task' = [task EXCEPT ![e] = t]
          /\ w.gates = worker[e].gates /\ w.done \in {worker[e].done, worker[e].done + 1}
    <3>1. worker[e] \in GraphThreads BY <1>1
    <3>2. CASE worker' = [worker EXCEPT ![e].done = @ + 1] /\ UNCHANGED task
      <4> DEFINE w == [worker[e] EXCEPT !.done = worker[e].done + 1]
      <4>1. worker' = [worker EXCEPT ![e] = w] BY <3>2
      <4>2. w.gates = worker[e].gates /\ w.done = worker[e].done + 1 BY <3>1 DEF GraphThreads
      <4>3. task' = [task EXCEPT ![e] = task[e]] BY <1>2, <3>2 DEF GraphTypes
      <4> HIDE DEF w
      <4>4. QED BY <4>1, <4>2, <4>3
    <3>3. ASSUME NEW is, NEW t, worker' = [worker EXCEPT ![e].is = is], task' = [task EXCEPT ![e] = t]
          PROVE  \E w, s :
                   /\ worker' = [worker EXCEPT ![e] = w] /\ task' = [task EXCEPT ![e] = s]
                   /\ w.gates = worker[e].gates /\ w.done \in {worker[e].done, worker[e].done + 1}
      <4> DEFINE w == [worker[e] EXCEPT !.is = is]
      <4>1. worker' = [worker EXCEPT ![e] = w] BY <3>3
      <4>2. w.gates = worker[e].gates /\ w.done = worker[e].done BY <3>1 DEF GraphThreads
      <4> HIDE DEF w
      <4>3. QED BY <3>3, <4>1, <4>2
    <3>4. QED BY <1>6, <3>2, <3>3 DEF G!WorkerStep, G!WorkerEnds
  <2>3. worker'[e] = w /\ task'[e] = t BY <1>2, <2>2 DEF GraphTypes
  <2>4. \A x \in Entry : x # e => worker'[x] = worker[x] /\ task'[x] = task[x]
    BY <1>2, <2>2 DEF GraphTypes
  <2>5. \A x \in Entry : worker'[x].gates = worker[x].gates BY <2>2, <2>3, <2>4
  <2>6. worker[e].done \in Nat BY <1>1 DEF GraphThreads
  <2>7. GraphOnlySkills(e) => GraphOnlySkills(e)'
    <3>1. \A j \in DOMAIN Nodes[e] : j \in Nat BY WorkersAreLists
    <3>2. QED BY <2>2, <2>3, <2>6, <3>1 DEF GraphOnlySkills
  <2>8. \A x \in Entry : GraphOnlySkills(x) => GraphOnlySkills(x)'
    <3>1. ASSUME NEW x \in Entry, x # e PROVE GraphOnlySkills(x) => GraphOnlySkills(x)'
      BY <2>4, <3>1 DEF GraphOnlySkills
    <3>2. QED BY <2>7, <3>1
  <2>9. ASSUME NEW x \in Entry PROVE GraphMetOK(x)'
    <3>1. CASE x = e BY <1>1, <2>1, <2>5, <2>7, <3>1 DEF GraphMetOK
    <3>2. CASE x # e BY <1>1, <2>1, <2>4, <2>8, <3>2 DEF GraphMetOK
    <3>3. QED BY <3>1, <3>2
  <2>10. QED BY <1>2, <2>1, <2>5, <2>8, <2>9, GraphTakesNothing
<1>7. ASSUME NEW e \in Entry, G!Ask(e) PROVE GraphPostInv'
  <2>1. task[e] = "asking" /\ UNCHANGED <<posts, answers>> BY <1>7 DEF G!Ask
  <2>2. worker[e].is = "pending" /\ worker[e].done < Len(Nodes[e]) /\ G!NextNode(e) # "skill"
    BY <1>1, <2>1 DEF GraphEntryOK
  <2>3. worker[e].done \in Nat /\ worker[e].gates \in Nat /\ gMet[e] \in Nat /\ answers[e] \in Seq(Nat)
    BY <1>1, <1>2 DEF GraphThreads, GraphTypes, GraphPostInv, GraphPostTypes
  <2>4. worker[e].done + 1 \in DOMAIN Nodes[e]
    BY <1>1, <2>2, <2>3, WorkersAreLists
  <2>5. ~GraphOnlySkills(e) /\ gMet[e] = worker[e].gates
    <3>1. ~GraphOnlySkills(e) BY <2>2, <2>3, <2>4 DEF GraphOnlySkills, G!NextNode
    <3>2. QED BY <1>1, <2>1, <3>1 DEF GraphMetOK
  <2>6. CASE ~(gMet[e] < Len(answers[e]))
    <3>1. task' = [task EXCEPT ![e] = "paused"] /\ UNCHANGED <<gMet, used, worker>>
      BY <1>7, <2>6 DEF G!Ask
    <3>2. \A x \in Entry : GraphOnlySkills(x) => GraphOnlySkills(x)' BY <3>1 DEF GraphOnlySkills
    <3>3. \A x \in Entry : task'[x] = IF x = e THEN "paused" ELSE task[x]
      BY <1>2, <3>1 DEF GraphTypes
    <3>4. ASSUME NEW x \in Entry PROVE GraphMetOK(x)' BY <1>1, <3>1, <3>2, <3>3 DEF GraphMetOK
    <3>5. QED BY <1>2, <2>1, <3>1, <3>2, <3>4, GraphTakesNothing
  <2>7. CASE gMet[e] < Len(answers[e])
    <3> DEFINE denied == G!NextNode(e) = "gate" /\ posts[answers[e][gMet[e] + 1]].verdict = "deny"
               g == worker[e].gates + (IF G!NextNode(e) = "gate" THEN 1 ELSE 0)
               w == [done |-> worker[e].done + 1, gates |-> g, is |-> IF denied THEN "denied" ELSE "new"]
               t == IF denied THEN "done" ELSE "going"
               n == gMet[e] + 1
    <3>1. PICK new : new = <<answers[e][n], <<e, worker[e].done + 1>> >> OBVIOUS
    <3>2. /\ gMet' = [gMet EXCEPT ![e] = n] /\ used' = used \cup {new}
          /\ worker' = [worker EXCEPT ![e] = w] /\ task' = [task EXCEPT ![e] = t]
      BY <1>7, <2>7, <3>1 DEF G!Ask
    <3>3. n = worker[e].gates + 1 /\ n \in DOMAIN answers[e] /\ new[1] = answers[e][n] /\ new[2][1] = e
      BY <2>3, <2>5, <2>7, <3>1
    <3>4. g \in Nat /\ g >= worker[e].gates /\ (G!NextNode(e) = "gate" => g = n)
      BY <2>3, <3>3
    <3> HIDE DEF denied, g
    <3>5. w.done = worker[e].done + 1 /\ w.gates = g
      OBVIOUS
    <3> HIDE DEF w, t, n
    <3>6. worker'[e] = w /\ gMet'[e] = n /\ task'[e] = t BY <1>2, <3>2 DEF GraphTypes
    <3>7. \A x \in Entry : x # e => worker'[x] = worker[x] /\ gMet'[x] = gMet[x] /\ task'[x] = task[x]
      BY <1>2, <3>2 DEF GraphTypes
    <3>8. G!NextNode(e) # "gate" => GraphOnlySkills(e)'
      <4>1. G!NextNode(e) \in {"skill", "gate", "asks"} BY <2>4, WorkersAreLists DEF G!NextNode
      <4>2. ASSUME G!NextNode(e) # "gate", NEW j \in DOMAIN Nodes[e], w.done < j PROVE Nodes[e][j] = "skill"
        <5>1. Nodes[e][worker[e].done + 1] = "asks" BY <2>2, <4>1, <4>2 DEF G!NextNode
        <5>2. worker[e].done + 1 < j BY <3>5, <3>4, <4>2
        <5>3. QED BY <2>4, <4>2, <5>1, <5>2 DEF G!AsksLast
      <4>3. QED BY <3>6, <4>2 DEF GraphOnlySkills
    <3>9. g = n \/ GraphOnlySkills(e)' BY <3>5, <3>4, <3>8
    <3>10. \A x \in Entry : x # e /\ GraphOnlySkills(x) => GraphOnlySkills(x)'
      BY <3>7 DEF GraphOnlySkills
    <3>11. ASSUME NEW x \in Entry PROVE GraphMetOK(x)'
      <4>1. CASE x = e BY <3>5, <3>4, <3>6, <3>9, <4>1 DEF GraphMetOK
      <4>2. CASE x # e BY <1>1, <3>7, <3>10, <4>2 DEF GraphMetOK
      <4>3. QED BY <4>1, <4>2
    <3>12. ASSUME NEW u \in used PROVE GraphUsedOK(u)' /\ u[1] # new[1]
      <4>1. GraphUsedOK(u) /\ GraphOf(u)' = GraphOf(u) BY DEF GraphPostInv, GraphOf
      <4>2. GraphOf(u) \in Entry BY <4>1 DEF GraphUsedOK
      <4>3. PICK i \in DOMAIN answers[GraphOf(u)] :
              u[1] = answers[GraphOf(u)][i] /\ (i <= worker[GraphOf(u)].gates \/ GraphOnlySkills(GraphOf(u)))
        BY <4>1 DEF GraphUsedOK
      <4>4. CASE GraphOf(u) = e
        <5>1. i <= worker[e].gates /\ i \in Nat BY <2>3, <2>5, <4>3, <4>4
        <5>2. i <= worker'[e].gates BY <2>3, <3>5, <3>4, <3>6, <5>1
        <5>3. GraphUsedOK(u)' BY <2>1, <4>1, <4>2, <4>3, <4>4, <5>2 DEF GraphUsedOK
        <5>4. i # n BY <2>3, <3>3, <5>1
        <5>5. u[1] # new[1] BY <3>3, <4>3, <4>4, <5>4 DEF GraphPostInv, GraphEachOnce
        <5>6. QED BY <5>3, <5>5
      <4>5. CASE GraphOf(u) # e
        <5>1. worker'[GraphOf(u)] = worker[GraphOf(u)] /\ (GraphOnlySkills(GraphOf(u)) => GraphOnlySkills(GraphOf(u))')
          BY <3>7, <3>10, <4>2, <4>5
        <5>2. GraphUsedOK(u)' BY <2>1, <4>1, <4>2, <4>3, <5>1 DEF GraphUsedOK
        <5>3. u[1] # new[1] BY <3>3, <4>2, <4>3, <4>5 DEF GraphPostInv, GraphEachOnce
        <5>4. QED BY <5>2, <5>3
      <4>6. QED BY <4>4, <4>5
    <3>13. GraphUsedOK(new)'
      <4>1. new[2][1] = e BY <3>3
      <4>2. worker'[e].gates = g BY <3>5, <3>4, <3>6
      <4>3. n <= g \/ GraphOnlySkills(e)' BY <3>5, <3>4, <3>9
      <4>4. QED BY <2>1, <3>3, <4>1, <4>2, <4>3 DEF GraphUsedOK, GraphOf
    <3>14. GraphPostTypes' /\ GraphEachOnce' BY <2>1 DEF GraphPostInv, GraphPostTypes, GraphEachOnce
    <3>15. G!OnePostOneGate' BY <3>2, <3>12 DEF GraphPostInv, G!OnePostOneGate
    <3>16. \A u \in used' : GraphUsedOK(u)' BY <3>2, <3>12, <3>13
    <3>17. QED BY <3>11, <3>14, <3>15, <3>16 DEF GraphPostInv
  <2>8. QED BY <2>6, <2>7
<1>8. CASE G!Post
  <2> DEFINE n == Len(posts)
             f == G!First(G!Waiting)
  <2>1. /\ UNCHANGED <<worker, gMet, used>>
        /\ answers' = [answers EXCEPT ![f] = Append(@, n + 1)]
        /\ \E card : posts' = Append(posts, card)
        /\ \E again : task' = [e \in Entry |-> IF e \in again THEN "enter" ELSE task[e]]
    BY <1>8 DEF G!Post
  <2> HIDE DEF f
  <2>2. PICK card : posts' = Append(posts, card) BY <2>1
  <2>3. n \in Nat /\ Len(posts') = n + 1 /\ posts' \in Seq({posts'[i] : i \in DOMAIN posts'})
    <3> DEFINE vals == {posts[i] : i \in DOMAIN posts}
    <3>1. posts \in Seq(vals) BY DEF GraphPostInv, GraphPostTypes
    <3> HIDE DEF vals
    <3>2. posts \in Seq(vals \cup {card}) BY <3>1
    <3>3. posts' \in Seq(vals \cup {card}) /\ n \in Nat /\ Len(posts') = n + 1 BY <2>2, <3>2
    <3>4. QED BY <3>3
  <2> HIDE DEF n
  <2>4. /\ DOMAIN answers' = Entry
        /\ \A e \in Entry : answers'[e] = IF e = f THEN Append(answers[e], n + 1) ELSE answers[e]
    BY <2>1 DEF GraphPostInv, GraphPostTypes
  <2>5. ASSUME NEW e \in Entry
        PROVE  /\ answers'[e] \in Seq(Nat)
               /\ \A i \in DOMAIN answers[e] : i \in DOMAIN answers'[e] /\ answers'[e][i] = answers[e][i]
               /\ \A i \in DOMAIN answers'[e] :
                    i \in DOMAIN answers[e] \/ (e = f /\ i = Len(answers[e]) + 1 /\ answers'[e][i] = n + 1)
    <3>1. answers[e] \in Seq(Nat) BY DEF GraphPostInv, GraphPostTypes
    <3>2. CASE e # f BY <2>4, <3>1, <3>2
    <3>3. CASE e = f
      <4> DEFINE c == answers[e]
      <4>1. answers'[e] = Append(c, n + 1) /\ c \in Seq(Nat) BY <2>4, <3>1, <3>3
      <4>2. n + 1 \in Nat BY <2>3
      <4> HIDE DEF c
      <4>3. /\ Append(c, n + 1) \in Seq(Nat) /\ Len(c) \in Nat /\ DOMAIN c = 1..Len(c)
            /\ DOMAIN Append(c, n + 1) = 1..(Len(c) + 1)
            /\ \A i \in 1..Len(c) : Append(c, n + 1)[i] = c[i]
            /\ Append(c, n + 1)[Len(c) + 1] = n + 1
        BY <4>2, <4>1
      <4>4. /\ \A i \in DOMAIN c : i \in DOMAIN answers'[e] /\ answers'[e][i] = c[i]
            /\ \A i \in DOMAIN answers'[e] :
                 i \in DOMAIN c \/ (i = Len(c) + 1 /\ answers'[e][i] = n + 1)
        BY <4>1, <4>3
      <4>5. QED BY <3>3, <4>1, <4>3, <4>4 DEF c
    <3>4. QED BY <3>2, <3>3
  <2>6. GraphPostTypes'
    <3>1. answers' \in [Entry -> Seq(Nat)]
      <4>1. answers' = [e \in Entry |-> answers'[e]] BY <2>1, <2>4 DEF GraphPostInv, GraphPostTypes
      <4>2. QED BY <2>5, <4>1
    <3>2. QED BY <2>3, <3>1 DEF GraphPostTypes
  <2>7. GraphEachOnce'
    <3>1. \A e \in Entry : \A i \in DOMAIN answers[e] : answers[e][i] <= n /\ answers[e][i] \in Nat
      BY DEF GraphPostInv, GraphPostTypes, GraphEachOnce, n
    <3>2. ASSUME NEW e \in Entry, NEW i \in DOMAIN answers'[e] PROVE answers'[e][i] <= Len(posts')
      <4>1. CASE i \in DOMAIN answers[e] BY <2>3, <2>5, <3>1, <4>1
      <4>2. CASE answers'[e][i] = n + 1 BY <2>3, <4>2
      <4>3. QED BY <2>5, <4>1, <4>2
    <3>3. ASSUME NEW e \in Entry, NEW x \in Entry, NEW i \in DOMAIN answers'[e], NEW j \in DOMAIN answers'[x],
                 answers'[e][i] = answers'[x][j]
          PROVE  e = x /\ i = j
      <4>1. CASE i \in DOMAIN answers[e] /\ j \in DOMAIN answers[x]
        BY <2>5, <3>3, <4>1 DEF GraphPostInv, GraphEachOnce
      <4>2. CASE i \in DOMAIN answers[e] /\ j \notin DOMAIN answers[x]
        BY <2>3, <2>5, <3>1, <3>3, <4>2
      <4>3. CASE i \notin DOMAIN answers[e] /\ j \in DOMAIN answers[x]
        BY <2>3, <2>5, <3>1, <3>3, <4>3
      <4>4. CASE i \notin DOMAIN answers[e] /\ j \notin DOMAIN answers[x]
        <5>1. e = f /\ i = Len(answers[e]) + 1 BY <2>5, <4>4
        <5>2. x = f /\ j = Len(answers[x]) + 1 BY <2>5, <4>4
        <5>3. QED BY <5>1, <5>2
      <4>5. QED BY <4>1, <4>2, <4>3, <4>4
    <3>4. QED BY <3>2, <3>3 DEF GraphEachOnce
  <2>8. \A e \in Entry : GraphOnlySkills(e) => GraphOnlySkills(e)' BY <2>1 DEF GraphOnlySkills
  <2>9. ASSUME NEW e \in Entry PROVE GraphMetOK(e)'
    <3>1. task'[e] \in {"going", "asking"} => task'[e] = task[e] BY <2>1
    <3>2. QED BY <1>1, <2>1, <2>8, <3>1 DEF GraphMetOK
  <2>10. ASSUME NEW u \in used PROVE GraphUsedOK(u)'
    <3>1. GraphUsedOK(u) /\ GraphOf(u)' = GraphOf(u) BY DEF GraphPostInv, GraphOf
    <3>2. GraphOf(u) \in Entry BY <3>1 DEF GraphUsedOK
    <3>3. PICK i \in DOMAIN answers[GraphOf(u)] :
            u[1] = answers[GraphOf(u)][i] /\ (i <= worker[GraphOf(u)].gates \/ GraphOnlySkills(GraphOf(u)))
      BY <3>1 DEF GraphUsedOK
    <3>4. i \in DOMAIN answers'[GraphOf(u)] /\ answers'[GraphOf(u)][i] = answers[GraphOf(u)][i]
      BY <2>5, <3>2, <3>3
    <3>5. i <= worker'[GraphOf(u)].gates \/ GraphOnlySkills(GraphOf(u))' BY <2>1, <2>8, <3>2, <3>3
    <3>6. QED BY <3>1, <3>2, <3>3, <3>4, <3>5 DEF GraphUsedOK
  <2>11. G!OnePostOneGate' BY <2>1 DEF GraphPostInv, G!OnePostOneGate
  <2>12. \A u \in used' : GraphUsedOK(u)' BY <2>1, <2>10
  <2>13. QED BY <2>6, <2>7, <2>9, <2>11, <2>12 DEF GraphPostInv
<1>9. QED
  BY <1>3, <1>4, <1>5, <1>6, <1>7, <1>8 DEF G!Next

\* RanOnce, however dispatches of workers are paused, answered and replayed in whatever
\* order: a node of a worker is run to its end once, and a dispatch is one step of the
\* run (execute_resolution, invoke_worker_with_hitl).
THEOREM NodesRunOnce == Spec => []RanOnce
<1>1. Init => GraphInv
  BY GraphInit DEF Init
<1>2. GraphInv /\ [Next]_vars => GraphInv'
  BY GraphStep, OnePartMoves
<1>3. GraphInv => RanOnce
  BY DEF RanOnce, GraphInv, GraphEntryOK, G!RanOnce
<1>4. QED
  BY <1>1, <1>2, <1>3, PTL DEF Spec

\* OnePostOneGate, of workers that ask for nothing before a gate (AsksLast): whichever
\* gates are open together, no answer is taken by two of them
\* (invoke_worker_with_hitl's burned interrupts, _resume_command).
THEOREM AnswerOpensOneGate == G!AsksLast => (Spec => []OnePostOneGate)
<1> SUFFICES ASSUME G!AsksLast PROVE Spec => []OnePostOneGate
  OBVIOUS
<1>1. Init => GraphInv /\ GraphPostInv
  BY GraphInit, GraphPostInit DEF Init
<1>2. GraphInv /\ GraphPostInv /\ [Next]_vars => GraphInv' /\ GraphPostInv'
  BY GraphStep, GraphPostStep, OnePartMoves
<1>3. GraphPostInv => OnePostOneGate
  BY DEF OnePostOneGate, GraphPostInv
<1>4. QED
  BY <1>1, <1>2, <1>3, PTL DEF Spec


-----------------------------------------------------------------------------
(* The agentic loop (AgenticLoop) *)

LoopTypes ==
  /\ calls \in Seq(N!Target) /\ Len(calls) <= MaxCall
  /\ DOMAIN name = N!Call /\ DOMAIN state = N!Call
  /\ routes \in [N!Call -> Nat]

\* A call that was routed has a dispatch of its agent; one that was not made has no route.
LoopRoutedDispatched ==
  /\ \A c \in DOMAIN calls : calls[c] \in Agent /\ routes[c] > 0 => <<"agent", calls[c]>> \in dispatches
  /\ \A c \in N!Call \ DOMAIN calls : routes[c] = 0 /\ state[c] = "none"

LoopInv == LoopTypes /\ LoopRoutedDispatched /\ N!RoutedOnce

-----------------------------------------------------------------------------
LEMMA LoopInit == N!Init => LoopInv
  BY AgentsAreAgents DEF N!Init, LoopInv, LoopTypes, LoopRoutedDispatched, N!RoutedOnce, N!Call

\* Steps that leave calls, routes and dispatches alone.
LEMMA LoopKeeps ==
  ASSUME LoopInv, UNCHANGED <<calls, routes, dispatches>>, DOMAIN name' = N!Call, DOMAIN state' = N!Call,
         \A c \in N!Call : state[c] = "none" => state'[c] = "none"
  PROVE  LoopInv'
  BY DEF LoopInv, LoopTypes, LoopRoutedDispatched, N!RoutedOnce

LEMMA LoopStep == LoopInv /\ [N!Next]_N!nvars => LoopInv'
<1> SUFFICES ASSUME LoopInv, [N!Next]_N!nvars PROVE LoopInv'
  OBVIOUS
<1> USE DEF LoopInv
<1>1. DOMAIN calls = 1 .. Len(calls) /\ DOMAIN calls \subseteq N!Call
  BY AgentsAreAgents DEF LoopTypes, N!Call
<1>2. ASSUME NEW k \in 1 .. MaxTurn, NEW ts \in [1 .. k -> N!Target], N!Ask(ts) PROVE LoopInv'
  <2>1. ts \in Seq(N!Target) /\ k \in Nat BY AgentsAreAgents
  <2>2. /\ calls' = calls \o ts /\ Len(calls) + Len(ts) <= MaxCall
        /\ state' = [c \in N!Call |-> IF c \in DOMAIN calls' \ DOMAIN calls THEN "open" ELSE state[c]]
        /\ UNCHANGED <<name, routes, dispatches>>
    BY <1>2 DEF N!Ask
  <2>3. /\ calls' \in Seq(N!Target) /\ Len(calls') = Len(calls) + Len(ts)
        /\ \A c \in DOMAIN calls : calls'[c] = calls[c]
    BY <2>1, <2>2 DEF LoopTypes
  <2>4. Len(calls) \in Nat /\ Len(ts) \in Nat /\ DOMAIN calls' = 1 .. Len(calls')
    BY <2>1, <2>3 DEF LoopTypes
  <2>5. DOMAIN calls \subseteq DOMAIN calls' /\ DOMAIN calls' \subseteq N!Call
    BY <1>1, <2>2, <2>3, <2>4, AgentsAreAgents DEF N!Call
  <2>6. LoopTypes' BY <2>2, <2>3 DEF LoopTypes
  <2>7. \A c \in DOMAIN calls' \ DOMAIN calls : routes[c] = 0
    BY <2>5 DEF LoopRoutedDispatched
  <2>8. LoopRoutedDispatched' BY <2>2, <2>3, <2>5, <2>7 DEF LoopRoutedDispatched
  <2>9. N!RoutedOnce' BY <2>2, <2>3, <2>5, <2>7 DEF N!RoutedOnce
  <2>10. QED BY <2>6, <2>8, <2>9
<1>3. CASE N!Answer \/ N!TurnEnds \/ N!Resume
  <2>1. UNCHANGED <<calls, routes, dispatches>> BY <1>3 DEF N!Answer, N!TurnEnds, N!Resume
  <2>2. DOMAIN name' = N!Call /\ DOMAIN state' = N!Call
    BY <1>3 DEF N!Answer, N!TurnEnds, N!Resume, LoopTypes
  <2>3. \A c \in N!Call : state[c] = "none" => state'[c] = "none"
    BY <1>3 DEF N!Answer, N!TurnEnds, N!Resume, N!Paused
  <2>4. QED BY <2>1, <2>2, <2>3, LoopKeeps
<1>4. ASSUME NEW c \in N!Call, N!Unlock(c) PROVE LoopInv'
  <2>1. /\ calls[c] = "unlock" /\ c \in DOMAIN calls
        /\ routes' = [routes EXCEPT ![c] = @ + 1] /\ state' = [state EXCEPT ![c] = "done"]
        /\ UNCHANGED <<calls, name, dispatches>>
    BY <1>4 DEF N!Unlock, LoopRoutedDispatched
  <2>2. calls[c] \notin Agent BY <2>1, AgentsAreAgents
  <2>3. LoopTypes' BY <2>1 DEF LoopTypes
  <2>4. \A x \in N!Call : x # c => routes'[x] = routes[x] /\ state'[x] = state[x]
    BY <2>1 DEF LoopTypes
  <2>5. LoopRoutedDispatched' BY <1>1, <2>1, <2>2, <2>4 DEF LoopRoutedDispatched
  <2>6. N!RoutedOnce' BY <1>1, <2>1, <2>2, <2>4 DEF N!RoutedOnce
  <2>7. QED BY <2>3, <2>5, <2>6
<1>5. ASSUME NEW c \in N!Call, N!Resolve(c) PROVE LoopInv'
  <2>1. /\ c \in DOMAIN calls /\ UNCHANGED <<calls, state>>
        /\ dispatches' = dispatches \cup {name'[c]}
    BY <1>5 DEF N!Resolve, LoopRoutedDispatched
  <2>2. CASE calls[c] = "spin"
    <3>1. /\ routes' = [routes EXCEPT ![c] = @ + 1]
          /\ name' = [name EXCEPT ![c] = <<"worker", callsigns'>>]
      BY <1>5, <2>2 DEF N!Resolve
    <3>2. calls[c] \notin Agent BY <2>2, AgentsAreAgents
    <3>3. LoopTypes' BY <2>1, <3>1 DEF LoopTypes
    <3>4. \A x \in N!Call : x # c => routes'[x] = routes[x] BY <3>1 DEF LoopTypes
    <3>5. LoopRoutedDispatched' BY <1>1, <2>1, <3>2, <3>4 DEF LoopRoutedDispatched
    <3>6. N!RoutedOnce' BY <1>1, <2>1, <3>2, <3>4 DEF N!RoutedOnce
    <3>7. QED BY <3>3, <3>5, <3>6
  <2>3. CASE calls[c] # "spin"
    <3> DEFINE dispatch == <<"agent", calls[c]>>
    <3>1. /\ routes' = [routes EXCEPT ![c] = IF dispatch \in dispatches THEN @ ELSE @ + 1]
          /\ name' = [name EXCEPT ![c] = dispatch]
      BY <1>5, <2>3 DEF N!Resolve, N!Replay
    <3>2. LoopTypes' BY <2>1, <3>1 DEF LoopTypes
    <3>3. name'[c] = dispatch BY <3>1 DEF LoopTypes
    <3>4. dispatch \in dispatches' BY <2>1, <3>3
    <3>5. \A x \in N!Call : x # c => routes'[x] = routes[x] BY <3>1 DEF LoopTypes
    <3>6. LoopRoutedDispatched' BY <1>1, <2>1, <3>4, <3>5 DEF LoopRoutedDispatched
    <3>7. calls[c] \in Agent => routes'[c] <= 1
      <4>1. SUFFICES ASSUME calls[c] \in Agent PROVE routes'[c] <= 1 OBVIOUS
      <4>2. routes[c] \in Nat /\ routes[c] <= 1 BY <2>1, <4>1 DEF LoopTypes, N!RoutedOnce
      <4>3. CASE dispatch \in dispatches BY <3>1, <4>2, <4>3 DEF LoopTypes
      <4>4. CASE dispatch \notin dispatches
        <5>1. routes[c] = 0 BY <2>1, <4>1, <4>2, <4>4 DEF LoopRoutedDispatched
        <5>2. routes'[c] = 1 BY <3>1, <4>4, <5>1 DEF LoopTypes
        <5>3. QED BY <5>2
      <4>5. QED BY <4>3, <4>4
    <3>8. N!RoutedOnce' BY <1>1, <2>1, <3>5, <3>7 DEF N!RoutedOnce
    <3>9. QED BY <3>2, <3>6, <3>8
  <2>4. QED BY <2>2, <2>3
<1>6. ASSUME NEW c \in N!Call, N!Work(c) PROVE LoopInv'
  <2>1. state[c] = "open" /\ UNCHANGED <<calls, name, routes, dispatches>>
    BY <1>6 DEF N!Work
  <2>2. state' = state \/ \E s : state' = [state EXCEPT ![c] = s]
    BY <1>6 DEF N!Work, N!Returns
  <2>3. DOMAIN state' = N!Call /\ \A x \in N!Call : x # c => state'[x] = state[x]
    BY <2>2 DEF LoopTypes
  <2>4. QED BY <2>1, <2>3, LoopKeeps DEF LoopTypes
<1>7. CASE UNCHANGED N!nvars
  BY <1>7, LoopKeeps DEF N!nvars, LoopTypes
<1>8. QED
  BY <1>2, <1>3, <1>4, <1>5, <1>6, <1>7 DEF N!Next, N!ModelTurn

\* RoutedOnce, for any calls in any order, gates and replays in fresh contexts: no call
\* has a second route row. What tells a replay from a new call is the dispatch step of
\* its agent, and that is there whenever the call has its route row (_tool_for).
THEOREM AgentsRoutedOnce == Spec => []RoutedOnce
<1>1. Init => LoopInv
  BY LoopInit DEF Init
<1>2. LoopInv /\ [Next]_vars => LoopInv'
  BY LoopStep, OnePartMoves
<1>3. LoopInv => RoutedOnce
  BY DEF RoutedOnce, LoopInv, N!RoutedOnce
<1>4. QED
  BY <1>1, <1>2, <1>3, PTL DEF Spec


-----------------------------------------------------------------------------
(* A worker's workflow (Workflow) *)

FlowTypes ==
  /\ edges \subseteq Edge
  /\ wAt \in {"nodes", "routers", "ended", "failed"}
  /\ frontier \subseteq Node /\ deferred \subseteq K!Joins
  /\ outcome \in [Node -> {"none", "ok", "error", "denied"}]
  /\ wAt = "routers" => \A n \in frontier : outcome[n] # "none"
  /\ wRuns \in [Node -> 0..2]

\* A node that has run, and whose router has.
FlowRouted(n) == wRuns[n] = 1 /\ ~(wAt = "routers" /\ n \in frontier)

\* Who is to run did not, who has to be routed ran, each once.
FlowRunsOnce ==
  /\ \A n \in Node : wRuns[n] <= 1
  /\ \A n \in frontier : (wAt = "nodes" => wRuns[n] = 0) /\ (wAt = "routers" => wRuns[n] = 1)

\* What has one way in runs after the node it comes from.
FlowOneWayIn ==
  \A n \in Node, k \in Node \ K!Joins :
    k \in K!Successors(n, edges) /\ (wRuns[k] = 1 \/ k \in frontier) => FlowRouted(n)

\* The nodes that run together are on different branches.
FlowBranches == \A n, m \in frontier : m \notin K!Behind({n}, edges)

\* The joins run last: none did, or all are behind.
FlowJoinsLast ==
  \/ \A j \in K!Joins : wRuns[j] = 0 /\ j \notin frontier
  \/ deferred = {} /\ \A n \in frontier : K!Behind({n}, edges) \cap K!Joins = {}

FlowInv == FlowTypes /\ (K!JoinsApart => FlowRunsOnce /\ FlowOneWayIn /\ FlowBranches /\ FlowJoinsLast)

-----------------------------------------------------------------------------
LEMMA FlowSuccessorsAre ==
  ASSUME edges \subseteq Edge, NEW n
  PROVE  K!Successors(n, edges) \subseteq K!Place
BY EdgesAreEdges DEF K!Successors, K!Place

\* What is behind a node has its successors, and theirs.
LEMMA FlowBehindHas ==
  ASSUME edges \subseteq Edge, NEW n
  PROVE  /\ K!Behind({n}, edges) \subseteq K!Place
         /\ K!Successors(n, edges) \subseteq K!Behind({n}, edges)
         /\ \A m \in K!Behind({n}, edges) : K!Successors(m, edges) \subseteq K!Behind({n}, edges)
<1> DEFINE closed == {set \in SUBSET K!Place : \A x \in {n} \cup set : K!Successors(x, edges) \subseteq set}
<1>1. K!Behind({n}, edges) = {m \in K!Place : \A set \in closed : m \in set} BY DEF K!Behind
<1>2. \A set \in closed : \A x \in {n} \cup set : K!Successors(x, edges) \subseteq set OBVIOUS
<1>3. \A x : K!Successors(x, edges) \subseteq K!Place BY FlowSuccessorsAre
<1> HIDE DEF closed
<1>4. K!Successors(n, edges) \subseteq K!Behind({n}, edges) BY <1>1, <1>2, <1>3
<1>5. ASSUME NEW m \in K!Behind({n}, edges) PROVE K!Successors(m, edges) \subseteq K!Behind({n}, edges)
  <2>1. \A set \in closed : m \in set BY <1>1
  <2>2. \A set \in closed : K!Successors(m, edges) \subseteq set BY <1>2, <2>1
  <2>3. QED BY <1>1, <1>3, <2>2
<1>6. QED BY <1>1, <1>4, <1>5

\* It is the least such set.
LEMMA FlowBehindIsLeast ==
  ASSUME NEW n, NEW set \in SUBSET K!Place,
         \A x \in {n} \cup set : K!Successors(x, edges) \subseteq set
  PROVE  K!Behind({n}, edges) \subseteq set
BY DEF K!Behind

LEMMA FlowBehindBehind ==
  ASSUME edges \subseteq Edge, NEW n, NEW m \in K!Behind({n}, edges)
  PROVE  K!Behind({m}, edges) \subseteq K!Behind({n}, edges)
BY FlowBehindHas, FlowBehindIsLeast

\* Whatever is behind a node is the successor of it, or of something behind it.
LEMMA FlowLastStep ==
  ASSUME edges \subseteq Edge, NEW n, NEW k \in K!Behind({n}, edges)
  PROVE  \E x \in {n} \cup K!Behind({n}, edges) : k \in K!Successors(x, edges)
<1> DEFINE around == {n} \cup K!Behind({n}, edges)
           next == {y \in K!Behind({n}, edges) : \E x \in around : y \in K!Successors(x, edges)}
<1>1. next \in SUBSET K!Place BY FlowBehindHas
<1>2. ASSUME NEW x \in {n} \cup next PROVE K!Successors(x, edges) \subseteq next
  <2>1. x \in around OBVIOUS
  <2>2. K!Successors(x, edges) \subseteq K!Behind({n}, edges) BY <2>1, FlowBehindHas
  <2>3. QED BY <2>1, <2>2
<1> HIDE DEF next
<1>3. K!Behind({n}, edges) \subseteq next BY <1>1, <1>2, FlowBehindIsLeast
<1>4. QED BY <1>3 DEF next

\* What is no join has one node it comes from.
LEMMA FlowOneBefore ==
  ASSUME edges \subseteq Edge, NEW k \in Node \ K!Joins, NEW x, NEW y,
         k \in K!Successors(x, edges), k \in K!Successors(y, edges)
  PROVE  x = y
<1>1. PICK e \in edges : e[1] = x /\ e[2] = k BY DEF K!Successors
<1>2. PICK f \in edges : f[1] = y /\ f[2] = k BY DEF K!Successors
<1>3. e \in K!Incoming(k) /\ f \in K!Incoming(k) BY <1>1, <1>2 DEF K!Incoming
<1>4. IsFiniteSet(K!Incoming(k))
  <2>1. K!Incoming(k) \subseteq Edge BY DEF K!Incoming
  <2>2. QED BY <2>1, EdgesAreEdges, FS_Subset
<1>5. Cardinality(K!Incoming(k)) \in Nat /\ ~(Cardinality(K!Incoming(k)) > 1)
  BY <1>4, FS_CardinalityType, SameSize DEF K!Joins
<1>6. IsFiniteSet(K!Incoming(k) \ {e}) /\ Cardinality(K!Incoming(k) \ {e}) = Cardinality(K!Incoming(k)) - 1
  BY <1>3, <1>4, FS_RemoveElement
<1>7. Cardinality(K!Incoming(k) \ {e}) = 0
  <2>1. Cardinality(K!Incoming(k) \ {e}) \in Nat BY <1>6, FS_CardinalityType
  <2>2. QED BY <1>5, <1>6, <2>1
<1>8. K!Incoming(k) \ {e} = {} BY <1>6, <1>7, FS_EmptySet
<1>9. f = e BY <1>3, <1>8
<1>10. QED BY <1>1, <1>2, <1>9

-----------------------------------------------------------------------------
\* A router chooses successors, or the end.
LEMMA FlowTargetsFollow ==
  ASSUME FlowTypes, wAt = "routers", NEW n \in frontier, NEW chosen \in K!Targets(n)
  PROVE  chosen \subseteq K!Successors(n, edges) \cup {"END"}
<1>1. outcome[n] \in {"ok", "error", "denied"} BY DEF FlowTypes
<1>2. \A k : K!To(n, k) \subseteq K!Successors(n, edges) BY DEF K!To, K!Successors
<1>3. CASE outcome[n] = "error" BY <1>2, <1>3 DEF K!Targets
<1>4. CASE outcome[n] = "denied" BY <1>4 DEF K!Targets
<1>5. CASE outcome[n] = "ok"
  <2>1. PICK p \in K!Pick(n) : chosen = K!To(n, "next") \cup p BY <1>5 DEF K!Targets
  <2>2. p \subseteq K!To(n, "if") BY DEF K!Pick
  <2>3. QED BY <1>2, <2>1, <2>2
<1>6. QED BY <1>1, <1>3, <1>4, <1>5

\* What the routers trigger are successors of the nodes that ran.
LEMMA FlowTriggers ==
  ASSUME FlowTypes, K!RunRouters, wAt = "routers", wAt' # "failed"
  PROVE  \E triggered \in SUBSET Node :
           /\ K!Goes(triggered)
           /\ \A k \in triggered : \E n \in frontier : k \in K!Successors(n, edges)
<1>1. PICK t \in [frontier -> UNION {K!Targets(n) : n \in frontier}] :
        /\ \A n \in frontier : t[n] \in K!Targets(n)
        /\ K!Goes((UNION {t[n] : n \in frontier}) \ {"END"})
  BY DEF K!RunRouters
<1> DEFINE triggered == (UNION {t[n] : n \in frontier}) \ {"END"}
<1>2. ASSUME NEW k \in triggered PROVE k \in Node /\ \E n \in frontier : k \in K!Successors(n, edges)
  <2>1. PICK n \in frontier : k \in t[n] BY DEF triggered
  <2>2. t[n] \subseteq K!Successors(n, edges) \cup {"END"} BY <1>1, FlowTargetsFollow
  <2>3. k \in K!Successors(n, edges) BY <2>1, <2>2
  <2>4. k \in K!Place BY <2>3, FlowSuccessorsAre DEF FlowTypes
  <2>5. QED BY <2>3, <2>4 DEF K!Place
<1>3. QED BY <1>1, <1>2

\* Without a workflow there is nothing to run.
LEMMA FlowNoWorkflow ==
  ASSUME edges = {}, wAt = "ended", frontier = {}, deferred = {},
         outcome = [n \in Node |-> "none"], wRuns = [n \in Node |-> 0]
  PROVE  FlowInv
<1>1. FlowTypes BY DEF FlowTypes
<1>2. FlowRunsOnce BY DEF FlowRunsOnce
<1>3. FlowOneWayIn BY DEF FlowOneWayIn, K!Successors
<1>4. FlowBranches BY DEF FlowBranches
<1>5. FlowJoinsLast BY DEF FlowJoinsLast, K!Joins
<1>6. QED BY <1>1, <1>2, <1>3, <1>4, <1>5 DEF FlowInv

LEMMA FlowTypesStay ==
  ASSUME FlowTypes, [K!Next]_K!wkvars
  PROVE  FlowTypes'
<1>1. CASE UNCHANGED K!wkvars BY <1>1 DEF K!wkvars, FlowTypes, K!Joins, K!Incoming
<1>2. CASE K!RunNodes
  <2>1. PICK o \in [frontier -> {"ok", "error", "denied"}] :
          outcome' = [n \in Node |-> IF n \in frontier THEN o[n] ELSE outcome[n]]
    BY <1>2 DEF K!RunNodes
  <2>2. outcome' \in [Node -> {"none", "ok", "error", "denied"}] /\ \A n \in frontier : outcome'[n] # "none"
    BY <2>1 DEF FlowTypes
  <2>3. wRuns' \in [Node -> 0..2]
    <3>1. wRuns' = [n \in Node |-> IF n \in frontier /\ wRuns[n] < 2 THEN wRuns[n] + 1 ELSE wRuns[n]]
      BY <1>2 DEF K!RunNodes
    <3>2. \A n \in Node : wRuns[n] \in 0..2 BY DEF FlowTypes
    <3>3. QED BY <3>1, <3>2
  <2>4. UNCHANGED <<edges, frontier, deferred>> /\ wAt' = "routers" BY <1>2 DEF K!RunNodes
  <2>5. QED BY <2>2, <2>3, <2>4 DEF FlowTypes, K!Joins, K!Incoming
<1>3. CASE K!RunRouters
  <2>1. UNCHANGED <<edges, outcome, wRuns>> /\ wAt = "routers" BY <1>3 DEF K!RunRouters
  <2>2. CASE wAt' = "failed"
    <3>1. UNCHANGED <<frontier, deferred>> BY <1>3, <2>2 DEF K!RunRouters, K!Goes
    <3>2. QED BY <2>1, <2>2, <3>1 DEF FlowTypes, K!Joins, K!Incoming
  <2>3. CASE wAt' # "failed"
    <3>1. PICK triggered \in SUBSET Node : K!Goes(triggered) BY <1>3, <2>1, <2>3, FlowTriggers
    <3>2. {n \in triggered : K!Defers(n)} \subseteq K!Joins BY DEF K!Defers, K!Joins
    <3>3. frontier' \subseteq Node /\ deferred' \subseteq K!Joins /\ wAt' \in {"ended", "nodes"}
      BY <3>1, <3>2 DEF K!Goes, FlowTypes, K!Joins
    <3>4. QED BY <2>1, <3>3 DEF FlowTypes, K!Joins, K!Incoming
  <2>4. QED BY <2>2, <2>3
<1>4. QED BY <1>1, <1>2, <1>3 DEF K!Next

LEMMA FlowInit == K!Init => FlowInv
<1> SUFFICES ASSUME K!Init PROVE FlowInv OBVIOUS
<1>1. edges \subseteq Edge /\ K!Valid(edges) BY DEF K!Init
<1>2. PICK first : K!Successors("START", edges) = {first}
  <2> DEFINE starts == {e \in edges : e[1] = "START"}
  <2>1. Cardinality(starts) = 1 BY <1>1, SameSize DEF K!Valid
  <2>2. IsFiniteSet(starts)
    <3>1. starts \subseteq Edge BY <1>1
    <3>2. QED BY <3>1, EdgesAreEdges, FS_Subset
  <2>3. PICK e : starts = {e} BY <2>1, <2>2, FS_Singleton
  <2>4. K!Successors("START", edges) = {e[2]} BY <2>3 DEF K!Successors
  <2>5. QED BY <2>4
<1>3. frontier \subseteq {first} /\ frontier \subseteq Node
  <2>1. frontier = K!Successors("START", edges) \ {"END"} BY DEF K!Init
  <2>2. QED BY <1>1, <1>2, <2>1, FlowSuccessorsAre DEF K!Place
<1>4. deferred = {} /\ wAt = (IF frontier = {} THEN "ended" ELSE "nodes")
      /\ outcome = [n \in Node |-> "none"] /\ wRuns = [n \in Node |-> 0]
  BY DEF K!Init
<1>5. FlowTypes BY <1>1, <1>3, <1>4 DEF FlowTypes
<1>6. FlowRunsOnce BY <1>3, <1>4 DEF FlowRunsOnce
<1>7. FlowBranches
  <2>1. \A n \in Node : n \notin K!Behind({n}, edges) BY <1>1 DEF K!Valid, K!Acyclic
  <2>2. QED BY <1>3, <2>1 DEF FlowBranches
<1>8. FlowOneWayIn
  <2> SUFFICES ASSUME NEW n \in Node, NEW k \in Node \ K!Joins, k \in K!Successors(n, edges),
                      wRuns[k] = 1 \/ k \in frontier
               PROVE  FALSE
    BY DEF FlowOneWayIn
  <2>1. k = first BY <1>3, <1>4
  <2>2. k \in K!Successors("START", edges) BY <1>2, <2>1
  <2>3. n = "START" BY <1>1, <2>2, FlowOneBefore
  <2>4. QED BY <2>3, EdgesAreEdges
<1>9. ASSUME K!JoinsApart PROVE FlowJoinsLast
  <2>1. CASE frontier \cap K!Joins = {} BY <1>4, <2>1 DEF FlowJoinsLast, K!Joins
  <2>2. CASE frontier \cap K!Joins # {}
    <3>1. frontier \subseteq K!Joins BY <1>3, <2>2
    <3>2. QED BY <1>4, <1>9, <3>1 DEF FlowJoinsLast, K!JoinsApart
  <2>3. QED BY <2>1, <2>2
<1>10. QED BY <1>5, <1>6, <1>7, <1>8, <1>9 DEF FlowInv

-----------------------------------------------------------------------------
\* What one-way nodes the routers trigger have not run: else their router had.
LEMMA FlowTriggeredAreNew ==
  ASSUME FlowTypes, FlowOneWayIn, FlowRunsOnce, wAt = "routers",
         NEW n \in frontier, NEW k \in Node \ K!Joins, k \in K!Successors(n, edges)
  PROVE  wRuns[k] = 0 /\ k \notin frontier
<1>1. n \in Node BY DEF FlowTypes
<1>2. ~FlowRouted(n) BY DEF FlowRouted
<1>3. ~(wRuns[k] = 1 \/ k \in frontier) BY <1>1, <1>2 DEF FlowOneWayIn
<1>4. wRuns[k] \in 0..2 /\ wRuns[k] <= 1 BY DEF FlowTypes, FlowRunsOnce
<1>5. QED BY <1>3, <1>4

\* Nodes behind different branches are on different branches, up to a join.
LEMMA FlowBranchesGoOn ==
  ASSUME FlowTypes, FlowBranches, NEW n \in frontier, NEW m \in frontier,
         NEW k \in Node, k \in K!Successors(n, edges),
         NEW l \in Node \ K!Joins, l \in K!Successors(m, edges)
  PROVE  l \notin K!Behind({k}, edges)
<1> SUFFICES ASSUME l \in K!Behind({k}, edges) PROVE FALSE OBVIOUS
<1>1. edges \subseteq Edge BY DEF FlowTypes
<1>2. k \in K!Behind({n}, edges) BY <1>1, FlowBehindHas
<1>3. PICK x \in {k} \cup K!Behind({k}, edges) : l \in K!Successors(x, edges) BY <1>1, FlowLastStep
<1>4. x = m BY <1>1, <1>3, FlowOneBefore
<1>5. m \in K!Behind({n}, edges) BY <1>1, <1>2, <1>3, <1>4, FlowBehindBehind
<1>6. QED BY <1>5 DEF FlowBranches

LEMMA FlowNodesRunOnce ==
  ASSUME FlowInv, K!JoinsApart, FlowTypes', K!RunNodes
  PROVE  FlowRunsOnce' /\ FlowOneWayIn' /\ FlowBranches' /\ FlowJoinsLast'
<1>1. FlowTypes /\ FlowRunsOnce /\ FlowOneWayIn /\ FlowBranches /\ FlowJoinsLast BY DEF FlowInv
<1>2. UNCHANGED <<edges, frontier, deferred>> /\ wAt = "nodes" /\ wAt' = "routers" BY DEF K!RunNodes
<1>3. K!Joins' = K!Joins BY <1>2 DEF K!Joins, K!Incoming
<1>4. ASSUME NEW n \in Node
      PROVE  /\ n \in frontier => wRuns[n] = 0 /\ wRuns'[n] = 1
             /\ n \notin frontier => wRuns'[n] = wRuns[n]
             /\ wRuns[n] \in {0, 1}
  <2>1. wRuns'[n] = IF n \in frontier /\ wRuns[n] < 2 THEN wRuns[n] + 1 ELSE wRuns[n]
    BY DEF K!RunNodes
  <2>2. wRuns[n] \in 0..2 /\ wRuns[n] <= 1 BY <1>1 DEF FlowTypes, FlowRunsOnce
  <2>3. n \in frontier => wRuns[n] = 0 BY <1>1, <1>2 DEF FlowRunsOnce
  <2>4. QED BY <2>1, <2>2, <2>3
<1>5. frontier \subseteq Node BY <1>1 DEF FlowTypes
<1>6. FlowRunsOnce' BY <1>2, <1>4, <1>5 DEF FlowRunsOnce
<1>7. FlowOneWayIn'
  <2> SUFFICES ASSUME NEW n \in Node, NEW k \in Node \ K!Joins, k \in K!Successors(n, edges),
                      wRuns'[k] = 1 \/ k \in frontier
               PROVE  FlowRouted(n)'
    BY <1>2, <1>3 DEF FlowOneWayIn
  <2>1. wRuns[k] = 1 \/ k \in frontier BY <1>4
  <2>2. FlowRouted(n) BY <1>1, <2>1 DEF FlowOneWayIn
  <2>3. wRuns[n] = 1 /\ n \notin frontier BY <1>4, <2>2 DEF FlowRouted
  <2>4. QED BY <1>2, <1>4, <2>3 DEF FlowRouted
<1>8. FlowBranches' BY <1>1, <1>2 DEF FlowBranches
<1>9. FlowJoinsLast'
  <2>1. \A j \in K!Joins : j \in Node BY DEF K!Joins
  <2>2. QED BY <1>1, <1>2, <1>3, <1>4, <2>1 DEF FlowJoinsLast
<1>10. QED BY <1>6, <1>7, <1>8, <1>9

LEMMA FlowRoutersGoOn ==
  ASSUME FlowInv, K!JoinsApart, FlowTypes', K!RunRouters, wAt' # "failed"
  PROVE  FlowRunsOnce' /\ FlowOneWayIn' /\ FlowBranches' /\ FlowJoinsLast'
<1>1. FlowTypes /\ FlowRunsOnce /\ FlowOneWayIn /\ FlowBranches /\ FlowJoinsLast BY DEF FlowInv
<1>2. UNCHANGED <<edges, outcome, wRuns>> /\ wAt = "routers" BY DEF K!RunRouters
<1>3. PICK triggered \in SUBSET Node :
        /\ K!Goes(triggered)
        /\ \A k \in triggered : \E n \in frontier : k \in K!Successors(n, edges)
  BY <1>1, <1>2, FlowTriggers
<1> DEFINE soon == {n \in triggered : ~K!Defers(n)}
           later == deferred \cup {n \in triggered : K!Defers(n)}
<1>4. /\ frontier' = IF soon # {} THEN soon ELSE later
      /\ deferred' = IF soon # {} THEN later ELSE {}
      /\ wAt' = IF soon \cup later = {} THEN "ended" ELSE "nodes"
  BY <1>3 DEF K!Goes
<1>5. K!Joins' = K!Joins /\ K!Joins \subseteq Node /\ edges \subseteq Edge
  BY <1>1, <1>2 DEF K!Joins, K!Incoming, FlowTypes
<1>6. soon \subseteq Node \ K!Joins /\ later \subseteq K!Joins
  BY <1>1, <1>5 DEF K!Defers, K!Joins, FlowTypes
<1>7. \A k \in soon : \E n \in frontier : k \in K!Successors(n, edges) BY <1>3
<1>8. \A k \in later \ deferred : \E n \in frontier : k \in K!Successors(n, edges) BY <1>3
<1> HIDE DEF soon, later
<1>9. ASSUME NEW k \in soon PROVE wRuns[k] = 0
  BY <1>1, <1>2, <1>6, <1>7, FlowTriggeredAreNew
<1>10. ASSUME later # {} PROVE \A j \in K!Joins : wRuns[j] = 0 /\ j \notin frontier
  <2> SUFFICES ASSUME deferred = {}, \A n \in frontier : K!Behind({n}, edges) \cap K!Joins = {} PROVE FALSE
    BY <1>1 DEF FlowJoinsLast
  <2>1. PICK k \in later \ deferred : TRUE BY <1>10
  <2>2. PICK n \in frontier : k \in K!Successors(n, edges) BY <1>8
  <2>3. k \in K!Behind({n}, edges) /\ k \in K!Joins BY <1>5, <1>6, <2>2, FlowBehindHas
  <2>4. QED BY <2>3
<1>11. FlowRunsOnce'
  <2>1. \A n \in frontier' : wRuns[n] = 0 BY <1>4, <1>6, <1>9, <1>10
  <2>2. QED BY <1>1, <1>2, <1>4, <2>1 DEF FlowRunsOnce
<1>12. FlowOneWayIn'
  <2> SUFFICES ASSUME NEW n \in Node, NEW k \in Node \ K!Joins, k \in K!Successors(n, edges),
                      wRuns[k] = 1 \/ k \in frontier'
               PROVE  wRuns[n] = 1
    BY <1>2, <1>4, <1>5 DEF FlowOneWayIn, FlowRouted
  <2>1. CASE wRuns[k] = 1 BY <1>1, <2>1 DEF FlowOneWayIn, FlowRouted
  <2>2. CASE k \in frontier'
    <3>1. k \in soon BY <1>4, <1>6, <2>2
    <3>2. PICK m \in frontier : k \in K!Successors(m, edges) BY <1>7, <3>1
    <3>3. n = m BY <1>5, <3>2, FlowOneBefore
    <3>4. QED BY <1>1, <1>2, <3>2, <3>3 DEF FlowRunsOnce
  <2>3. QED BY <2>1, <2>2
<1>13. FlowBranches'
  <2>1. CASE soon # {}
    <3>1. frontier' = soon BY <1>4, <2>1
    <3>2. ASSUME NEW k \in soon, NEW l \in soon PROVE l \notin K!Behind({k}, edges)
      <4>1. PICK n \in frontier : k \in K!Successors(n, edges) BY <1>7
      <4>2. PICK m \in frontier : l \in K!Successors(m, edges) BY <1>7
      <4>3. k \in Node /\ l \in Node \ K!Joins BY <1>6
      <4>4. QED BY <1>1, <4>1, <4>2, <4>3, FlowBranchesGoOn
    <3>3. QED BY <1>2, <3>1, <3>2 DEF FlowBranches
  <2>2. CASE soon = {}
    <3>1. frontier' \subseteq K!Joins BY <1>4, <1>6, <2>2
    <3>2. QED BY <1>2, <3>1 DEF FlowBranches, K!JoinsApart
  <2>3. QED BY <2>1, <2>2
<1>14. FlowJoinsLast'
  <2>1. CASE soon = {}
    <3>1. frontier' \subseteq K!Joins /\ deferred' = {} BY <1>4, <1>6, <2>1
    <3>2. QED BY <1>2, <1>5, <3>1 DEF FlowJoinsLast, K!JoinsApart
  <2>2. CASE soon # {} /\ \A j \in K!Joins : wRuns[j] = 0 /\ j \notin frontier
    <3>1. frontier' = soon BY <1>4, <2>2
    <3>2. QED BY <1>2, <1>5, <1>6, <2>2, <3>1 DEF FlowJoinsLast
  <2>3. CASE soon # {} /\ ~\A j \in K!Joins : wRuns[j] = 0 /\ j \notin frontier
    <3>1. \A n \in frontier : K!Behind({n}, edges) \cap K!Joins = {} BY <1>1, <2>3 DEF FlowJoinsLast
    <3>2. frontier' = soon /\ deferred' = {} BY <1>4, <1>10, <2>3
    <3>3. ASSUME NEW k \in soon PROVE K!Behind({k}, edges) \cap K!Joins = {}
      <4>1. PICK n \in frontier : k \in K!Successors(n, edges) BY <1>7
      <4>2. k \in K!Behind({n}, edges) BY <1>5, <4>1, FlowBehindHas
      <4>3. K!Behind({k}, edges) \subseteq K!Behind({n}, edges) BY <1>5, <4>2, FlowBehindBehind
      <4>4. QED BY <3>1, <4>3
    <3>4. QED BY <1>2, <1>5, <3>2, <3>3 DEF FlowJoinsLast
  <2>4. QED BY <2>1, <2>2, <2>3
<1>15. QED BY <1>11, <1>12, <1>13, <1>14

LEMMA FlowStep == FlowInv /\ [K!Next]_K!wkvars => FlowInv'
<1> SUFFICES ASSUME FlowInv, [K!Next]_K!wkvars PROVE FlowInv' OBVIOUS
<1>1. FlowTypes /\ FlowTypes' BY FlowTypesStay DEF FlowInv
<1>2. edges' = edges BY DEF K!Next, K!wkvars, K!RunNodes, K!RunRouters
<1>3. K!JoinsApart' = K!JoinsApart BY <1>2 DEF K!JoinsApart, K!Joins, K!Incoming
<1> SUFFICES ASSUME K!JoinsApart PROVE FlowRunsOnce' /\ FlowOneWayIn' /\ FlowBranches' /\ FlowJoinsLast'
  BY <1>1, <1>3 DEF FlowInv
<1>4. FlowRunsOnce /\ FlowOneWayIn /\ FlowBranches /\ FlowJoinsLast BY DEF FlowInv
<1>5. K!Joins' = K!Joins BY <1>2 DEF K!Joins, K!Incoming
<1>6. CASE UNCHANGED K!wkvars
  BY <1>4, <1>5, <1>6 DEF K!wkvars, FlowRunsOnce, FlowOneWayIn, FlowRouted, FlowBranches,
     FlowJoinsLast
<1>7. CASE K!RunNodes BY <1>1, <1>7, FlowNodesRunOnce
<1>8. CASE K!RunRouters /\ wAt' # "failed" BY <1>1, <1>8, FlowRoutersGoOn
<1>9. CASE K!RunRouters /\ wAt' = "failed"
  <2>1. UNCHANGED <<edges, frontier, deferred, wRuns>> BY <1>9 DEF K!RunRouters, K!Goes
  <2>2. FlowRunsOnce' BY <1>4, <1>9, <2>1 DEF FlowRunsOnce
  <2>3. FlowOneWayIn' BY <1>4, <1>5, <1>9, <2>1 DEF FlowOneWayIn, FlowRouted
  <2>4. QED BY <1>4, <1>5, <2>1, <2>2, <2>3 DEF FlowBranches, FlowJoinsLast
<1>10. QED BY <1>6, <1>7, <1>8, <1>9 DEF K!Next

LEMMA FlowHolds == FlowInv => K!JoinsWait
BY DEF FlowInv, K!JoinsWait, FlowRunsOnce, FlowBranches

\* JoinsWait, of every workflow over any nodes and finitely many edges that may be saved,
\* whatever its nodes return and its conditions choose: as long as no join is behind
\* another, every node runs at most once, and a join runs when nothing that leads to it
\* is still to run (build_worker's deferred nodes).
THEOREM JoinsRunLast == Spec => []JoinsWait
<1>1. Init => FlowInv
  BY FlowInit, FlowNoWorkflow DEF Init
<1>2. FlowInv /\ [Next]_vars => FlowInv'
  BY FlowStep, OnePartMoves
<1>3. FlowInv => JoinsWait
  BY FlowHolds DEF JoinsWait
<1>4. QED
  BY <1>1, <1>2, <1>3, PTL DEF Spec


-----------------------------------------------------------------------------
(* Tool calls of a strict loop (ToolCalls) *)

CallsRows == [Tool -> [st : {"active", "inactive", "gone"}, back : BOOLEAN]]
CallsInstances == [bound : SUBSET Tool, named : SUBSET Tool, reported : SUBSET Tool]

\* Of what an instance reported missing, it has the names: but of what was deleted.
CallsAccounted(i) == \A t \in i.reported : t \in i.named \/ cRow[t].st = "gone" \/ cRow[t].back

CallsInv ==
  /\ cRow \in CallsRows /\ instance \in CallsInstances
  /\ CallsAccounted(instance)
  /\ C!Strict => dodged = {}

LEMMA CallsInit == C!Init => CallsInv
BY DEF C!Init, CallsInv, CallsRows, CallsInstances, C!Blank, CallsAccounted

\* A second look names what is missing, and what it does not bind is missing.
LEMMA CallsResolvedOK ==
  ASSUME CallsInv
  PROVE  /\ C!Resolved(instance) \in CallsInstances /\ CallsAccounted(C!Resolved(instance))
         /\ \A n \in Tool : n \notin C!Resolved(instance).bound => n \in C!Resolved(instance).reported
<1> DEFINE missing == {t \in Tool : cRow[t].st # "active"}
           anew == missing # {} /\ missing # instance.reported
           i == [bound |-> Tool \ missing,
                 named |-> IF anew THEN {t \in missing : cRow[t].st # "gone"} ELSE instance.named,
                 reported |-> IF anew THEN missing ELSE instance.reported]
<1>1. C!Resolved(instance) = i BY DEF C!Resolved
<1>2. missing \subseteq Tool OBVIOUS
<1>3. CASE anew
  <2>1. i.bound = Tool \ missing /\ i.named = {t \in missing : cRow[t].st # "gone"} /\ i.reported = missing
    BY <1>3
  <2>2. i \in CallsInstances BY <1>2, <1>3 DEF CallsInstances
  <2> HIDE DEF i
  <2>3. CallsAccounted(i) BY <2>1 DEF CallsAccounted
  <2>4. QED BY <1>1, <2>1, <2>2, <2>3
<1>4. CASE ~anew
  <2>1. i.bound = Tool \ missing /\ i.named = instance.named /\ i.reported = instance.reported
    BY <1>4
  <2>2. i \in CallsInstances BY <1>2, <1>4 DEF CallsInstances, CallsInv
  <2>3. missing = {} \/ missing = instance.reported BY <1>4
  <2> HIDE DEF i, missing
  <2>4. CallsAccounted(i) BY <2>1 DEF CallsAccounted, CallsInv
  <2>5. \A n \in Tool : n \notin i.bound => n \in i.reported BY <2>1, <2>3
  <2>6. QED BY <1>1, <2>2, <2>4, <2>5
<1>5. QED BY <1>3, <1>4

LEMMA CallsStep == CallsInv /\ [C!Next]_C!kvars => CallsInv'
<1> SUFFICES ASSUME CallsInv, [C!Next]_C!kvars PROVE CallsInv'
  OBVIOUS
<1>1. ASSUME UNCHANGED <<cRow, instance>>, (C!Strict => dodged = {})' PROVE CallsInv'
  BY <1>1 DEF CallsInv, CallsAccounted
<1>2. ASSUME UNCHANGED cRow, instance' = C!Resolved(instance), (C!Strict => dodged = {})' PROVE CallsInv'
  <2>1. instance' \in CallsInstances /\ CallsAccounted(C!Resolved(instance))
    BY <1>2, CallsResolvedOK
  <2>2. CallsAccounted(instance)' BY <1>2, <2>1 DEF CallsAccounted
  <2>3. QED BY <1>2, <2>1, <2>2 DEF CallsInv
<1>3. CASE C!ModelCall
  BY <1>2, <1>3 DEF C!ModelCall, CallsInv, C!Strict
<1>4. CASE C!TurnEnds \/ UNCHANGED C!kvars
  BY <1>1, <1>4 DEF C!TurnEnds, C!kvars, C!world, CallsInv, C!Strict
<1>5. CASE C!Resume
  <2>1. instance' = C!Blank /\ UNCHANGED <<cRow, cKind, dodged>> BY <1>5 DEF C!Resume
  <2>2. C!Blank \in CallsInstances /\ C!Blank.reported = {} BY DEF C!Blank, CallsInstances
  <2>3. QED BY <2>1, <2>2 DEF CallsInv, CallsAccounted, C!Strict
<1>6. ASSUME NEW t \in Tool, C!Edit(t) PROVE CallsInv'
  <2>1. PICK st \in {"active", "inactive", "gone"} :
          cRow' = [cRow EXCEPT ![t].st = st, ![t].back = @ \/ cRow[t].st = "gone"]
    BY <1>6 DEF C!Edit
  <2> DEFINE new == [st |-> st, back |-> cRow[t].back \/ cRow[t].st = "gone"]
  <2>2. cRow \in CallsRows /\ cRow[t] = [st |-> cRow[t].st, back |-> cRow[t].back]
    BY DEF CallsInv, CallsRows
  <2> DEFINE h == [cRow EXCEPT ![t].st = st]
  <2>3. cRow' = [h EXCEPT ![t].back = cRow[t].back \/ cRow[t].st = "gone"] BY <2>1
  <2>4. h[t] = [st |-> st, back |-> cRow[t].back] /\ h \in CallsRows
    BY <2>2 DEF CallsRows
  <2>5. h = [cRow EXCEPT ![t] = h[t]] BY <2>2 DEF CallsRows
  <2> HIDE DEF h
  <2>6. [h[t] EXCEPT !.back = cRow[t].back \/ cRow[t].st = "gone"] = new BY <2>4
  <2>7. cRow' = [h EXCEPT ![t] = new] BY <2>3, <2>6
  <2>8. cRow' = [cRow EXCEPT ![t] = new] BY <2>2, <2>4, <2>5, <2>7 DEF CallsRows
  <2>9. new \in [st : {"active", "inactive", "gone"}, back : BOOLEAN] /\ new.back = (cRow[t].back \/ cRow[t].st = "gone")
    BY <2>2 DEF CallsRows
  <2> HIDE DEF new
  <2>10. cRow' \in CallsRows BY <2>2, <2>8, <2>9 DEF CallsRows
  <2>11. \A u \in Tool : cRow'[u] = IF u = t THEN new ELSE cRow[u] BY <2>2, <2>8 DEF CallsRows
  <2>12. UNCHANGED <<cKind, instance, dodged>> BY <1>6 DEF C!Edit
  <2>13. instance.reported \subseteq Tool BY DEF CallsInv, CallsInstances
  <2>14. CallsAccounted(instance)' BY <2>9, <2>11, <2>12, <2>13 DEF CallsInv, CallsAccounted
  <2>15. QED BY <2>10, <2>12, <2>14 DEF CallsInv, C!Strict
<1>7. ASSUME NEW n \in C!Name, C!Begin(n) PROVE CallsInv'
  <2>1. UNCHANGED <<cRow, cKind>> /\ (instance' = instance \/ instance' = C!Resolved(instance))
    BY <1>7 DEF C!Begin, C!world
  <2>2. CASE n \in instance'.bound
    BY <1>1, <1>2, <1>7, <2>1, <2>2 DEF C!Begin, CallsInv, C!Strict
  <2>3. CASE n \notin instance'.bound
    <3>1. instance' = C!Resolved(instance) /\ C!Fails(n, n \in instance'.named)
      BY <1>7, <2>3 DEF C!Begin
    <3>2. ASSUME n \in Tool, cRow[n].st # "gone", ~cRow[n].back PROVE n \in instance'.named
      <4>1. n \in C!Resolved(instance).reported /\ CallsAccounted(C!Resolved(instance))
        BY <2>3, <3>1, <3>2, CallsResolvedOK
      <4>2. QED BY <3>1, <3>2, <4>1 DEF CallsAccounted
    <3>3. (C!Strict => dodged = {})' BY <2>1, <3>1, <3>2 DEF C!Fails, CallsInv, C!Strict
    <3>4. QED BY <1>2, <2>1, <3>1, <3>3
  <2>4. QED BY <2>2, <2>3
<1>8. ASSUME NEW n \in C!Name, C!End(n) PROVE CallsInv'
  <2>1. UNCHANGED <<cRow, cKind, instance>> BY <1>8 DEF C!End, C!world
  <2>2. CASE UNCHANGED dodged BY <1>1, <2>1, <2>2 DEF CallsInv, C!Strict
  <2>3. CASE C!Fails(n, TRUE) BY <1>1, <2>1, <2>3 DEF C!Fails, CallsInv, C!Strict
  <2>4. QED BY <1>8, <2>2, <2>3 DEF C!End
<1>9. QED
  BY <1>3, <1>4, <1>5, <1>6, <1>7, <1>8 DEF C!Next

\* StrictLoopsFail, whoever edits rows between a loop's calls and its pauses: a name the
\* loop does not find missing was deleted, or is not one of its tools
\* (ToolsRegistryMiddleware._resolve, awrap_tool_call).
THEOREM ContractsHold == Spec => []StrictLoopsFail
<1>1. Init => CallsInv
  BY CallsInit DEF Init
<1>2. CallsInv /\ [Next]_vars => CallsInv'
  BY CallsStep, OnePartMoves
<1>3. CallsInv => StrictLoopsFail
  BY DEF StrictLoopsFail, CallsInv, C!StrictLoopsFail
<1>4. QED
  BY <1>1, <1>2, <1>3, PTL DEF Spec


-----------------------------------------------------------------------------
(* The ladder (Ladder) *)

LadderPlaces == {"idle", "resolve", "snapshot", "start", "compile", "runs", "done", "refused"}
LadderRungs  == {"none", "native", "inline", "custom", "dynamic"}

\* The dispatch is a record; of the definitions it holds nothing needs to be known.
LadderDispatchOK ==
  /\ d = [at |-> d.at, cap |-> d.cap, rung |-> d.rung, card |-> d.card, snap |-> d.snap,
          pin |-> d.pin, ran |-> d.ran, replay |-> d.replay]
  /\ d.at # "idle" => d.cap \in {"skill", "use", "spin"} \cup R!Agents
  /\ d.at \in LadderPlaces /\ d.rung \in LadderRungs /\ d.replay \in BOOLEAN
  /\ rMode \in {"graph", "agentic"}

\* A graph in the compile cache was built of what its key names.
LadderCacheOK == \A c \in compiled : c.of = c.key

\* Once a step exists, and in the replay of a graph's dispatch even before it is
\* adopted, its pin is what the resolution found.
LadderPinOK ==
  /\ d.at \in {"compile", "runs"} => (d.replay /\ rMode = "agentic") \/ d.pin = R!Pin
  /\ d.at = "start" /\ d.replay => rMode = "agentic" \/ d.pin = R!Pin

\* A dispatch that is to start has a rung.
LadderRungOK == d.at \in {"snapshot", "start", "compile", "runs"} => d.rung \in LadderRungs \ {"none"}

\* A plan's dispatch is resolved once.
LadderResolvedOnce == d.at \in {"resolve", "snapshot"} => rMode = "agentic" \/ ~d.replay

LadderInv == LadderDispatchOK /\ LadderCacheOK /\ LadderPinOK /\ LadderRungOK /\ LadderResolvedOnce /\ R!RunsItsPin

-----------------------------------------------------------------------------
LEMMA LadderInit == R!Init => LadderInv
BY DEF R!Init, LadderInv, LadderDispatchOK, LadderCacheOK, LadderPinOK, LadderRungOK,
   LadderResolvedOnce, R!RunsItsPin, R!Idle, LadderPlaces, LadderRungs

\* Resolution goes to a place with a rung that fits it.
LEMMA LadderResolutionGoes ==
  ASSUME R!Resolve, LadderDispatchOK
  PROVE  \E from \in {"start", "snapshot", "refused"}, rung \in LadderRungs : \E card, snap :
           R!Goes(from, rung, card, snap) /\ (from # "refused" => rung # "none")
<1>1. \/ R!Refused \/ R!Dynamic \/ R!ToNative \/ R!ToCustom \/ R!Goes("start", "inline", 0, R!OfSkill)
  BY DEF R!Resolve, R!ForSkill, R!Agents, LadderDispatchOK
<1>2. R!Dynamic => R!Refused \/ R!Goes("start", "dynamic", 0, R!OfSkill)
  BY DEF R!Dynamic
<1> HIDE DEF R!Goes
<1>3. QED
  BY <1>1, <1>2 DEF R!Refused, R!ToNative, R!ToCustom, LadderRungs

\* What get_compiled_worker hands out was built of the definitions it was asked for.
LEMMA LadderCompiledRunIsOfKey ==
  ASSUME LadderCacheOK, R!Run, d.rung = "custom"
  PROVE  /\ d.at = "compile" /\ rMode' = rMode
         /\ d' = [d EXCEPT !.at = "runs", !.ran = d.snap]
         /\ LadderCacheOK'
<1> DEFINE hits == {c \in compiled : c.key = d.snap}
           built == IF hits = {} THEN {[key |-> d.snap, of |-> d.snap]} ELSE hits
<1>1. /\ compiled' = compiled \cup built
      /\ d.at = "compile" /\ rMode' = rMode
      /\ d' = [d EXCEPT !.at = "runs", !.ran = (CHOOSE c \in built : TRUE).of]
  BY DEF R!Run, R!Key
<1>2. built # {} /\ \A c \in built : c.key = d.snap /\ c.of = d.snap
  <2>1. CASE hits = {}
    <3>1. built = {[key |-> d.snap, of |-> d.snap]}
      BY <2>1
    <3> HIDE DEF built, hits
    <3>2. QED
      BY <3>1
  <2>2. CASE hits # {}
    BY <2>2 DEF LadderCacheOK
  <2>3. QED
    BY <2>1, <2>2
<1> HIDE DEF built
<1>3. (CHOOSE c \in built : TRUE) \in built
  BY <1>2
<1>4. (CHOOSE c \in built : TRUE).of = d.snap
  BY <1>2, <1>3
<1>5. LadderCacheOK'
  BY <1>1, <1>2 DEF LadderCacheOK
<1>6. QED
  BY <1>1, <1>4, <1>5

\* So a custom dispatch runs what it was pinned to.
LEMMA LadderCompiledRunKeepsPin ==
  ASSUME LadderInv, R!Run, d.rung = "custom"
  PROVE  LadderInv'
<1>1. /\ d.at = "compile" /\ rMode' = rMode
      /\ d' = [d EXCEPT !.at = "runs", !.ran = d.snap]
      /\ LadderCacheOK'
  BY LadderCompiledRunIsOfKey DEF LadderInv
<1>2. d' = [at |-> "runs", cap |-> d.cap, rung |-> "custom", card |-> d.card, snap |-> d.snap,
            pin |-> d.pin, ran |-> d.snap, replay |-> d.replay]
  BY <1>1 DEF LadderInv, LadderDispatchOK
<1>3. LadderDispatchOK'
  BY <1>1, <1>2 DEF LadderInv, LadderDispatchOK, LadderPlaces, LadderRungs
<1>4. LadderRungOK' /\ LadderResolvedOnce'
  BY <1>2 DEF LadderRungOK, LadderResolvedOnce, LadderRungs
<1>5. (d.replay /\ rMode = "agentic") \/ d.pin = d.snap.agent
  BY <1>1 DEF LadderInv, LadderPinOK, R!Pin
<1>6. LadderPinOK'
  BY <1>1, <1>2, <1>5 DEF LadderPinOK, R!Pin
<1>7. d'.rung = "custom" /\ d'.ran = d.snap /\ d'.pin = d.pin /\ d'.replay = d.replay
  BY <1>2
<1>8. R!Ran' = d.snap.agent
  BY <1>7 DEF R!Ran
<1>9. R!RunsItsPin'
  BY <1>1, <1>5, <1>7, <1>8 DEF R!RunsItsPin
<1>10. QED
  BY <1>1, <1>3, <1>4, <1>6, <1>9 DEF LadderInv

LEMMA LadderStep == LadderInv /\ [R!Next]_R!lvars => LadderInv'
<1> SUFFICES ASSUME LadderInv, [R!Next]_R!lvars PROVE LadderInv'
  OBVIOUS
<1>0. R!Run /\ d.rung = "custom" => LadderInv'
  BY LadderCompiledRunKeepsPin
<1> USE DEF LadderInv, LadderDispatchOK, LadderCacheOK, LadderPinOK, LadderRungOK, LadderResolvedOnce, R!RunsItsPin, R!Pin, R!Ran, LadderPlaces, LadderRungs
<1>1. CASE UNCHANGED <<rMode, d, compiled>>
  BY <1>1
<1>2. CASE R!Ask
  BY <1>2 DEF R!Ask, R!Idle
<1>3. CASE R!Resolve
  <2>1. PICK from \in {"start", "snapshot", "refused"}, rung \in LadderRungs :
          \E card, snap : R!Goes(from, rung, card, snap) /\ (from # "refused" => rung # "none")
    BY <1>3, LadderResolutionGoes
  <2>2. PICK card, snap : R!Goes(from, rung, card, snap) /\ (from # "refused" => rung # "none")
    BY <2>1
  <2>3. d.at = "resolve" /\ rMode' = rMode /\ compiled' = compiled
    BY <1>3 DEF R!Resolve
  <2>4. QED
    BY <2>1, <2>2, <2>3 DEF R!Goes
<1>4. CASE R!Snapshot
  BY <1>4 DEF R!Snapshot
<1>5. CASE R!Start
  <2>1. d' = [d EXCEPT !.at = "compile", !.pin = IF d.replay THEN d.pin ELSE R!Pin]
    BY <1>5 DEF R!Start
  <2>2. R!Pin' = R!Pin
    BY <2>1
  <2>3. QED
    BY <1>5, <2>1, <2>2 DEF R!Start
<1>6. CASE R!Run
  <2>1. CASE d.rung = "custom"
    BY <1>6, <2>1, <1>0
  <2>2. CASE d.rung # "custom"
    <3>1. /\ d.at = "compile" /\ rMode' = rMode /\ compiled' = compiled
          /\ d' = [d EXCEPT !.at = "runs",
                    !.ran = IF d.rung = "native" THEN [R!Nothing EXCEPT !.agent = d.card] ELSE d.snap]
      BY <1>6, <2>2 DEF R!Run
    <3>2. QED
      BY <2>2, <3>1 DEF R!Nothing
  <2>3. QED
    BY <2>1, <2>2
<1>7. CASE R!Finish
  BY <1>7 DEF R!Finish
<1>8. CASE R!PauseAndResume
  <2>1. d' = [d EXCEPT !.at = IF rMode = "graph" THEN "start" ELSE "resolve", !.replay = TRUE]
    BY <1>8 DEF R!PauseAndResume
  <2>2. R!Pin' = R!Pin
    BY <2>1
  <2>3. QED
    BY <1>8, <2>1, <2>2 DEF R!PauseAndResume
<1>9. QED
  BY <1>1, <1>2, <1>3, <1>4, <1>5, <1>6, <1>7, <1>8 DEF R!Next, R!Edit, R!Unlock, R!lvars

\* RunsItsPin, through any edits between resolution, compilation, pause and replay: the
\* compile cache returns what its key names (get_compiled_worker), and a replayed
\* dispatch of a plan keeps the definition its step pinned (one of an agentic loop does not).
THEOREM DispatchRunsItsPin == Spec => []RunsItsPin
<1>1. Init => LadderInv
  BY LadderInit DEF Init
<1>2. LadderInv /\ [Next]_vars => LadderInv'
  BY LadderStep, OnePartMoves
<1>3. LadderInv => RunsItsPin
  BY DEF RunsItsPin, LadderInv, R!RunsItsPin
<1>4. QED
  BY <1>1, <1>2, <1>3, PTL DEF Spec


-----------------------------------------------------------------------------
(* Evaluations (Evals) *)

EvalOutcomes == B!Verdicts \cup {B!None}
EvalCounters == [B!Verdicts -> Nat]

EvalTypes ==
  /\ here \in BOOLEAN
  /\ batch \in [st : {B!None, "running", "completed", "failed"}, counts : EvalCounters]
  /\ eTask \in [at : {"rest", "read", "next", "await", "approve", "commit", "fails", "over"},
               case : Case \cup {B!None}, counts : EvalCounters, verdict : EvalOutcomes]
  /\ eResult \in [Case -> EvalOutcomes]
  /\ child \in [Case -> [st : {B!None, "queued", "running", "paused", "completed", "failed"}, pauses : Nat]]

\* The batch adds its counters up for itself; while it runs they are those of the rows.
EvalCountsOK ==
  here =>
    /\ batch.counts = B!Tally
    /\ eTask.at \notin {"fails", "over"} => eTask.counts = B!Tally
    /\ batch.st = B!None => eTask = B!Quiet

\* One case at a time: it has a run and no verdict, the ones before it have both, and
\* the ones behind it have neither.
EvalOneByOne ==
  /\ eTask.at \in {"await", "approve", "commit"} => eTask.case \in Case /\ child[eTask.case].st # B!None
  /\ eTask.at \in {"next", "await", "approve", "commit"} => cases = Case
  /\ here => \A c \in Case :
       /\ child[c].st = B!None => eResult[c] = B!None
       /\ eTask.at \in {"await", "approve", "commit"} /\ c = eTask.case => eResult[c] = B!None
       /\ eTask.at \in {"next", "await", "approve", "commit"} /\ child[c].st # B!None /\ eResult[c] = B!None
            => eTask.at # "next" /\ c = eTask.case
  /\ eTask.at \in {"rest", "read"} => \A c \in Case : child[c].st = B!None
  /\ batch.st = "completed" => \A c \in Case : eResult[c] # B!None

\* A verdict is written when the run is over, or given up.
EvalVerdictOK ==
  /\ eTask.at = "commit" =>
       /\ eTask.verdict \in B!Verdicts
       /\ eTask.case \in gaveUp \/ child[eTask.case].st \in {"completed", "failed"}
  /\ \A c \in Case \ gaveUp : eResult[c] # B!None => child[c].st \in {"completed", "failed"}

EvalInv == EvalTypes /\ EvalCountsOK /\ EvalOneByOne /\ EvalVerdictOK

-----------------------------------------------------------------------------
LEMMA EvalNothingTallied ==
  ASSUME eResult = [c \in Case |-> B!None]
  PROVE  B!Tally = B!Zero
<1>1. ASSUME NEW v \in B!Verdicts PROVE Cardinality({c \in Case : eResult[c] = v}) = 0
  <2>1. {c \in Case : eResult[c] = v} = {} BY DEF B!Verdicts, B!None
  <2>2. QED BY <2>1, FS_EmptySet
<1>2. QED BY <1>1, SameSize DEF B!Tally, B!Zero

\* One more verdict is one more in its counter.
LEMMA EvalOneMoreTallied ==
  ASSUME EvalTypes, NEW c \in Case, NEW v \in B!Verdicts, eResult[c] = B!None,
         eResult' = [eResult EXCEPT ![c] = v]
  PROVE  B!Tally' = B!Counted(B!Tally, v)
<1> DEFINE Having(r, x) == {k \in Case : r[k] = x}
<1>1. /\ eResult'[c] = v /\ v # B!None
      /\ \A k \in Case : k # c => eResult'[k] = eResult[k]
  BY DEF EvalTypes, B!Verdicts, B!None
<1>2. \A x : IsFiniteSet(Having(eResult, x))
  BY CasesAreFinite, FS_Subset
<1>3. Having(eResult', v) = Having(eResult, v) \cup {c} /\ c \notin Having(eResult, v)
  BY <1>1
<1>4. \A x \in B!Verdicts : x # v => Having(eResult', x) = Having(eResult, x)
  BY <1>1 DEF B!Verdicts, B!None
<1>5. B!Tally' = [x \in B!Verdicts |-> Cardinality(Having(eResult', x))]
      /\ B!Tally = [x \in B!Verdicts |-> Cardinality(Having(eResult, x))]
  BY SameSize DEF B!Tally
<1> HIDE DEF Having
<1>6. Cardinality(Having(eResult', v)) = Cardinality(Having(eResult, v)) + 1
  BY <1>2, <1>3, FS_AddElement
<1>7. QED BY <1>4, <1>5, <1>6 DEF B!Counted

LEMMA EvalInit == B!Init => EvalInv
<1> SUFFICES ASSUME B!Init PROVE EvalInv OBVIOUS
<1>1. EvalTypes
  BY DEF B!Init, EvalTypes, EvalOutcomes, EvalCounters, B!Verdicts, B!Zero, B!Quiet
<1>2. B!Tally = B!Zero BY EvalNothingTallied DEF B!Init
<1>3. EvalCountsOK BY <1>2 DEF B!Init, EvalCountsOK, B!Quiet
<1>4. EvalOneByOne /\ EvalVerdictOK BY DEF B!Init, EvalOneByOne, EvalVerdictOK, B!Quiet, B!None
<1>5. QED BY <1>1, <1>3, <1>4 DEF EvalInv

\* A step of a run: none comes to be, and none that is over starts again.
LEMMA EvalRunsKeep ==
  ASSUME EvalInv, UNCHANGED <<here, batch, eTask, cases, eResult, gaveUp>>,
         child' \in [Case -> [st : {B!None, "queued", "running", "paused", "completed", "failed"}, pauses : Nat]],
         \A c \in Case : /\ child'[c].st = B!None <=> child[c].st = B!None
                         /\ child[c].st \in {"completed", "failed"} => child'[c].st = child[c].st
  PROVE  EvalInv'
<1>1. EvalTypes' BY DEF EvalInv, EvalTypes
<1>2. B!Tally' = B!Tally BY DEF B!Tally
<1>3. EvalCountsOK' BY <1>2 DEF EvalInv, EvalCountsOK
<1>4. EvalOneByOne' BY DEF EvalInv, EvalOneByOne
<1>5. EvalVerdictOK' BY DEF EvalInv, EvalVerdictOK, EvalTypes, EvalOneByOne
<1>6. QED BY <1>1, <1>3, <1>4, <1>5 DEF EvalInv

LEMMA EvalStep == EvalInv /\ [B!Next]_B!bvars => EvalInv'
<1> SUFFICES ASSUME EvalInv, [B!Next]_B!bvars PROVE EvalInv'
  OBVIOUS
<1> USE DEF EvalInv
<1>1. CASE B!StartBatch
  <2>1. /\ here /\ batch.st = B!None /\ eTask = B!Quiet /\ UNCHANGED <<here, cases, eResult, child, gaveUp>>
        /\ batch' = [batch EXCEPT !.st = "running"] /\ eTask' = [eTask EXCEPT !.at = "read"]
    BY <1>1 DEF B!StartBatch, B!Goes, EvalCountsOK
  <2>2. batch' = [st |-> "running", counts |-> batch.counts]
    BY <2>1 DEF EvalTypes
  <2>3. eTask' = [at |-> "read", case |-> eTask.case, counts |-> eTask.counts, verdict |-> eTask.verdict]
    BY <2>1 DEF EvalTypes
  <2>4. EvalTypes' BY <2>1, <2>2, <2>3 DEF EvalTypes
  <2>5. B!Tally' = B!Tally BY <2>1 DEF B!Tally
  <2>6. EvalCountsOK' BY <2>1, <2>2, <2>3, <2>5 DEF EvalCountsOK, B!Quiet, B!None
  <2>7. eTask.at = "rest" BY <2>1 DEF B!Quiet
  <2>8. EvalOneByOne' BY <2>1, <2>2, <2>3, <2>7 DEF EvalOneByOne
  <2>9. EvalVerdictOK' BY <2>1, <2>2, <2>3 DEF EvalVerdictOK
  <2>10. QED BY <2>4, <2>6, <2>8, <2>9
<1>2. CASE B!ReadCases
  <2>1. eTask.at = "read" /\ UNCHANGED <<here, batch, eResult, child, gaveUp>>
    BY <1>2 DEF B!ReadCases
  <2>2. B!Tally' = B!Tally BY <2>1 DEF B!Tally
  <2>3. CASE here /\ cases' = Case /\ B!Goes("next")
    <3>1. eTask' = [at |-> "next", case |-> eTask.case, counts |-> eTask.counts, verdict |-> eTask.verdict]
      BY <2>3 DEF B!Goes, EvalTypes
    <3>2. EvalTypes' BY <2>1, <3>1 DEF EvalTypes
    <3>3. EvalCountsOK' BY <2>1, <2>2, <2>3, <3>1 DEF EvalCountsOK, B!Quiet
    <3>4. EvalOneByOne' /\ EvalVerdictOK' BY <2>1, <2>3, <3>1 DEF EvalOneByOne, EvalVerdictOK
    <3>5. QED BY <3>2, <3>3, <3>4
  <2>4. CASE ~here /\ cases' = cases /\ B!Goes("over")
    <3>1. eTask' = [at |-> "over", case |-> eTask.case, counts |-> eTask.counts, verdict |-> eTask.verdict]
      BY <2>4 DEF B!Goes, EvalTypes
    <3>2. EvalTypes' BY <2>1, <3>1 DEF EvalTypes
    <3>3. EvalCountsOK' BY <2>1, <2>4 DEF EvalCountsOK
    <3>4. EvalOneByOne' /\ EvalVerdictOK' BY <2>1, <2>4, <3>1 DEF EvalOneByOne, EvalVerdictOK
    <3>5. QED BY <3>2, <3>3, <3>4
  <2>5. QED BY <1>2, <2>3, <2>4 DEF B!ReadCases
<1>3. CASE B!NextCase
  <2>1. eTask.at = "next" /\ UNCHANGED <<here, batch, cases, eResult, gaveUp>>
    BY <1>3 DEF B!NextCase
  <2>2. B!Tally' = B!Tally BY <2>1 DEF B!Tally
  <2>3. ASSUME NEW c \in Case, B!Starts(c) PROVE EvalInv'
    <3>1. eTask' = [at |-> "await", case |-> c, counts |-> eTask.counts, verdict |-> eTask.verdict]
      BY <2>3 DEF EvalTypes, B!Starts
    <3>2. /\ child'[c] = [st |-> "queued", pauses |-> child[c].pauses]
          /\ \A x \in Case : x # c => child'[x] = child[x]
          /\ child' \in [Case -> [st : {B!None, "queued", "running", "paused", "completed", "failed"}, pauses : Nat]]
      BY <2>3 DEF EvalTypes, B!Starts
    <3>3. EvalTypes' BY <2>1, <3>1, <3>2 DEF EvalTypes
    <3>4. EvalCountsOK' BY <2>1, <2>2, <3>1 DEF EvalCountsOK, B!Quiet
    <3>5. child[c].st = B!None BY <2>3 DEF B!Starts
    <3>6. \A x \in Case : x # c => (child'[x].st = B!None <=> child[x].st = B!None)
      BY <3>2
    <3>7. child'[c].st # B!None BY <3>2 DEF B!None
    <3>8. EvalOneByOne' BY <2>1, <3>1, <3>5, <3>6, <3>7 DEF EvalOneByOne
    <3>9. EvalVerdictOK'
      <4>1. here => eResult[c] = B!None BY <3>5 DEF EvalOneByOne
      <4>2. \A x \in Case \ gaveUp : eResult[x] # B!None => x # c \/ ~here
        BY <4>1
      <4>3. child[c].st \notin {"completed", "failed"} BY <3>5 DEF B!None
      <4>4. \A x \in Case \ gaveUp : eResult[x] # B!None => x # c
        BY <4>3 DEF EvalVerdictOK
      <4>5. QED BY <2>1, <3>1, <3>2, <4>4 DEF EvalVerdictOK
    <3>10. QED BY <3>3, <3>4, <3>8, <3>9
  <2>4. CASE B!Goes("fails") /\ UNCHANGED child
    <3>1. eTask' = [at |-> "fails", case |-> eTask.case, counts |-> eTask.counts, verdict |-> eTask.verdict]
      BY <2>4 DEF B!Goes, EvalTypes
    <3>2. EvalTypes' BY <2>1, <2>4, <3>1 DEF EvalTypes
    <3>3. EvalCountsOK' BY <2>1, <2>2, <3>1 DEF EvalCountsOK, B!Quiet
    <3>4. EvalOneByOne' /\ EvalVerdictOK' BY <2>1, <2>4, <3>1 DEF EvalOneByOne, EvalVerdictOK
    <3>5. QED BY <3>2, <3>3, <3>4
  <2>5. QED
    <3>1. (B!Goes("fails") /\ UNCHANGED child) \/ \E c \in cases : B!Starts(c)
      BY <1>3 DEF B!NextCase
    <3>2. cases = Case BY <2>1 DEF EvalOneByOne
    <3>3. QED BY <2>3, <2>4, <3>1, <3>2
<1>4. ASSUME NEW c \in Case, B!Runs(c) PROVE EvalInv'
  <2>1. PICK st \in {"running", "paused", "completed", "failed"} :
          /\ child[c].st \in {"queued", "running", "paused"}
          /\ child' = [child EXCEPT ![c].st = st, ![c].pauses = @ + (IF st = "paused" THEN 1 ELSE 0)]
    BY <1>4 DEF B!Runs
  <2>2. UNCHANGED <<here, batch, eTask, cases, eResult, gaveUp>>
    BY <1>4 DEF B!Runs
  <2>3. child[c].pauses + (IF st = "paused" THEN 1 ELSE 0) \in Nat
    BY DEF EvalTypes
  <2> DEFINE h == [child EXCEPT ![c].st = st]
             n == child[c].pauses + (IF st = "paused" THEN 1 ELSE 0)
  <2>4. /\ h[c] = [st |-> st, pauses |-> child[c].pauses]
        /\ \A x \in Case : x # c => h[x] = child[x]
        /\ DOMAIN h = Case /\ h = [x \in Case |-> h[x]]
    BY DEF EvalTypes
  <2>5. child' = [h EXCEPT ![c].pauses = n]
    BY <2>1, <2>4
  <2> HIDE DEF h, n
  <2>6. /\ child'[c] = [st |-> st, pauses |-> n]
        /\ \A x \in Case : x # c => child'[x] = child[x]
        /\ DOMAIN child' = Case /\ child' = [x \in Case |-> child'[x]]
    BY <2>4, <2>5
  <2>7. n \in Nat BY <2>3 DEF n
  <2>8. child' \in [Case -> [st : {B!None, "queued", "running", "paused", "completed", "failed"}, pauses : Nat]]
    BY <2>6, <2>7 DEF EvalTypes
  <2>9. QED BY <2>1, <2>2, <2>6, <2>8, EvalRunsKeep DEF B!None
<1>5. CASE B!Approve
  <2>1. eTask.at = "await" /\ UNCHANGED <<here, batch, cases, eResult, child, gaveUp>>
    BY <1>5 DEF B!Approve
  <2>2. eTask' = [at |-> "approve", case |-> eTask.case, counts |-> eTask.counts, verdict |-> eTask.verdict]
    BY <1>5 DEF B!Approve, B!Goes, EvalTypes
  <2>3. B!Tally' = B!Tally BY <2>1 DEF B!Tally
  <2>4. EvalTypes' BY <2>1, <2>2 DEF EvalTypes
  <2>5. EvalCountsOK' BY <2>1, <2>2, <2>3 DEF EvalCountsOK, B!Quiet
  <2>6. EvalOneByOne' /\ EvalVerdictOK' BY <2>1, <2>2 DEF EvalOneByOne, EvalVerdictOK
  <2>7. QED BY <2>4, <2>5, <2>6
<1>6. CASE B!Resume
  <2>1. eTask.at = "approve" /\ UNCHANGED <<here, batch, cases, eResult>>
    BY <1>6 DEF B!Resume
  <2>2. eTask.case \in Case BY <2>1 DEF EvalOneByOne
  <2>3. B!Tally' = B!Tally BY <2>1 DEF B!Tally
  <2>4. CASE child[eTask.case].st = "paused" /\ B!Goes("await")
             /\ child' = [child EXCEPT ![eTask.case].st = "running"] /\ gaveUp' = gaveUp
    <3>1. eTask' = [at |-> "await", case |-> eTask.case, counts |-> eTask.counts, verdict |-> eTask.verdict]
      BY <2>4 DEF B!Goes, EvalTypes
    <3>2. /\ child'[eTask.case] = [st |-> "running", pauses |-> child[eTask.case].pauses]
          /\ \A x \in Case : x # eTask.case => child'[x] = child[x]
          /\ child' \in [Case -> [st : {B!None, "queued", "running", "paused", "completed", "failed"}, pauses : Nat]]
      BY <2>2, <2>4 DEF EvalTypes
    <3>3. EvalTypes' BY <2>1, <3>1, <3>2 DEF EvalTypes
    <3>4. EvalCountsOK' BY <2>1, <2>3, <3>1 DEF EvalCountsOK, B!Quiet
    <3>5. EvalOneByOne' BY <2>1, <2>2, <2>4, <3>1, <3>2 DEF EvalOneByOne, B!None
    <3>6. EvalVerdictOK' BY <2>1, <2>2, <2>4, <3>1, <3>2 DEF EvalVerdictOK
    <3>7. QED BY <3>3, <3>4, <3>5, <3>6
  <2>5. CASE B!Judged("error") /\ UNCHANGED child /\ gaveUp' = gaveUp \cup {eTask.case}
    <3>1. eTask' = [at |-> "commit", case |-> eTask.case, counts |-> eTask.counts, verdict |-> "error"]
      BY <2>5 DEF B!Judged, EvalTypes
    <3>2. EvalTypes' BY <2>1, <2>5, <3>1 DEF EvalTypes, EvalOutcomes, B!Verdicts
    <3>3. EvalCountsOK' BY <2>1, <2>3, <3>1 DEF EvalCountsOK, B!Quiet
    <3>4. EvalOneByOne' BY <2>1, <2>5, <3>1 DEF EvalOneByOne
    <3>5. EvalVerdictOK' BY <2>1, <2>5, <3>1 DEF EvalVerdictOK, B!Verdicts
    <3>6. QED BY <3>2, <3>3, <3>4, <3>5
  <2>6. QED BY <1>6, <2>4, <2>5 DEF B!Resume
<1>7. CASE B!Grade
  <2>1. /\ eTask.at = "await" /\ UNCHANGED <<here, batch, cases, eResult, child, gaveUp>>
        /\ child[eTask.case].st \notin {"paused", "running", "queued"}
    BY <1>7 DEF B!Grade, B!UnderWay
  <2>2. PICK v \in B!Verdicts : B!Judged(v) BY <1>7 DEF B!Grade
  <2>3. eTask' = [at |-> "commit", case |-> eTask.case, counts |-> eTask.counts, verdict |-> v]
    BY <2>2 DEF B!Judged, EvalTypes
  <2>4. eTask.case \in Case /\ child[eTask.case].st \in {"completed", "failed"}
    BY <2>1 DEF EvalOneByOne, EvalTypes
  <2>5. B!Tally' = B!Tally BY <2>1 DEF B!Tally
  <2>6. EvalTypes' BY <2>1, <2>3 DEF EvalTypes, EvalOutcomes
  <2>7. EvalCountsOK' BY <2>1, <2>3, <2>5 DEF EvalCountsOK, B!Quiet
  <2>8. EvalOneByOne' BY <2>1, <2>3 DEF EvalOneByOne
  <2>9. EvalVerdictOK' BY <2>1, <2>3, <2>4 DEF EvalVerdictOK
  <2>10. QED BY <2>6, <2>7, <2>8, <2>9
<1>8. CASE B!TimesOut
  <2>1. /\ eTask.at = "await" /\ UNCHANGED <<here, batch, cases, eResult, child>>
        /\ gaveUp' = gaveUp \cup {eTask.case}
    BY <1>8 DEF B!TimesOut
  <2>2. eTask' = [at |-> "commit", case |-> eTask.case, counts |-> eTask.counts, verdict |-> "error"]
    BY <1>8 DEF B!TimesOut, B!Judged, EvalTypes
  <2>3. B!Tally' = B!Tally BY <2>1 DEF B!Tally
  <2>4. EvalTypes' BY <2>1, <2>2 DEF EvalTypes, EvalOutcomes, B!Verdicts
  <2>5. EvalCountsOK' BY <2>1, <2>2, <2>3 DEF EvalCountsOK, B!Quiet
  <2>6. EvalOneByOne' BY <2>1, <2>2 DEF EvalOneByOne
  <2>7. EvalVerdictOK' BY <2>1, <2>2 DEF EvalVerdictOK, B!Verdicts
  <2>8. QED BY <2>4, <2>5, <2>6, <2>7
<1>9. CASE B!Commit
  <2>1. eTask.at = "commit" /\ UNCHANGED <<here, cases, child, gaveUp>>
    BY <1>9 DEF B!Commit
  <2>2. eTask.case \in Case /\ eTask.verdict \in B!Verdicts /\ cases = Case
    BY <2>1 DEF EvalOneByOne, EvalVerdictOK
  <2>3. CASE here
    <3> DEFINE now == B!Counted(eTask.counts, eTask.verdict)
    <3>1. /\ eResult' = [eResult EXCEPT ![eTask.case] = eTask.verdict]
          /\ batch' = [batch EXCEPT !.counts = now]
          /\ eTask' = [B!Quiet EXCEPT !.at = "next", !.counts = now]
      BY <1>9, <2>3 DEF B!Commit
    <3>2. eResult[eTask.case] = B!None /\ eTask.counts = B!Tally
      BY <2>1, <2>2, <2>3 DEF EvalOneByOne, EvalCountsOK
    <3>3. B!Tally' = now BY <2>2, <3>1, <3>2, EvalOneMoreTallied
    <3>4. now \in EvalCounters BY <2>2 DEF B!Counted, EvalCounters, EvalTypes
    <3> HIDE DEF now
    <3>5. eTask' = [at |-> "next", case |-> B!None, counts |-> now, verdict |-> B!None]
      BY <3>1 DEF B!Quiet
    <3>6. batch' = [st |-> batch.st, counts |-> now]
      BY <3>1 DEF EvalTypes
    <3>7. /\ eResult'[eTask.case] = eTask.verdict /\ eTask.verdict # B!None
          /\ \A c \in Case : c # eTask.case => eResult'[c] = eResult[c]
          /\ eResult' \in [Case -> EvalOutcomes]
      BY <2>2, <3>1 DEF EvalTypes, EvalOutcomes, B!Verdicts, B!None
    <3>8. EvalTypes' BY <2>1, <3>4, <3>5, <3>6, <3>7 DEF EvalTypes, EvalOutcomes
    <3>9. EvalCountsOK' BY <2>1, <2>3, <3>3, <3>5, <3>6 DEF EvalCountsOK, B!Quiet
    <3>10. EvalOneByOne' BY <2>1, <2>2, <2>3, <3>5, <3>6, <3>7 DEF EvalOneByOne
    <3>11. EvalVerdictOK' BY <2>1, <2>2, <3>5, <3>7 DEF EvalVerdictOK
    <3>12. QED BY <3>8, <3>9, <3>10, <3>11
  <2>4. CASE ~here
    <3>1. B!Goes("fails") /\ UNCHANGED <<eResult, batch>> BY <1>9, <2>4 DEF B!Commit
    <3>2. eTask' = [at |-> "fails", case |-> eTask.case, counts |-> eTask.counts, verdict |-> eTask.verdict]
      BY <3>1 DEF B!Goes, EvalTypes
    <3>3. EvalTypes' BY <2>1, <3>1, <3>2 DEF EvalTypes
    <3>4. EvalCountsOK' BY <2>1, <2>4 DEF EvalCountsOK
    <3>5. EvalOneByOne' /\ EvalVerdictOK' BY <2>1, <2>4, <3>1, <3>2 DEF EvalOneByOne, EvalVerdictOK
    <3>6. QED BY <3>3, <3>4, <3>5
  <2>5. QED BY <2>3, <2>4
<1>10. CASE B!Complete
  <2>1. /\ eTask.at = "next" /\ UNCHANGED <<here, cases, eResult, child, gaveUp>>
        /\ \A c \in Case : child[c].st # B!None
    BY <1>10 DEF B!Complete, EvalOneByOne
  <2>2. B!Tally' = B!Tally BY <2>1 DEF B!Tally
  <2>3. CASE here /\ batch' = [batch EXCEPT !.st = "completed"] /\ B!Goes("over")
    <3>1. eTask' = [at |-> "over", case |-> eTask.case, counts |-> eTask.counts, verdict |-> eTask.verdict]
      BY <2>3 DEF B!Goes, EvalTypes
    <3>2. batch' = [st |-> "completed", counts |-> batch.counts]
      BY <2>3 DEF EvalTypes
    <3>3. EvalTypes' BY <2>1, <3>1, <3>2 DEF EvalTypes
    <3>4. EvalCountsOK' BY <2>1, <2>2, <3>1, <3>2 DEF EvalCountsOK, B!None
    <3>5. \A c \in Case : eResult[c] # B!None BY <2>1, <2>3 DEF EvalOneByOne
    <3>6. EvalOneByOne' /\ EvalVerdictOK' BY <2>1, <3>1, <3>5 DEF EvalOneByOne, EvalVerdictOK
    <3>7. QED BY <3>3, <3>4, <3>6
  <2>4. CASE ~here /\ batch' = batch /\ B!Goes("fails")
    <3>1. eTask' = [at |-> "fails", case |-> eTask.case, counts |-> eTask.counts, verdict |-> eTask.verdict]
      BY <2>4 DEF B!Goes, EvalTypes
    <3>2. EvalTypes' BY <2>1, <2>4, <3>1 DEF EvalTypes
    <3>3. EvalCountsOK' BY <2>1, <2>4 DEF EvalCountsOK
    <3>4. EvalOneByOne' /\ EvalVerdictOK' BY <2>1, <2>4, <3>1 DEF EvalOneByOne, EvalVerdictOK
    <3>5. QED BY <3>2, <3>3, <3>4
  <2>5. QED BY <1>10, <2>3, <2>4 DEF B!Complete
<1>11. CASE B!FailBatch
  <2>1. /\ eTask.at = "fails" /\ UNCHANGED <<here, cases, eResult, child, gaveUp>>
        /\ batch' = IF here THEN [batch EXCEPT !.st = "failed"] ELSE batch
    BY <1>11 DEF B!FailBatch
  <2>2. eTask' = [at |-> "over", case |-> eTask.case, counts |-> eTask.counts, verdict |-> eTask.verdict]
    BY <1>11 DEF B!FailBatch, B!Goes, EvalTypes
  <2>3. B!Tally' = B!Tally BY <2>1 DEF B!Tally
  <2>4. /\ batch'.st = IF here THEN "failed" ELSE batch.st
        /\ batch' = [st |-> IF here THEN "failed" ELSE batch.st, counts |-> batch.counts]
    BY <2>1 DEF EvalTypes
  <2>5. EvalTypes' BY <2>1, <2>2, <2>4 DEF EvalTypes
  <2>6. EvalCountsOK' BY <2>1, <2>2, <2>3, <2>4 DEF EvalCountsOK, B!None
  <2>7. EvalOneByOne' BY <2>1, <2>2, <2>4 DEF EvalOneByOne
  <2>8. EvalVerdictOK' BY <2>1, <2>2 DEF EvalVerdictOK
  <2>9. QED BY <2>5, <2>6, <2>7, <2>8
<1>12. CASE B!DeleteDataset
  <2>1. /\ here' = FALSE /\ batch' = [st |-> B!None, counts |-> B!Zero]
        /\ eResult' = [c \in Case |-> B!None] /\ UNCHANGED <<eTask, cases, child, gaveUp>>
    BY <1>12 DEF B!DeleteDataset
  <2>2. EvalTypes' BY <2>1 DEF EvalTypes, EvalOutcomes, EvalCounters, B!Zero
  <2>3. EvalCountsOK' BY <2>1 DEF EvalCountsOK
  <2>4. EvalOneByOne' BY <2>1 DEF EvalOneByOne, B!None
  <2>5. EvalVerdictOK' BY <2>1 DEF EvalVerdictOK
  <2>6. QED BY <2>2, <2>3, <2>4, <2>5
<1>13. CASE B!Cut
  <2>1. /\ UNCHANGED <<here, batch, cases, eResult, gaveUp>>
        /\ child' = [c \in Case |-> IF B!UnderWay(child[c].st) THEN [child[c] EXCEPT !.st = "failed"] ELSE child[c]]
    BY <1>13 DEF B!Cut
  <2>2. eTask' = [at |-> "over", case |-> eTask.case, counts |-> eTask.counts, verdict |-> eTask.verdict]
    BY <1>13 DEF B!Cut, B!Goes, EvalTypes
  <2>3. \A c \in Case : child'[c] = IF child[c].st \in {"running", "queued"}
                                    THEN [st |-> "failed", pauses |-> child[c].pauses] ELSE child[c]
    BY <2>1 DEF EvalTypes, B!UnderWay
  <2>4. child' \in [Case -> [st : {B!None, "queued", "running", "paused", "completed", "failed"}, pauses : Nat]]
    BY <2>1, <2>3 DEF EvalTypes
  <2>5. B!Tally' = B!Tally BY <2>1 DEF B!Tally
  <2>6. EvalTypes' BY <2>1, <2>2, <2>4 DEF EvalTypes
  <2>7. here /\ batch.st = B!None => FALSE
    BY <1>13 DEF B!Cut, EvalCountsOK, B!Quiet
  <2>8. EvalCountsOK' BY <2>1, <2>2, <2>5, <2>7 DEF EvalCountsOK
  <2>9. \A c \in Case : (child'[c].st = B!None <=> child[c].st = B!None)
                          /\ (child[c].st \in {"completed", "failed"} => child'[c].st = child[c].st)
    <3>1. SUFFICES ASSUME NEW c \in Case
                   PROVE  /\ child'[c].st = B!None <=> child[c].st = B!None
                          /\ child[c].st \in {"completed", "failed"} => child'[c].st = child[c].st
      OBVIOUS
    <3>2. CASE child[c].st \in {"running", "queued"}
      <4>1. child'[c] = [st |-> "failed", pauses |-> child[c].pauses] BY <2>3, <3>2
      <4>2. child'[c].st = "failed" BY <4>1
      <4>3. QED BY <3>2, <4>2 DEF B!None
    <3>3. CASE child[c].st \notin {"running", "queued"}
      <4>1. child'[c] = child[c] BY <2>3, <3>3
      <4>2. QED BY <4>1
    <3>4. QED BY <3>2, <3>3
  <2>10. EvalOneByOne' BY <2>1, <2>2, <2>9 DEF EvalOneByOne
  <2>11. EvalVerdictOK' BY <2>1, <2>2, <2>9 DEF EvalVerdictOK
  <2>12. QED BY <2>6, <2>8, <2>10, <2>11
<1>14. CASE UNCHANGED B!bvars
  <2>1. UNCHANGED <<here, batch, eTask, cases, eResult, child, gaveUp>> BY <1>14 DEF B!bvars
  <2>2. QED BY <2>1, EvalRunsKeep DEF EvalTypes
<1>15. QED
  BY <1>1, <1>2, <1>3, <1>4, <1>5, <1>6, <1>7, <1>8, <1>9, <1>10, <1>11, <1>12, <1>13,
     <1>14 DEF B!Next

\* BatchAddsUp, whoever decides gates, deletes the dataset or ends the process meanwhile:
\* the counters the loop adds up for itself are those of its committed rows
\* (execute_eval_run, _await_run).
THEOREM CountersAddUp == Spec => []BatchAddsUp
<1>1. Init => EvalInv
  BY EvalInit DEF Init
<1>2. EvalInv /\ [Next]_vars => EvalInv'
  BY EvalStep, OnePartMoves
<1>3. EvalInv => BatchAddsUp
  BY DEF BatchAddsUp, EvalInv, EvalCountsOK, EvalOneByOne, EvalVerdictOK, B!BatchAddsUp
<1>4. QED
  BY <1>1, <1>2, <1>3, PTL DEF Spec




=============================================================================
