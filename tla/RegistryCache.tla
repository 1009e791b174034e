---------------------------- MODULE RegistryCache ----------------------------
(***************************************************************************)
(* backend/app/registry_cache.py over backend/app/listen.py: each replica's *)
(* copy of the registries, and the notifications that keep the copies      *)
(* current.                                                                *)
(*                                                                         *)
(* A registry is a list of rows that embeds rows of others, so its content *)
(* is the set of the writes it was read after.  A generation is compared   *)
(* with itself only across one load, and is kept as that load's `moved`.   *)
(* The mode does not change under way; bypass, where nothing is kept, is   *)
(* left out.                                                               *)
(***************************************************************************)
EXTENDS Naturals, Sequences

CONSTANTS
  Replica,
  Registry,      \* the ones looked at, of "tools", "skills", "sub_agents", "settings"
  Written,       \* the ones that are written
  MaxWrite,
  MaxBreak       \* bound: connections lost, restarts, failures, together

VARIABLES
  mode,     \* registry_cache_mode: "memory" or "redis"
  store,    \* the registries written, in the order of the commits
  job,      \* job[q][w]: what became of write w's invalidation at q; job[q][0]: q's resync
  cache,    \* _data, and whether it may be served: not dirty, not past the TTL
  load,     \* _ensure in flight, one per registry because of its lock
  blob,     \* Redis: what a key holds, and whether the code excuses it
  conn,     \* SupervisedListener: never connected, up or down
  broken

cvars == <<mode, store, job, cache, load, blob, conn, broken>>

Slot    == 0..MaxWrite
NoJob   == [step |-> "none", left |-> {}]
NoCopy  == [has |-> {}, clean |-> FALSE]
NoLoad  == [step |-> "idle", moved |-> FALSE, has |-> {}]
NoBlob  == [there |-> FALSE, has |-> {}, excused |-> FALSE]

Init ==
  /\ mode \in {"memory", "redis"}
  /\ store = <<>>
  /\ job = [q \in Replica |-> [s \in Slot |-> NoJob]]
  /\ cache = [q \in Replica |-> [g \in Registry |-> NoCopy]]
  /\ load = [q \in Replica |-> [g \in Registry |-> NoLoad]]
  /\ blob = [g \in Registry |-> NoBlob]
  /\ conn = [q \in Replica |-> "never"]
  /\ broken = 0

Break == broken < MaxBreak /\ broken' = broken + 1

\* a skill's record holds its tools, a sub agent's its skills
Embeds(g) == CASE g = "skills"     -> {"tools", "skills"}
               [] g = "sub_agents" -> {"tools", "skills", "sub_agents"}
               [] OTHER            -> {g}

\* _load_registry
Rows(g) == {w \in DOMAIN store : store[w] \in Embeds(g)}

\* _mark_dirty's queue: the registry, its dependents, theirs
Marks(g) == {h \in Registry : g \in Embeds(h)}

\* in the order of REGISTRIES, in which the dependents follow
First(left) == IF "tools" \in left THEN "tools"
               ELSE IF "skills" \in left THEN "skills"
               ELSE IF "sub_agents" \in left THEN "sub_agents"
               ELSE CHOOSE g \in left : TRUE

-----------------------------------------------------------------------------
(* A write path: commit, then invalidate *)

Write(q, g) ==
  /\ Len(store) < MaxWrite
  /\ store' = Append(store, g)
  /\ job' = [job EXCEPT ![q][Len(store) + 1] = [step |-> "mark", left |-> Marks(g)]]
  /\ UNCHANGED <<mode, cache, load, blob, conn, broken>>

Owner(q, s) == s \in DOMAIN store /\ \A p \in Replica \ {q} : job[p][s].step = "none"

Marked(q, s) == IF Owner(q, s) THEN [step |-> "tell", left |-> {}]
                ELSE [step |-> "done", left |-> {}]

\* A resync answers for what was missed before it.
Resynced(q, s, jobs) ==
  IF s # 0 THEN jobs
  ELSE [w \in Slot |-> IF jobs[w].step = "resync" THEN [jobs[w] EXCEPT !.step = "done"] ELSE jobs[w]]

Dirty(q, gs) ==
  /\ cache' = [cache EXCEPT ![q] = [g \in Registry |-> IF g \in gs THEN NoCopy ELSE cache[q][g]]]
  /\ load' = [load EXCEPT ![q] = [g \in Registry |->
       IF g \in gs /\ load[q][g].step # "idle" THEN [load[q][g] EXCEPT !.moved = TRUE] ELSE load[q][g]]]

\* _mark_dirty awaits nothing in memory mode, and in Redis mode after each registry.
Mark(q, s) ==
  /\ job[q][s].step = "mark"
  /\ LET left == job[q][s].left IN
     IF mode = "memory" \/ left = {}
       THEN /\ Dirty(q, left)
            /\ job' = [job EXCEPT ![q] = Resynced(q, s, [@ EXCEPT ![s] = Marked(q, s)])]
       ELSE /\ Dirty(q, {First(left)})
            /\ job' = [job EXCEPT ![q][s].step = "delete"]
  /\ UNCHANGED <<mode, store, blob, conn, broken>>

\* redis.delete, which may fail: the key then lives until its TTL.
Delete(q, s) ==
  /\ job[q][s].step = "delete"
  /\ LET g == First(job[q][s].left)
         left == job[q][s].left \ {g}
     IN /\ \/ blob' = [blob EXCEPT ![g] = NoBlob] /\ broken' = broken
           \/ blob' = [blob EXCEPT ![g].excused = TRUE] /\ Break
        /\ job' = [job EXCEPT ![q] =
             IF left # {} THEN [@ EXCEPT ![s] = [step |-> "mark", left |-> left]]
             ELSE Resynced(q, s, [@ EXCEPT ![s] = Marked(q, s)])]
  /\ UNCHANGED <<mode, store, cache, load, conn>>

\* _notify_peers: pg_notify reaches the sessions that listen when it commits,
\* none if it fails; the writer's own is filtered by its origin.
Notify(q, w) ==
  /\ job[q][w].step = "tell"
  /\ \E ok \in BOOLEAN :
       /\ IF ok THEN broken' = broken ELSE Break
       /\ job' = [p \in Replica |-> [job[p] EXCEPT ![w].step =
            IF p = q THEN "done" ELSE IF ok /\ conn[p] = "up" THEN "notice" ELSE "missed"]]
  /\ UNCHANGED <<mode, store, cache, load, blob, conn>>

-----------------------------------------------------------------------------
(* The listener *)

\* _on_notify spawns a task that marks.
OnNotify(q, w) ==
  /\ job[q][w].step = "notice" /\ conn[q] = "up"
  /\ job' = [job EXCEPT ![q][w] = [step |-> "mark", left |-> Marks(store[w])]]
  /\ UNCHANGED <<mode, store, cache, load, blob, conn, broken>>

\* the first connection of _supervise
Connect(q) ==
  /\ conn[q] = "never"
  /\ conn' = [conn EXCEPT ![q] = "up"]
  /\ UNCHANGED <<mode, store, job, cache, load, blob, broken>>

\* the connection dies, with what was on it
Disconnect(q) ==
  /\ conn[q] = "up" /\ Break
  /\ conn' = [conn EXCEPT ![q] = "down"]
  /\ job' = [job EXCEPT ![q] = [s \in Slot |-> IF @[s].step = "notice" THEN [@[s] EXCEPT !.step = "missed"]
                                               ELSE @[s]]]
  /\ UNCHANGED <<mode, store, cache, load, blob>>

\* _on_reconnect spawns _mark_all_dirty.
Reconnect(q) ==
  /\ conn[q] = "down" /\ job[q][0].step \in {"none", "done"}
  /\ conn' = [conn EXCEPT ![q] = "up"]
  /\ job' = [job EXCEPT ![q] = [s \in Slot |->
       IF s = 0 THEN [step |-> "mark", left |-> Registry]
       ELSE IF @[s].step = "missed" THEN [@[s] EXCEPT !.step = "resync"]
       ELSE @[s]]]
  /\ UNCHANGED <<mode, store, cache, load, blob, broken>>

-----------------------------------------------------------------------------
(* _ensure *)

\* nothing to serve: the generation is read
Miss(q, g) ==
  /\ load[q][g].step = "idle"
  /\ IF mode = "memory" THEN ~cache[q][g].clean ELSE ~blob[g].there
  /\ load' = [load EXCEPT ![q][g] = [NoLoad EXCEPT !.step = "query"]]
  /\ UNCHANGED <<mode, store, job, cache, blob, conn, broken>>

Query(q, g) ==
  /\ load[q][g].step = "query"
  /\ load' = [load EXCEPT ![q][g].step = "loaded", ![q][g].has = Rows(g)]
  /\ UNCHANGED <<mode, store, job, cache, blob, conn, broken>>

\* what is dirty is as good as nothing; in Redis mode the copy serves nobody
Kept(q, g, clean) ==
  IF mode = "memory" /\ clean THEN [cache EXCEPT ![q][g] = [has |-> load[q][g].has, clean |-> TRUE]]
  ELSE cache

\* Mutant of Loaded: a load cleans the registry whatever happened meanwhile.
LoadedClean(q, g) ==
  /\ load[q][g].step = "loaded"
  /\ cache' = Kept(q, g, TRUE)
  /\ load' = [load EXCEPT ![q][g] = IF mode = "memory" THEN NoLoad ELSE [@ EXCEPT !.step = "set"]]
  /\ UNCHANGED <<mode, store, job, blob, conn, broken>>

\* In memory the flag is dropped, in Redis mode the key is set, if the
\* generation is what it was.
Loaded(q, g) ==
  /\ load[q][g].step = "loaded"
  /\ IF mode = "redis" /\ ~load[q][g].moved
       THEN /\ load' = [load EXCEPT ![q][g].step = "set"]
            /\ cache' = cache
       ELSE /\ load' = [load EXCEPT ![q][g] = NoLoad]
            /\ cache' = Kept(q, g, ~load[q][g].moved)
  /\ UNCHANGED <<mode, store, job, blob, conn, broken>>

\* redis.set lands; an invalidation between the check and this is not seen.  It
\* may fail: then the load serves its reader and is forgotten.
SetBlob(q, g) ==
  /\ load[q][g].step = "set"
  /\ load' = [load EXCEPT ![q][g] = NoLoad]
  /\ \/ /\ blob' = [blob EXCEPT ![g] = [there |-> TRUE, has |-> load[q][g].has, excused |-> load[q][g].moved]]
        /\ broken' = broken
     \/ Break /\ blob' = blob
  /\ UNCHANGED <<mode, store, job, cache, conn>>

\* the TTL
Expire(q, g) ==
  /\ \/ cache[q][g].clean /\ cache' = [cache EXCEPT ![q][g] = NoCopy] /\ blob' = blob
     \/ blob[g].there /\ blob' = [blob EXCEPT ![g] = NoBlob] /\ cache' = cache
  /\ UNCHANGED <<mode, store, job, load, conn, broken>>

\* A process dies, before its notification perhaps, and starts again with nothing.
Restart(q) ==
  /\ Break
  /\ cache' = [cache EXCEPT ![q] = [g \in Registry |-> NoCopy]]
  /\ load' = [load EXCEPT ![q] = [g \in Registry |-> NoLoad]]
  /\ conn' = [conn EXCEPT ![q] = "never"]
  /\ job' = [p \in Replica |-> [s \in Slot |->
       IF s = 0 /\ p = q THEN NoJob
       ELSE IF \/ s \in DOMAIN store /\ Owner(q, s)
               \/ p = q /\ job[p][s].step \notin {"none", "done"}
         THEN [step |-> "missed", left |-> {}]
       ELSE job[p][s]]]
  /\ UNCHANGED <<mode, store, blob>>

Next ==
  \E q \in Replica :
    \/ \E g \in Written : Write(q, g)
    \/ \E g \in Registry : Miss(q, g) \/ Query(q, g) \/ Loaded(q, g) \/ SetBlob(q, g) \/ Expire(q, g)
    \/ \E s \in Slot : Mark(q, s) \/ Delete(q, s)
    \/ \E w \in 1..MaxWrite : Notify(q, w) \/ OnNotify(q, w)
    \/ Connect(q) \/ Disconnect(q) \/ Reconnect(q) \/ Restart(q)

Spec == Init /\ [][Next]_cvars

-----------------------------------------------------------------------------

Processed(q, w) == job[q][w].step \in {"tell", "done"}

\* What a replica serves without asking the database shows every write whose
\* invalidation it has processed, also one that came while it was loading; a key
\* in Redis shows what all replicas have processed, unless its deletion failed or
\* its set landed late.
ProcessedWritesShow ==
  \A g \in Registry : \A w \in Rows(g) :
    /\ mode = "memory" => \A q \in Replica : cache[q][g].clean /\ Processed(q, w) => w \in cache[q][g].has
    /\ mode = "redis" /\ blob[g].there /\ ~blob[g].excused /\ (\A q \in Replica : Processed(q, w))
         => w \in blob[g].has
=============================================================================
