---------------------------- MODULE MemoryStore ----------------------------
(***************************************************************************)
(* The semantic memory: rows that are replaced, reviewed, forgotten,       *)
(* expired and erased (memory/store.py, api/memories.py), by the pipeline  *)
(* that extracts them after each run (memory/extract.py), the tools of a   *)
(* run (native/memory_tools.py), the periodic jobs (memory/lifecycle.py)   *)
(* and the user, each in transactions of its own.                          *)
(*                                                                         *)
(* Texts stand for wordings that the tombstones hold for the same; whether *)
(* one repeats a row to the letter or nearly is left open.  External: the  *)
(* model that extracts and that judges two rows to say the same.           *)
(***************************************************************************)
EXTENDS Naturals, FiniteSets

CONSTANTS
  Text,       \* the texts told apart
  Extractor,  \* post-run pipelines under way
  MaxFirst,   \* bound: memories that replace none, but for one of reflection
  MaxRow      \* bound: rows ever written

VARIABLES
  rows,     \* id -> the row
  tombs,    \* texts with a tombstone
  job,      \* Writer -> its candidate, and the row it is about to replace
  review,   \* the row a review decision was read for, or 0
  overlap   \* a row was replaced between the reading and the writing of its review

hvars == <<rows, tombs, job, review, overlap>>

Id     == 1..MaxRow
Kind   == {"fact", "instruction"}
Writer == Extractor \cup {"user"}
NoRow  == [st |-> "none", kind |-> "fact", text |-> "none", keyed |-> FALSE, old |-> 0, new |-> 0]
Idle   == [at |-> "idle", cand |-> NoRow, target |-> 0]

Init ==
  /\ rows = [i \in Id |-> NoRow]
  /\ tombs = {}
  /\ job = [w \in Writer |-> Idle]
  /\ review = 0 /\ overlap = FALSE

Free(i)   == rows[i].st = "none" /\ \A j \in 1..(i - 1) : rows[j].st # "none"
Live(i)   == rows[i].st \notin {"none", "erased"}
Active(i) == rows[i].st = "active"

-----------------------------------------------------------------------------
(* remember *)

\* an instruction written by a machine or a tool, and a conclusion of reflection,
\* wait for a review; so do the kinds the tuner routed there
Landing(kind, source) ==
  IF source = "user" THEN {"active"}
  ELSE IF source = "tool" THEN {IF kind = "instruction" THEN "quarantined" ELSE "active"}
  ELSE IF source = "inferred" \/ kind = "instruction" THEN {"quarantined"}
  ELSE {"active", "quarantined"}

Insert(cand, source) ==
  \E i \in 1..(IF source = "inferred" THEN MaxFirst + 1 ELSE MaxFirst) :
                /\ Free(i)
                /\ \E st \in Landing(cand.kind, source) : rows' = [rows EXCEPT ![i] = [cand EXCEPT !.st = st]]

\* api create, and memory.remember, which also writes as the user: what the user
\* states again is no longer forgotten
State(source) ==
  /\ \E t \in Text, k \in Kind, keyed \in (IF source = "user" THEN BOOLEAN ELSE {FALSE}) :
       /\ Insert([NoRow EXCEPT !.text = t, !.kind = k, !.keyed = keyed], source)
       /\ tombs' = tombs \ {t}
  /\ UNCHANGED <<job, review, overlap>>

\* reflection
Infer ==
  /\ \E i \in Id : Active(i)
  /\ \E t \in Text, k \in Kind : Insert([NoRow EXCEPT !.text = t, !.kind = k], "inferred")
  /\ UNCHANGED <<tombs, job, review, overlap>>

-----------------------------------------------------------------------------
(* The pipeline: gate, tombstones, match, write *)

Does(w, j) == job' = [job EXCEPT ![w] = j]

\* what gate_candidates lets through; check_suppressed drops what was forgotten
Extract(x) ==
  /\ x \in Extractor /\ job[x] = Idle
  /\ \E t \in Text \ tombs, k \in Kind, keyed \in BOOLEAN :
       /\ Does(x, [Idle EXCEPT !.at = IF k = "instruction" THEN "write" ELSE "match",
                               !.cand = [NoRow EXCEPT !.text = t, !.kind = k, !.keyed = keyed]])
  /\ UNCHANGED <<rows, tombs, review, overlap>>

\* the row with the candidate's entity_key, of whatever kind; else one the model
\* calls the same; else none
Match(x) ==
  /\ job[x].at = "match"
  /\ LET c     == job[x].cand
         keyed == {i \in Id : Active(i) /\ c.keyed /\ rows[i].keyed}
         same  == {i \in Id : Active(i) /\ rows[i].kind = c.kind}
     IN \E i \in IF keyed # {} THEN keyed ELSE same \cup {0} :
          IF i = 0 THEN Does(x, [job[x] EXCEPT !.at = "write"])
          ELSE \/ rows[i].text = c.text /\ Does(x, Idle)
               \/ Does(x, [job[x] EXCEPT !.at = "read", !.target = i])
  /\ UNCHANGED <<rows, tombs, review, overlap>>

Write(x) ==
  /\ job[x].at = "write"
  /\ Insert(job[x].cand, "extracted") /\ Does(x, Idle)
  /\ UNCHANGED <<tombs, review, overlap>>

-----------------------------------------------------------------------------
(* supersede *)

\* patch with a new text
Edit ==
  /\ job["user"] = Idle
  /\ \E i \in Id, t \in Text :
       /\ Live(i)
       /\ Does("user", [Idle EXCEPT !.at = "read", !.target = i, !.cand = [NoRow EXCEPT !.text = t]])
  /\ UNCHANGED <<rows, tombs, review, overlap>>

Read(w) ==
  /\ job[w].at = "read"
  /\ LET old == rows[job[w].target] IN
     IF Live(job[w].target) /\ old.new = 0 /\ old.st # "superseded"
       THEN Does(w, [job[w] EXCEPT !.at = "close", !.cand.kind = old.kind, !.cand.keyed = old.keyed,
                                   !.cand.st = IF old.st = "expired" THEN "active" ELSE old.st])
       ELSE Does(w, Idle)
  /\ UNCHANGED <<rows, tombs, review, overlap>>

\* Mutant of Unclosed: a row is closed whatever became of it since it was read.
AnyRow(i) == Live(i)

\* WHERE superseded_at IS NULL
Unclosed(i) == Live(i) /\ rows[i].st # "superseded" /\ rows[i].new = 0

\* the new row, with the kind, the key and the standing of the one that was read
Close(w) ==
  /\ job[w].at = "close"
  /\ LET i == job[w].target IN
     IF Unclosed(i)
       THEN \E n \in Id :
              /\ Free(n)
              /\ rows' = [rows EXCEPT ![i].st = "superseded", ![i].new = n, ![n] = [job[w].cand EXCEPT !.old = i]]
              /\ overlap' = (overlap \/ review = i)
       ELSE UNCHANGED <<rows, overlap>>
  /\ Does(w, Idle)
  /\ UNCHANGED <<tombs, review>>

-----------------------------------------------------------------------------
(* Review, forgetting, erasing, jobs *)

\* the row is read, and written back with the decision
Review ==
  /\ review = 0
  /\ \E i \in Id : rows[i].st = "quarantined" /\ review' = i
  /\ UNCHANGED <<rows, tombs, job, overlap>>

Decide ==
  /\ review # 0 /\ review' = 0
  /\ IF ~Live(review) THEN rows' = rows
     ELSE \E st \in {"active", "rejected"} :
            rows' = [rows EXCEPT ![review].st = st]
  /\ UNCHANGED <<tombs, job, overlap>>

\* memory.forget; decay_sweep expires active rows alike
Expire(i) ==
  /\ rows[i].st \in {"active", "quarantined"}
  /\ rows' = [rows EXCEPT ![i].st = "expired"]
  /\ UNCHANGED <<tombs, job, review, overlap>>

\* contradiction_sweep: of the rows with the key only the newest stays current
Sweep ==
  LET keyed == {i \in Id : Active(i) /\ rows[i].keyed} IN
  /\ Cardinality(keyed) > 1
  /\ rows' = [i \in Id |-> IF i \in keyed /\ \E j \in keyed : j > i
                             THEN [rows[i] EXCEPT !.st = "quarantined"] ELSE rows[i]]
  /\ UNCHANGED <<tombs, job, review, overlap>>

\* tombstone_forget, whose erasure is a transaction of its own
Forget(i) ==
  /\ Live(i) /\ rows[i].text \notin tombs
  /\ tombs' = tombs \cup {rows[i].text}
  /\ UNCHANGED <<rows, job, review, overlap>>

Unforget ==
  /\ \E t \in tombs : tombs' = tombs \ {t}
  /\ UNCHANGED <<rows, job, review, overlap>>

\* hard_delete unlinks the chain
Erase(i) ==
  /\ Live(i)
  /\ rows' = [j \in Id |->
       IF j = i THEN [NoRow EXCEPT !.st = "erased"]
       ELSE [rows[j] EXCEPT !.old = IF @ = i THEN 0 ELSE @, !.new = IF @ = i THEN 0 ELSE @]]
  /\ UNCHANGED <<tombs, job, review, overlap>>

Purge ==
  /\ rows' = [i \in Id |-> IF Live(i) THEN [NoRow EXCEPT !.st = "erased"] ELSE rows[i]]
  /\ tombs' = {}
  /\ UNCHANGED <<job, review, overlap>>

Next ==
  \/ State("user") \/ State("tool") \/ Infer \/ Edit \/ Review \/ Decide \/ Sweep \/ Unforget \/ Purge
  \/ \E w \in Writer : Extract(w) \/ Match(w) \/ Write(w) \/ Read(w) \/ Close(w)
  \/ \E i \in Id : Expire(i) \/ Forget(i) \/ Erase(i)

Spec == Init /\ [][Next]_hvars

-----------------------------------------------------------------------------

\* models/memory.py: "supersession is append-only": whoever replaces, erases, expires
\* and reviews at the same time, a row is replaced by one row, both know it, and it is
\* not current again, unless its review was being written when it was replaced.
AppendOnly ==
  \A i, j \in Id :
    /\ rows[i].new = j => rows[j].old = i
    /\ rows[i].old = j => rows[j].new = i
    /\ (rows[i].new # 0 /\ ~overlap) => rows[i].st = "superseded"
=============================================================================
