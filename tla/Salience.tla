------------------------------ MODULE Salience ------------------------------
(***************************************************************************)
(* The verdict on a delivery that nobody has looked at, and what becomes   *)
(* of it: backend/app/ambient/salience.py, with the digest that carries an *)
(* escalated row out again (deliver.py).                                   *)
(*                                                                         *)
(* A pass judges a row and, in mode auto, carries the verdict out and then *)
(* records it; in mode propose it only records it, and the user applies or *)
(* declines.  What was applied can be undone.  A request reads the record  *)
(* in one transaction, acts in others and closes the record in a last one. *)
(* One delivery stands for all; its times are the name of who wrote them.  *)
(***************************************************************************)
EXTENDS Naturals

CONSTANTS
  Judge,      \* passes: the leader's tick, and one that overlaps it
  Request,    \* the user's requests under way at once
  MaxJudged,  \* bound: verdicts carried out by passes
  MaxCut      \* bound: passes and requests cut short

VARIABLES
  mode,      \* ambient_salience_mode
  row,       \* the delivery: tier, delivered (not, first, or by a digest), seen
  record,    \* row.salience: none, or the verdict, its decision and what undoing it needs
  kept,      \* memories that retention made
  work,      \* Judge and Request -> what they are at
  made,      \* the row as it was before the first verdict was carried out
  spent      \* cuts, and requests or passes that met

yvars == <<mode, row, record, kept, work, made, spent>>

Verdict == {"escalate", "retain", "drop"}
Closed  == {"applied", "declined", "undone"}
NoRow   == [tier |-> 0, delivered |-> "none", seen |-> FALSE]
NoRecord == [verdict |-> "none", decision |-> "none", prior |-> NoRow, kept |-> FALSE]
Rest    == [at |-> "rest", verdict |-> "none", record |-> NoRecord, prior |-> NoRow, kept |-> FALSE]

Init ==
  /\ mode \in {"auto", "propose"}
  /\ row = [tier |-> 1, delivered |-> "first", seen |-> FALSE]
  /\ record = NoRecord /\ kept = 0
  /\ work = [w \in Judge \cup Request |-> Rest]
  /\ made = NoRow
  /\ spent = [cut |-> 0, met |-> FALSE]

Busy == \E w \in Judge \cup Request : work[w].at # "rest"
Job(at, verdict, seen) == [Rest EXCEPT !.at = at, !.verdict = verdict, !.record = seen]
Begins(w, job) == /\ work' = [work EXCEPT ![w] = job]
                  /\ spent' = [spent EXCEPT !.met = @ \/ Busy]
Goes(w, at) == work' = [work EXCEPT ![w].at = at]

-----------------------------------------------------------------------------
(* _perform: the row as it stood is kept for undoing, and then changed *)

Escalated(r) == [r EXCEPT !.tier = 2, !.delivered = "none"]

\* Mutant of Perform: what undoing needs is read after the change.
PerformThenRead(w, human) ==
  LET v == work[w].verdict
      new == CASE v = "escalate" -> Escalated(row)
               [] v = "drop" /\ human -> [row EXCEPT !.seen = TRUE]
               [] OTHER -> row
  IN /\ row' = new
     /\ work' = [work EXCEPT ![w].prior = new, ![w].at = IF v = "retain" THEN "retain" ELSE "close"]
     /\ made' = IF made = NoRow THEN row ELSE made

Perform(w, human) ==
  LET v == work[w].verdict IN
  /\ row' = CASE v = "escalate" -> Escalated(row)
              [] v = "drop" /\ human -> [row EXCEPT !.seen = TRUE]
              [] OTHER -> row
  /\ work' = [work EXCEPT ![w].prior = row, ![w].at = IF v = "retain" THEN "retain" ELSE "close"]
  /\ made' = IF made = NoRow THEN row ELSE made

\* _retain, which may find nothing to keep
Retain(w) ==
  /\ work[w].at = "retain"
  /\ \E k \in BOOLEAN :
       /\ work' = [work EXCEPT ![w].kept = k, ![w].at = "close"]
       /\ kept' = IF k THEN kept + 1 ELSE kept
  /\ UNCHANGED <<mode, row, record, made, spent>>

-----------------------------------------------------------------------------
(* run_salience_pass *)

Eligible == row.tier <= 1 /\ ~row.seen /\ row.delivered # "none" /\ record = NoRecord

\* the rows as they are when the pass begins; judging one takes a while
Select(p) ==
  /\ work[p].at = "rest" /\ Eligible
  /\ \E v \in Verdict : Begins(p, Job("judged", v, NoRecord))
  /\ UNCHANGED <<mode, row, record, kept, made>>

\* _apply, in mode auto
Applies(p) ==
  /\ work[p].at = "judged" /\ mode = "auto" /\ kept < MaxJudged
  /\ Perform(p, FALSE)
  /\ UNCHANGED <<mode, record, kept, spent>>

\* the record is written over whatever is there
Ledger(p) ==
  /\ p \in Judge
  /\ \/ work[p].at = "judged" /\ mode = "propose"
     \/ work[p].at = "close"
  /\ record' = [verdict |-> work[p].verdict, prior |-> work[p].prior, kept |-> work[p].kept,
                decision |-> IF work[p].at = "close" THEN "applied" ELSE "none"]
  /\ work' = [work EXCEPT ![p] = Rest]
  /\ UNCHANGED <<mode, row, kept, made, spent>>

\* no verdict, because the judge is unavailable
Unjudged(p) ==
  /\ work[p].at = "judged"
  /\ work' = [work EXCEPT ![p] = Rest]
  /\ UNCHANGED <<mode, row, record, kept, made, spent>>

-----------------------------------------------------------------------------
(* decide *)

Open(decision) == decision \notin Closed

\* the record is read; a repeated or contradicting action ends here
Decide(q) ==
  /\ work[q].at = "rest" /\ record # NoRecord
  /\ \E to \in {"apply", "decline", "undo"} :
       /\ IF to = "undo" THEN record.decision = "applied" ELSE Open(record.decision)
       /\ Begins(q, Job(to, record.verdict, record))
  /\ UNCHANGED <<mode, row, record, kept, made>>

Apply(q) ==
  /\ work[q].at = "apply"
  /\ Perform(q, TRUE)
  /\ UNCHANGED <<mode, record, kept, spent>>

\* the mutation is taken back, unless a digest has already carried it out
Undo(q) ==
  /\ work[q].at = "undo"
  /\ LET old == work[q].record IN
     IF old.verdict = "escalate" /\ row.delivered # "none"
       THEN row' = row /\ work' = [work EXCEPT ![q] = Rest]
       ELSE /\ row' = CASE old.verdict = "escalate" -> [row EXCEPT !.tier = old.prior.tier,
                                                                   !.delivered = old.prior.delivered]
                        [] old.verdict = "drop" -> [row EXCEPT !.seen = old.prior.seen]
                        [] OTHER -> row
            /\ Goes(q, IF old.verdict = "retain" THEN "erase" ELSE "undone")
  /\ UNCHANGED <<mode, record, kept, made, spent>>

\* hard_delete of what retention made
EraseKept(q) ==
  /\ work[q].at = "erase"
  /\ kept' = IF work[q].record.kept /\ kept > 0 THEN kept - 1 ELSE kept
  /\ Goes(q, "undone")
  /\ UNCHANGED <<mode, row, record, made, spent>>

\* _close, over the record that was read
Close(q) ==
  /\ q \in Request
  /\ \/ /\ work[q].at = "close"
        /\ record' = [work[q].record EXCEPT !.decision = "applied", !.prior = work[q].prior, !.kept = work[q].kept]
     \/ work[q].at = "decline" /\ record' = [work[q].record EXCEPT !.decision = "declined"]
     \/ work[q].at = "undone" /\ record' = [work[q].record EXCEPT !.decision = "undone"]
  /\ work' = [work EXCEPT ![q] = Rest]
  /\ UNCHANGED <<mode, row, kept, made, spent>>

-----------------------------------------------------------------------------

\* run_evaluator's timeout, or the end of the process
Cut(w) ==
  /\ work[w].at # "rest" /\ spent.cut < MaxCut
  /\ work' = [work EXCEPT ![w] = Rest]
  /\ spent' = [spent EXCEPT !.cut = @ + 1]
  /\ UNCHANGED <<mode, row, record, kept, made>>

\* _digest_flush: everything of tier 2 that is not delivered
Digest ==
  /\ row.tier = 2 /\ row.delivered = "none"
  /\ row' = [row EXCEPT !.delivered = "digest"]
  /\ UNCHANGED <<mode, record, kept, work, made, spent>>

\* mark_seen
See ==
  /\ ~row.seen
  /\ row' = [row EXCEPT !.seen = TRUE]
  /\ UNCHANGED <<mode, record, kept, work, made, spent>>

Next ==
  \/ \E p \in Judge : Select(p) \/ Applies(p) \/ Ledger(p) \/ Unjudged(p)
  \/ \E q \in Request : Decide(q) \/ Apply(q) \/ Undo(q) \/ EraseKept(q) \/ Close(q)
  \/ \E w \in Judge \cup Request : Retain(w) \/ Cut(w)
  \/ Digest \/ See

Spec == Init /\ [][Next]_yvars

-----------------------------------------------------------------------------
(* Properties *)

Alone == ~spent.met /\ spent.cut = 0

\* Undone is undone: a row whose verdict was undone is where it was before the
\* verdict, and nothing that was retained for it is left, as long as no two of the
\* passes and requests met and none was cut short (decide, "undo").
UndoneIsUndone ==
  Alone /\ record.decision = "undone" =>
    /\ kept = 0
    /\ record.verdict = "escalate" => row.tier = made.tier /\ row.delivered = made.delivered
=============================================================================
