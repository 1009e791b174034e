-------------------------------- MODULE Evals --------------------------------
(***************************************************************************)
(* The batch runner of the evals (evals/runner.py): the cases of a dataset *)
(* run one after the other, each as an ordinary run whose gates are        *)
(* approved as they come up; its answer is graded, and the result and the  *)
(* counters of the batch are committed together.                           *)
(*                                                                         *)
(* Meanwhile operators decide gates themselves or delete the dataset, and  *)
(* the process may die: nothing looks for the batch after that.            *)
(* External: a run's body (see RunLifecycle), the judge, the publisher.    *)
(***************************************************************************)
EXTENDS Naturals, FiniteSets

CONSTANTS
  Case,     \* of the dataset
  MaxPause, \* bound: pauses of a run
  MaxCut    \* bound: deaths of the process

VARIABLES
  here,    \* the dataset exists: its cases, batches and results go with it
  batch,   \* eval_runs row: status, counters
  task,    \* execute_eval_run: step, case, its local counters, the verdict to commit
  cases,   \* the cases it read
  result,  \* case -> status of its eval_results row
  child,   \* case -> its run: status, pauses
  gaveUp,  \* cases left to run on: past the deadline, or decided by someone else in the
           \* moment of the approval
  cuts

bvars == <<here, batch, task, cases, result, child, gaveUp, cuts>>

Verdicts == {"passed", "failed", "error"}
None  == "none"
Zero  == [v \in Verdicts |-> 0]
Quiet == [at |-> "rest", case |-> None, counts |-> Zero, verdict |-> None]

Init ==
  /\ here = TRUE /\ cuts = 0
  /\ batch = [st |-> None, counts |-> Zero]
  /\ task = Quiet /\ cases = {} /\ gaveUp = {}
  /\ result = [c \in Case |-> None]
  /\ child = [c \in Case |-> [st |-> None, pauses |-> 0]]

Goes(at) == task' = [task EXCEPT !.at = at]

\* start_eval_run: the row, and the task.
StartBatch ==
  /\ here /\ batch.st = None
  /\ batch' = [batch EXCEPT !.st = "running"]
  /\ Goes("read") /\ UNCHANGED <<here, cases, result, child, gaveUp, cuts>>

\* The cases, and the target's definition for the snapshot, are read once; a dataset
\* deleted meanwhile is an exception outside the try.
ReadCases ==
  /\ task.at = "read"
  /\ IF here THEN cases' = Case /\ Goes("next") ELSE Goes("over") /\ UNCHANGED cases
  /\ UNCHANGED <<here, batch, result, child, gaveUp, cuts>>

\* create_run, start_run_task: a refusal (the spend ceiling) ends the batch.
Starts(c) ==
  /\ child[c].st = None
  /\ child' = [child EXCEPT ![c].st = "queued"]
  /\ task' = [task EXCEPT !.at = "await", !.case = c]

NextCase ==
  /\ task.at = "next" /\ \E c \in cases : child[c].st = None
  /\ \/ \E c \in cases : Starts(c)
     \/ Goes("fails") /\ UNCHANGED child
  /\ UNCHANGED <<here, batch, cases, result, gaveUp, cuts>>

\* A run: it gets its slot, pauses, is decided, ends.
Runs(c) ==
  /\ \E st \in {"running", "paused", "completed", "failed"} :
       /\ CASE child[c].st = "queued"  -> st \in {"running", "failed"}
            [] child[c].st = "running" -> st # "running" /\ (st = "paused" => child[c].pauses < MaxPause)
            [] child[c].st = "paused"  -> st \in {"running", "failed"}  \* someone else decides, or cancels
            [] OTHER -> FALSE
       /\ child' = [child EXCEPT ![c].st = st,
                                 ![c].pauses = @ + (IF st = "paused" THEN 1 ELSE 0)]
  /\ UNCHANGED <<here, batch, task, cases, result, gaveUp, cuts>>

\* Mutant of UnderWay: a queued run is taken for one that has ended.
UnderWayRunning(st) == st = "running"

\* What _await_run waits out.
UnderWay(st) == st \in {"running", "queued"}

Judged(v) == task' = [task EXCEPT !.at = "commit", !.verdict = v]

\* _await_run: a pause is approved; resume_run refuses what was decided in between.
Approve ==
  /\ task.at = "await" /\ child[task.case].st = "paused" /\ Goes("approve")
  /\ UNCHANGED <<here, batch, cases, result, child, gaveUp, cuts>>

Resume ==
  /\ task.at = "approve"
  /\ IF child[task.case].st = "paused"
       THEN Goes("await") /\ child' = [child EXCEPT ![task.case].st = "running"]
       ELSE Judged("error") /\ UNCHANGED child
  /\ gaveUp' = IF child[task.case].st = "paused" THEN gaveUp ELSE gaveUp \cup {task.case}
  /\ UNCHANGED <<here, batch, cases, result, cuts>>

\* The run is over: an answer is graded (a judge that fails is an error), no answer is
\* an error.
Grade ==
  /\ task.at = "await" /\ child[task.case].st # "paused" /\ ~UnderWay(child[task.case].st)
  /\ \E v \in Verdicts : (child[task.case].st # "completed" => v = "error") /\ Judged(v)
  /\ UNCHANGED <<here, batch, cases, result, child, gaveUp, cuts>>

\* CASE_TIMEOUT_S: the batch goes on, and so does the run.
TimesOut ==
  /\ task.at = "await" /\ UnderWay(child[task.case].st)
  /\ Judged("error") /\ gaveUp' = gaveUp \cup {task.case}
  /\ UNCHANGED <<here, batch, cases, result, child, cuts>>

\* One transaction: the result and the counters of all cases so far.
Counted(counts, v) == [counts EXCEPT ![v] = @ + 1]
Commit ==
  /\ task.at = "commit"
  /\ LET now == Counted(task.counts, task.verdict) IN
     IF here
       THEN /\ result' = [result EXCEPT ![task.case] = task.verdict]
            /\ batch' = [batch EXCEPT !.counts = now]
            /\ task' = [Quiet EXCEPT !.at = "next", !.counts = now]
       ELSE Goes("fails") /\ UNCHANGED <<result, batch>>
  /\ UNCHANGED <<here, cases, child, gaveUp, cuts>>

\* After the last case: published (a failure of it is left at that), then completed.
Complete ==
  /\ task.at = "next" /\ \A c \in cases : child[c].st # None
  /\ IF here THEN batch' = [batch EXCEPT !.st = "completed"] /\ Goes("over")
             ELSE Goes("fails") /\ UNCHANGED batch
  /\ UNCHANGED <<here, cases, result, child, gaveUp, cuts>>

\* The outer except: the batch is failed, if it is there.
FailBatch ==
  /\ task.at = "fails" /\ Goes("over")
  /\ batch' = IF here THEN [batch EXCEPT !.st = "failed"] ELSE batch
  /\ UNCHANGED <<here, cases, result, child, gaveUp, cuts>>

DeleteDataset ==
  /\ here /\ here' = FALSE
  /\ batch' = [st |-> None, counts |-> Zero]
  /\ result' = [c \in Case |-> None]
  /\ UNCHANGED <<task, cases, child, gaveUp, cuts>>

\* The process dies: its runs are failed by the reapers, the batch stays "running".
Cut ==
  /\ cuts < MaxCut /\ cuts' = cuts + 1 /\ task.at \notin {"rest", "over"} /\ Goes("over")
  /\ child' = [c \in Case |-> IF UnderWay(child[c].st) THEN [child[c] EXCEPT !.st = "failed"] ELSE child[c]]
  /\ UNCHANGED <<here, batch, cases, result, gaveUp>>

Next ==
  \/ StartBatch \/ ReadCases \/ NextCase \/ Approve \/ Resume \/ Grade \/ TimesOut \/ Commit
  \/ Complete \/ FailBatch \/ DeleteDataset \/ Cut
  \/ \E c \in Case : Runs(c)

Spec == Init /\ [][Next]_bvars

-----------------------------------------------------------------------------
Tally == [v \in Verdicts |-> Cardinality({c \in Case : result[c] = v})]

\* Sequential: the next case starts when the run of the last is over, but for one it gave
\* up on; the counters are those of the results at every commit, whoever decides or
\* deletes meanwhile; and a batch that completed has a verdict for every case.
BatchAddsUp ==
  /\ here => batch.counts = Tally
  /\ batch.st = "completed" => \A c \in Case : result[c] # None
  /\ \A c \in Case \ gaveUp :
       result[c] # None => child[c].st \in {"completed", "failed"}
=============================================================================
