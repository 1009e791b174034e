------------------------------ MODULE GraphRun ------------------------------
(***************************************************************************)
(* One run in graph mode: the planner's entries are resolved by the ladder *)
(* (orchestrator/ladder.py) and dispatched, several at once, to workers    *)
(* (factory/worker.py) by the graph of orchestrator/graph_mode.py; a worker*)
(* that meets a gate pauses the run, and each answer of the user           *)
(* (POST /runs/{id}/hitl) makes the paused dispatches run again from their *)
(* start, over the worker threads the checkpointer kept.                   *)
(*                                                                         *)
(* External: the graph library.  An interrupted dispatch is run again and  *)
(* the interrupts it meets get, in order, the answers given to it so far;  *)
(* a worker dispatch that had ended may be run again with them.            *)
(***************************************************************************)
EXTENDS Naturals, Sequences, FiniteSets

CONSTANTS
  Entry,        \* what the planner may ask for
  Order,        \* the entries as the plan lists them
  Depends,      \* entry -> the entries it depends on
  Direct,       \* entries resolved to a tool or a skill, which runs in the dispatch itself
  Nodes,        \* entry -> its worker's nodes: "skill", "gate" (hitl), "asks" (a skill whose tool asks)
  MaxParallel   \* setting max_parallel_dispatch

VARIABLES
  at,        \* the node of the run's graph
  paused,    \* the run waits for an answer
  plan,      \* the entries
  output,    \* entry -> its output's status
  task,      \* entry -> its dispatch in the open superstep
  worker,    \* entry -> its thread: nodes finished, gates among them, how it stands
  met,       \* entry -> interrupts its dispatch met since it (re)started
  answers,   \* entry -> the posts its dispatch was given
  posts,     \* the answers posted: the gate on the card shown, the verdict
  used,      \* <<post, gate>>: what each answer did
  runs,      \* entry -> nodes run to their end
  steps      \* entry -> dispatch steps recorded

gvars == <<at, paused, plan, output, task, worker, met, answers, posts, used, runs, steps>>

Fresh == [done |-> 0, gates |-> 0, is |-> "new"]

Init ==
  /\ at = "plan" /\ paused = FALSE /\ plan = {}
  /\ output = [e \in Entry |-> "none"]
  /\ task = [e \in Entry |-> "idle"]
  /\ worker = [e \in Entry |-> Fresh]
  /\ met = [e \in Entry |-> 0]
  /\ answers = [e \in Entry |-> <<>>]
  /\ posts = <<>> /\ used = {}
  /\ runs = [e \in Entry |-> 0]
  /\ steps = [e \in Entry |-> 0]

UNCHANGEDDispatches == UNCHANGED <<paused, task, worker, met, answers, posts, used, runs, steps>>

-----------------------------------------------------------------------------
(* The graph around the dispatches *)

\* validate_plan: dependencies name other entries of the plan; cycles are not looked for.
Valid(es) == \A e \in es : Depends[e] \subseteq es \ {e}

\* plan_node and after_plan: entries, a direct answer, no match, or no valid plan.
PlanNode ==
  /\ at = "plan"
  /\ \/ \E es \in (SUBSET Entry) \ {{}} :
          /\ Valid(es)
          /\ plan' = es /\ at' = "resolve"
     \/ plan' = {} /\ at' \in {"aggregate", "fallback", "failed"}
  /\ UNCHANGED output /\ UNCHANGEDDispatches

\* resolve_node: an entry no capability answers for has an error for its output.
ResolveNode ==
  /\ at = "resolve"
  /\ \E lost \in SUBSET plan :
       IF lost = plan
         THEN at' \in {"fallback", "failed"} /\ UNCHANGED output
         ELSE /\ at' = "coordinate"
              /\ output' = [e \in Entry |-> IF e \in lost THEN "error" ELSE output[e]]
  /\ UNCHANGED plan /\ UNCHANGEDDispatches

FallbackNode ==
  /\ at = "fallback" /\ at' \in {"aggregate", "failed"}
  /\ UNCHANGED <<plan, output>> /\ UNCHANGEDDispatches

Pending == {e \in plan : output[e] = "none"}

Met(d) == output[d] # "none"
Ready == {e \in Pending : \A d \in Depends[e] : Met(d)}

\* The first max_parallel of ready, in the order of the plan.
Place(e) == CHOOSE i \in DOMAIN Order : Order[i] = e
Batch == {e \in Ready : Cardinality({f \in Ready : Place(f) < Place(e)}) < MaxParallel}

\* dispatch_ready: a superstep with one dispatch per entry of the batch.
Coordinate ==
  /\ at = "coordinate"
  /\ IF Ready = {}
       THEN at' = "aggregate" /\ UNCHANGED task
       ELSE at' = "dispatch" /\ task' = [e \in Entry |-> IF e \in Batch THEN "enter" ELSE "idle"]
  /\ UNCHANGED <<paused, plan, output, worker, met, answers, posts, used, runs, steps>>

\* An answer that stays empty after a retry fails the run.
AggregateNode ==
  /\ at = "aggregate" /\ at' \in {"done", "failed"}
  /\ UNCHANGED <<plan, output>> /\ UNCHANGEDDispatches

-----------------------------------------------------------------------------
(* A dispatch: execute_resolution and invoke_worker_with_hitl *)

\* Mutant of ReadsBack: a thread is always run.
ReadsNothing(e) == FALSE

\* A thread that ran to its end is read, not run again; a direct dispatch has none.
ReadsBack(e) == e \notin Direct /\ worker[e].is \in {"ok", "denied"}

\* Mutant of Burned: the first answer goes to every gate.
BurnsNone(e) == 0

\* Interrupts a replay passes before the pending one: one per gate answered.
Burned(e) == worker[e].gates

\* find_running_dispatch adopts the step of an earlier pass; a direct dispatch does not
\* look for one.
Adopts(e) == e \notin Direct /\ steps[e] > 0

Enter(e) ==
  /\ at = "dispatch" /\ task[e] = "enter"
  /\ steps' = [steps EXCEPT ![e] = IF Adopts(e) THEN @ ELSE @ + 1]
  /\ CASE ReadsBack(e) ->
            /\ task' = [task EXCEPT ![e] = "done"]
            /\ UNCHANGED <<worker, met>>
       [] worker[e].is = "pending" ->
            /\ task' = [task EXCEPT ![e] = "asking"]
            /\ met' = [met EXCEPT ![e] = Burned(e)]
            /\ UNCHANGED worker
       [] OTHER ->     \* the worker, or the direct tool or skill, is given its task
            /\ task' = [task EXCEPT ![e] = "going"]
            /\ worker' = [worker EXCEPT ![e] = Fresh]
            /\ met' = [met EXCEPT ![e] = 0]
  /\ UNCHANGED <<at, paused, plan, output, answers, posts, used, runs>>

NextNode(e) == Nodes[e][worker[e].done + 1]

\* The worker runs its next node (run_skill, run_hitl): a skill ends or fails,
\* a gate and a tool that asks interrupt it. In a direct dispatch a tool that asks fails.
WorkerStep(e) ==
  /\ at = "dispatch" /\ task[e] = "going" /\ worker[e].done < Len(Nodes[e])
  /\ \/ /\ NextNode(e) = "skill"
        /\ worker' = [worker EXCEPT ![e].done = @ + 1]
        /\ runs' = [runs EXCEPT ![e] = @ + 1]
        /\ UNCHANGED task
     \/ /\ NextNode(e) = "skill"
        /\ worker' = [worker EXCEPT ![e].is = "error"]
        /\ task' = [task EXCEPT ![e] = "done"]
        /\ UNCHANGED runs
     \/ /\ NextNode(e) # "skill"
        /\ worker' = [worker EXCEPT ![e].is = "pending"]
        /\ task' = [task EXCEPT ![e] = "asking"]
        /\ UNCHANGED runs
  /\ UNCHANGED <<at, paused, plan, output, met, answers, posts, used, steps>>

\* A worker whose nodes are done: worker_result.
WorkerEnds(e) ==
  /\ at = "dispatch" /\ task[e] = "going" /\ worker[e].done = Len(Nodes[e])
  /\ worker' = [worker EXCEPT ![e].is = "ok"]
  /\ task' = [task EXCEPT ![e] = "done"]
  /\ UNCHANGED <<at, paused, plan, output, met, answers, posts, used, runs, steps>>

\* The dispatch's own interrupt, the met[e] + 1st: the answer in that place goes
\* to the worker's gate; without one the dispatch is paused.
Ask(e) ==
  /\ at = "dispatch" /\ task[e] = "asking"
  /\ IF met[e] < Len(answers[e])
       THEN LET p == answers[e][met[e] + 1]
                gate == <<e, worker[e].done + 1>>
                denied == NextNode(e) = "gate" /\ posts[p].verdict = "deny"
            IN /\ met' = [met EXCEPT ![e] = @ + 1]
               /\ used' = used \cup {<<p, gate>>}
               /\ runs' = [runs EXCEPT ![e] = @ + 1]
               /\ worker' = [worker EXCEPT ![e] =
                    [done  |-> @.done + 1,
                     gates |-> @.gates + (IF NextNode(e) = "gate" THEN 1 ELSE 0),
                     is    |-> IF denied THEN "denied" ELSE "new"]]
               /\ task' = [task EXCEPT ![e] = IF denied THEN "done" ELSE "going"]
       ELSE /\ task' = [task EXCEPT ![e] = "paused"]
            /\ UNCHANGED <<met, used, runs, worker>>
  /\ UNCHANGED <<at, paused, plan, output, answers, posts, steps>>

Waiting == {e \in Entry : task[e] = "paused"}
Settled == \A e \in Entry : task[e] \in {"idle", "done", "paused"}

\* The end of a superstep: the outputs, and the next choice; or the pause.
Superstep ==
  /\ at = "dispatch" /\ ~paused /\ Settled
  /\ IF Waiting = {}
       THEN /\ at' = "coordinate"
            /\ output' = [e \in Entry |-> IF task[e] = "done" THEN worker[e].is ELSE output[e]]
            /\ UNCHANGED paused
       ELSE paused' = TRUE /\ UNCHANGED <<at, output>>
  /\ UNCHANGED <<plan, task, worker, met, answers, posts, used, runs, steps>>

First(es) == CHOOSE e \in es : \A f \in es : Place(e) <= Place(f)
Last(es)  == CHOOSE e \in es : \A f \in es : Place(f) <= Place(e)
GateOf(e) == <<e, worker[e].done + 1>>

\* Every live gate is announced in order, and the page shows the newest card; the
\* answer names no gate and goes to the first (_resume_command).
Post ==
  /\ paused
  /\ \E verdict \in {"approve", "deny"}, again \in SUBSET {e \in Entry : task[e] = "done" /\ worker[e].is # "error"} :
       /\ posts' = Append(posts, [card |-> GateOf(Last(Waiting)), verdict |-> verdict])
       /\ answers' = [answers EXCEPT ![First(Waiting)] = Append(@, Len(posts) + 1)]
       /\ task' = [e \in Entry |-> IF e \in Waiting \cup again THEN "enter" ELSE task[e]]
  /\ paused' = FALSE
  /\ UNCHANGED <<at, plan, output, worker, met, used, runs, steps>>

Next ==
  \/ PlanNode \/ ResolveNode \/ FallbackNode \/ Coordinate \/ AggregateNode
  \/ \E e \in Entry : Enter(e) \/ WorkerStep(e) \/ WorkerEnds(e) \/ Ask(e)
  \/ Superstep \/ Post

Spec == Init /\ [][Next]_gvars

-----------------------------------------------------------------------------
\* However often a worker's dispatch is replayed, a node of its workflow runs to its
\* end once, and one step of the run stands for the dispatch. A direct dispatch
\* (execute_resolution, rung 1) has neither a thread nor a step it would look for, and
\* runs again whenever the graph runs it again: nothing is claimed of it.
RanOnce == \A e \in Entry \ Direct : runs[e] <= Len(Nodes[e]) /\ steps[e] <= 1

\* "One POST answers one gate" (runbook, and the burning of interrupts): no answer
\* is taken by two gates. It is so of the workers whose asking tool comes after
\* every gate (AsksLast): a replay passes the interrupts of gates only (Burned).
OnePostOneGate == \A u, v \in used : u[1] = v[1] => u = v

\* A worker asks, if it does, after its gates and once.
AsksLast ==
  \A e \in Entry : \A i, j \in DOMAIN Nodes[e] :
    Nodes[e][i] = "asks" /\ i < j => Nodes[e][j] = "skill"
=============================================================================
