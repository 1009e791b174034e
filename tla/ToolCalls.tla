----------------------------- MODULE ToolCalls -----------------------------
(***************************************************************************)
(* The loop of one skill (orchestrator/middleware.py): at each model call  *)
(* ToolsRegistryMiddleware resolves the bound tools against the registry,  *)
(* at each tool call it runs what it resolved, records a step, and decides *)
(* what a failure means: a strict loop (a node, an inline skill) fails, any*)
(* other gets a message.  A tool that asks the user pauses the run, and the*)
(* resume replays the paused calls in a fresh loop, before any model call. *)
(*                                                                         *)
(* Meanwhile operators and ingests change the rows.  External: the model,  *)
(* what a tool does, and the graph library, which keeps the calls that     *)
(* ended and replays those that were interrupted.                          *)
(***************************************************************************)
EXTENDS Naturals, FiniteSets

CONSTANTS
  Tool,      \* tools bound to the skill
  MaxTurn,   \* bound: turns of the model that call tools
  MaxPause,  \* bound: pauses
  MaxEdit    \* bound: changes of rows

VARIABLES
  kind,      \* of the loop: a workflow's "node", an "inline" skill, an "open" one (agentic, fallback)
  row,       \* Tool -> status ("inactive": also quarantined or missing; "gone": deleted),
             \* and whether it was deleted and restored
  loop,      \* "model", "tools", "paused", "ok", "error"
  instance,  \* the middleware: _current, _missing_names, _reported_missing
  call,      \* name -> how the turn's call of it stands
  steps,     \* tool_call steps: how many settled, how many still running
  dodged,    \* bound tools that were there, failed, and the loop went on
  turns, pauses, edits

kvars == <<kind, row, loop, instance, call, steps, dodged, turns, pauses, edits>>
world == <<kind, row, turns, pauses, edits>>

Other == "other"     \* a name the loop does not know
Name  == Tool \cup {Other}
Blank == [bound |-> {}, named |-> {}, reported |-> {}]

Init ==
  /\ kind \in {"node", "inline", "open"}
  /\ row = [t \in Tool |-> [st |-> "active", back |-> FALSE]]
  /\ loop = "model" /\ instance = Blank
  /\ call = [n \in Name |-> "none"]
  /\ steps = [settled |-> 0, running |-> 0]
  /\ dodged = {} /\ turns = 0 /\ pauses = 0 /\ edits = 0

\* An operator, or an ingest: a status, a deletion, a restoration.
Edit(t) ==
  /\ edits < MaxEdit /\ edits' = edits + 1
  /\ \E st \in {"active", "inactive", "gone"} \ {row[t].st} :
       row' = [row EXCEPT ![t].st = st, ![t].back = @ \/ row[t].st = "gone"]
  /\ UNCHANGED <<kind, loop, instance, call, steps, dodged, turns, pauses>>

\* Mutant of Resolved: what is missing has no name.
ForgetsTheMissing(i) == [Blank EXCEPT !.bound = {t \in Tool : row[t].st = "active"}]

\* _resolve: what is active is bound; the names of the missing are taken anew only
\* when the set of the missing is another one, and a deleted row has no name.
Resolved(i) ==
  LET missing == {t \in Tool : row[t].st # "active"}
      anew    == missing # {} /\ missing # i.reported
  IN [bound    |-> Tool \ missing,
      named    |-> IF anew THEN {t \in missing : row[t].st # "gone"} ELSE i.named,
      reported |-> IF anew THEN missing ELSE i.reported]

\* awrap_model_call: the model calls tools, by whatever name, or answers.
ModelCall ==
  /\ loop = "model" /\ instance' = Resolved(instance)
  /\ \/ /\ turns < MaxTurn /\ turns' = turns + 1
        /\ \E ns \in (SUBSET Name) \ {{}} :
             call' = [n \in Name |-> IF n \in ns THEN "open" ELSE "none"]
        /\ loop' = "tools"
     \/ loop' = "ok" /\ UNCHANGED <<turns, call>>
  /\ UNCHANGED <<kind, row, steps, dodged, pauses, edits>>

\* start_step, and finish_step of a step that was started, or started for the purpose.
StartStep == steps' = [steps EXCEPT !.running = @ + 1]
FinishStep(n) ==
  steps' = [settled |-> steps.settled + 1, running |-> steps.running - (IF call[n] = "runs" THEN 1 ELSE 0)]

\* strict_tool_errors: the scoped stack of a skill.
Strict == kind # "open"

\* A call fails: the loop with it, or its message goes back to the model.
Fails(n, contract) ==
  /\ FinishStep(n)
  /\ IF Strict /\ contract
       THEN loop' = "error" /\ UNCHANGED <<call, dodged>>
       ELSE /\ call' = [call EXCEPT ![n] = "done"]
            /\ dodged' = IF n \in Tool /\ row[n].st # "gone" /\ ~row[n].back THEN dodged \cup {n} ELSE dodged
            /\ UNCHANGED loop

\* awrap_tool_call up to the tool: what the instance has, or has after a second look.
Begin(n) ==
  /\ loop = "tools" /\ call[n] = "open"
  /\ instance' = IF n \in instance.bound THEN instance ELSE Resolved(instance)
  /\ IF n \in instance'.bound
       THEN /\ call' = [call EXCEPT ![n] = "runs"]
            /\ StartStep
            /\ UNCHANGED <<loop, dodged>>
       ELSE Fails(n, n \in instance'.named)
  /\ UNCHANGED world

\* run_inline_skill: an inline skill cannot pause, a tool that asks the user fails it.
Interrupted == IF kind = "inline" THEN "error" ELSE loop

\* The tool returns, fails (its exception, its error message), or asks the user.
End(n) ==
  /\ loop = "tools" /\ call[n] = "runs"
  /\ \/ /\ FinishStep(n)
        /\ call' = [call EXCEPT ![n] = "done"]
        /\ UNCHANGED <<loop, dodged>>
     \/ Fails(n, TRUE)
     \/ /\ pauses < MaxPause
        /\ call' = [call EXCEPT ![n] = "paused"]
        /\ loop' = Interrupted
        /\ UNCHANGED <<steps, dodged>>
  /\ UNCHANGED instance /\ UNCHANGED world

TurnEnds ==
  /\ loop = "tools" /\ \A n \in Name : call[n] \notin {"open", "runs"}
  /\ loop' = IF \E n \in Name : call[n] = "paused" THEN "paused" ELSE "model"
  /\ UNCHANGED <<instance, call, steps, dodged>> /\ UNCHANGED world

\* The answer is posted: the paused calls are replayed in a new instance.
Resume ==
  /\ loop = "paused" /\ loop' = "tools" /\ pauses' = pauses + 1
  /\ instance' = Blank
  /\ call' = [n \in Name |-> IF call[n] = "paused" THEN "open" ELSE call[n]]
  /\ UNCHANGED <<kind, row, steps, dodged, turns, edits>>

Next ==
  \/ ModelCall \/ TurnEnds \/ Resume
  \/ \E t \in Tool : Edit(t)
  \/ \E n \in Name : Begin(n) \/ End(n)

Spec == Init /\ [][Next]_kvars

-----------------------------------------------------------------------------
\* "A BOUND tool that went inactive, quarantined or missing is the contract broken:
\* in a strict loop that is the node's error edge" (awrap_tool_call), also when it
\* went while the run was paused: no strict loop answers after a failed call of a
\* tool that is bound to it and registered.  (A tool deleted and restored to inactive
\* between two calls is taken for a name the loop never had: its reason is not read
\* again while the set of the missing stays the same.)
StrictLoopsFail == Strict /\ loop = "ok" => dodged = {}
=============================================================================
