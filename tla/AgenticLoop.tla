---------------------------- MODULE AgenticLoop ----------------------------
(***************************************************************************)
(* One run in agentic mode: the model's loop (orchestrator/agentic_mode.py)*)
(* calls dispatch tools of sub agents, spins workers, and may unlock the   *)
(* full catalog (orchestrator/middleware.py).  A call runs its worker on a *)
(* thread named after the agent, or after the worker's callsign; a gate in *)
(* it pauses the run, and the resume, in a fresh RunContext, replays the   *)
(* calls that were interrupted.                                            *)
(*                                                                         *)
(* External: the model, and the graph library, which keeps the messages of *)
(* finished turns and the results of calls that returned.                  *)
(***************************************************************************)
EXTENDS Naturals, Sequences, FiniteSets

CONSTANTS
  Agent,     \* sub agents on offer
  MaxCall,   \* bound: calls the model makes
  MaxTurn    \* bound: calls in one of its turns

VARIABLES
  loop,       \* "model", "tools", "paused", "done"
  calls,      \* what each call asked for
  state,      \* call -> "open", "paused", "done"
  name,       \* call -> the thread it works on
  thread,     \* name -> the call whose task it was given (0: none), how it stands
  result,     \* call -> the call whose task the result is of
  routes,     \* call -> route rows recorded for it
  dispatches, \* names with a dispatch step
  callsigns,  \* callsigns given out in this RunContext
  full        \* its full_catalog flag

nvars == <<loop, calls, state, name, thread, result, routes, dispatches, callsigns, full>>

Call   == 1 .. MaxCall
Name   == ({"agent"} \X Agent) \cup ({"worker"} \X Call)     \* callsigns: 1 is alpha, 2 bravo
NoName == <<>>
Unborn == [task |-> 0, is |-> "new"]

Init ==
  /\ loop = "model" /\ calls = <<>> /\ dispatches = {}
  /\ state = [c \in Call |-> "none"] /\ name = [c \in Call |-> NoName]
  /\ thread = [n \in Name |-> Unborn]
  /\ result = [c \in Call |-> 0] /\ routes = [c \in Call |-> 0]
  /\ callsigns = 0 /\ full = FALSE

Target == Agent \cup {"spin", "unlock"}

\* A turn of the model asks for some tools, or answers.
Ask(ts) ==
  /\ loop = "model" /\ Len(calls) + Len(ts) <= MaxCall
  /\ calls' = calls \o ts
  /\ state' = [c \in Call |-> IF c \in DOMAIN calls' \ DOMAIN calls THEN "open" ELSE state[c]]
  /\ loop' = "tools"
  /\ UNCHANGED <<name, thread, result, routes, dispatches, callsigns, full>>

ModelTurn == \E k \in 1 .. MaxTurn : \E ts \in [1 .. k -> Target] : Ask(ts)

Answer ==
  /\ loop = "model" /\ loop' = "done"
  /\ UNCHANGED <<calls, state, name, thread, result, routes, dispatches, callsigns, full>>

\* use_full_catalog
Unlock(c) ==
  /\ state[c] = "open" /\ calls[c] = "unlock"
  /\ full' = TRUE
  /\ routes' = [routes EXCEPT ![c] = @ + 1]
  /\ state' = [state EXCEPT ![c] = "done"] /\ result' = [result EXCEPT ![c] = c]
  /\ UNCHANGED <<loop, calls, name, thread, dispatches, callsigns>>

\* Mutant of Replay: every call is routed as a new one.
NoReplay(n) == FALSE

\* The dispatch tool knows a replay by the dispatch step of its agent.
Replay(n) == n \in dispatches

\* A dispatch tool, or spin_worker, up to its worker: the route, the step.
Resolve(c) ==
  /\ state[c] = "open" /\ calls[c] # "unlock" /\ name[c] = NoName
  /\ IF calls[c] = "spin"
       THEN /\ callsigns' = callsigns + 1
            /\ name' = [name EXCEPT ![c] = <<"worker", callsigns'>>]
            /\ routes' = [routes EXCEPT ![c] = @ + 1]
       ELSE /\ name' = [name EXCEPT ![c] = <<"agent", calls[c]>>]
            /\ routes' = [routes EXCEPT ![c] = IF Replay(<<"agent", calls[c]>>) THEN @ ELSE @ + 1]
            /\ UNCHANGED callsigns
  /\ dispatches' = dispatches \cup {name'[c]}
  /\ UNCHANGED <<loop, calls, state, thread, result, full>>

Returns(c, task) == state' = [state EXCEPT ![c] = "done"] /\ result' = [result EXCEPT ![c] = task]

\* The worker, on the thread of that name: a finished thread gives its result, a
\* new one runs the call's task, to its end or to a gate.
Work(c) ==
  /\ state[c] = "open" /\ name[c] # NoName
  /\ LET t == thread[name[c]] IN
       \/ t.is = "ended" /\ Returns(c, t.task) /\ UNCHANGED thread
       \/ /\ t.is = "new" /\ Returns(c, c)
          /\ thread' = [thread EXCEPT ![name[c]] = [task |-> c, is |-> "ended"]]
       \/ /\ t.is = "new" /\ state' = [state EXCEPT ![c] = "paused"]
          /\ thread' = [thread EXCEPT ![name[c]] = [task |-> c, is |-> "gate"]]
          /\ UNCHANGED result
       \/ /\ t.is = "gate"     \* no answer for this call yet
          /\ state' = [state EXCEPT ![c] = "paused"] /\ UNCHANGED <<result, thread>>
       \/ /\ t.is = "answered" /\ Returns(c, t.task)
          /\ thread' = [thread EXCEPT ![name[c]].is = "ended"]
  /\ UNCHANGED <<loop, calls, name, routes, dispatches, callsigns, full>>

OpenCalls == {c \in Call : state[c] = "open"}
Paused    == {c \in Call : state[c] = "paused"}

\* The turn is over, or stops at its gates.
TurnEnds ==
  /\ loop = "tools" /\ OpenCalls = {}
  /\ loop' = IF Paused = {} THEN "model" ELSE "paused"
  /\ UNCHANGED <<calls, state, name, thread, result, routes, dispatches, callsigns, full>>

\* What a resume's RunContext starts from: no callsign given out, RunFlags unset.
FreshContext == callsigns' = 0 /\ full' = FALSE

\* One gate's answer; its call takes it if it finds its thread again.
Resume ==
  /\ loop = "paused" /\ loop' = "tools"
  /\ LET c == CHOOSE c \in Paused : \A d \in Paused : c <= d
     IN thread' = [thread EXCEPT ![name[c]].is = IF @ = "gate" THEN "answered" ELSE @]
  /\ state' = [c \in Call |-> IF c \in Paused THEN "open" ELSE state[c]]
  /\ name' = [c \in Call |-> IF c \in Paused THEN NoName ELSE name[c]]
  /\ FreshContext
  /\ UNCHANGED <<calls, result, routes, dispatches>>

Next ==
  \/ ModelTurn \/ Answer \/ TurnEnds \/ Resume
  \/ \E c \in Call : Unlock(c) \/ Resolve(c) \/ Work(c)

Spec == Init /\ [][Next]_nvars

-----------------------------------------------------------------------------
\* However often a call of an agent is replayed, it is not routed again (_tool_for:
\* "the route was already recorded before the pause"). At most one row: a second call of
\* the same agent is taken for a replay of the first and has none, though every
\* resolution is to be logged (ladder.py).
RoutedOnce == \A c \in DOMAIN calls : calls[c] \in Agent => routes[c] <= 1

\* A call gets the result of its own task.
OwnResult == \A c \in Call : state[c] = "done" => result[c] = c
=============================================================================
