-------------------------------- MODULE Work --------------------------------
(***************************************************************************)
(* What an agent's run does - the graph of a plan, a loop, a worker's      *)
(* workflow, the ladder, tool calls, an evaluation - and the services it   *)
(* leans on: the registry cache, an MCP server's connection, a tool row    *)
(* and a remote agent's task. They share no state, so in a behaviour one   *)
(* of them moves (part). Each is a module of its own; what is claimed of   *)
(* it is claimed here, and proved of it in WorkProofs.                     *)
(***************************************************************************)
EXTENDS Naturals, Sequences, FiniteSets

CONSTANTS
  Replica,
  Registry, Written, MaxWrite, MaxBreak,            \* the registry cache
  Request, Loop, MaxConn, MaxAttempts, MaxFault,    \* an MCP server
  MaxAsk, MaxSend,                                  \* a remote agent
  Entry, Order, Depends, Direct, Nodes, MaxParallel, \* a plan, and its entries' workers
  Agent, MaxCall, MaxTurn,                          \* the agentic loop
  Node, Gate, Edge,                                 \* a workflow
  Tool, MaxPause, MaxEdit, MaxDispatch,             \* tool calls, the ladder
  Case, MaxCut                                      \* an evaluation

\* A worker's nodes are a list: skills, gates, and skills whose tool asks; a direct
\* entry stands for one tool or skill.
ASSUME WorkersAreLists ==
  /\ \A e \in Entry : Nodes[e] \in Seq({"skill", "gate", "asks"})
  /\ \A e \in Direct : Nodes[e] = <<"skill">>

\* A workflow's edges lead from its start or a node to a node or its end.
ASSUME EdgesAreEdges ==
  /\ "START" \notin Node /\ IsFiniteSet(Edge)
  /\ Edge \subseteq (Node \cup {"START"}) \X (Node \cup {"END"}) \X {"next", "if", "error"}

\* A dataset is a list.
ASSUME CasesAreFinite == IsFiniteSet(Case)

\* A request is not a reconnect loop.
ASSUME RequestsAreNoLoops == Request \cap Loop = {} /\ "none" \notin Request \cup Loop

\* Writes are counted.
ASSUME WritesAreCounted == MaxWrite \in Nat

\* The loop's own tools are not agents.
ASSUME AgentsAreAgents == Agent \cap {"spin", "unlock"} = {} /\ MaxCall \in Nat /\ MaxTurn \in Nat

VARIABLES part,
  mode, store, job, cache, load, blob, conn, broken,
  server, current, mConn, breaker, who, health, auto, fault, excused,
  kind, tRow, agent, work, held,
  remote, row, call, decisions, poll, drawer, cleanup, sends, told, meddled, gone, died,
  at, paused, plan, output, task, worker, gMet, answers, posts, used, runs, steps,
  loop, calls, state, name, thread, result, routes, dispatches, callsigns, full,
  edges, wAt, frontier, deferred, outcome, wRuns,
  cKind, cRow, cLoop, instance, cCall, cSteps, dodged, turns, pauses, edits,
  rMode, skill, rAgent, fallback, rFull, d, compiled, asked, rPauses, rEdits,
  here, batch, eTask, cases, eResult, child, gaveUp, cuts

S == INSTANCE RegistryCache
M == INSTANCE McpConnection WITH conn <- mConn
T == INSTANCE ToolRows WITH Ingester <- Replica, row <- tRow
A == INSTANCE RemoteTasks
G == INSTANCE GraphRun WITH met <- gMet
N == INSTANCE AgenticLoop
K == INSTANCE Workflow WITH at <- wAt, runs <- wRuns
C == INSTANCE ToolCalls WITH kind <- cKind, row <- cRow, loop <- cLoop, call <- cCall, steps <- cSteps
R == INSTANCE Ladder WITH mode <- rMode, agent <- rAgent, full <- rFull, pauses <- rPauses, edits <- rEdits
B == INSTANCE Evals WITH task <- eTask, result <- eResult

sv == <<mode, store, job, cache, load, blob, conn, broken>>
mv == <<server, current, mConn, breaker, who, health, auto, fault, excused>>
tv == <<kind, tRow, agent, work, held>>
av == <<remote, row, call, decisions, poll, drawer, cleanup, sends, told, meddled, gone, died>>
gv == <<at, paused, plan, output, task, worker, gMet, answers, posts, used, runs, steps>>
nv == <<loop, calls, state, name, thread, result, routes, dispatches, callsigns, full>>
kv == <<edges, wAt, frontier, deferred, outcome, wRuns>>
cv == <<cKind, cRow, cLoop, instance, cCall, cSteps, dodged, turns, pauses, edits>>
rv == <<rMode, skill, rAgent, fallback, rFull, d, compiled, asked, rPauses, rEdits>>
bv == <<here, batch, eTask, cases, eResult, child, gaveUp, cuts>>

\* A part that does not move starts in one of its states.
Init ==
  /\ part \in {"cache", "mcp", "tool", "a2a", "graph", "loop", "workflow", "calls", "ladder", "evals"}
  /\ M!Init /\ (part # "mcp" => auto)
  /\ A!Init /\ G!Init /\ N!Init /\ B!Init
  /\ S!Init /\ (part # "cache" => mode = "memory")
  /\ T!Init /\ (part # "tool" => kind = "mcp")
  /\ C!Init /\ (part # "calls" => cKind = "node")
  /\ R!Init /\ (part # "ladder" => rMode = "graph" /\ fallback)
  /\ IF part = "workflow"
       THEN K!Init
       ELSE /\ edges = {} /\ wAt = "ended" /\ frontier = {} /\ deferred = {}
            /\ outcome = [n \in Node |-> "none"] /\ wRuns = [n \in Node |-> 0]

Next ==
  /\ part' = part
  /\ \/ part = "cache"    /\ S!Next /\ UNCHANGED <<mv, tv, av, gv, nv, kv, cv, rv, bv>>
     \/ part = "mcp"      /\ M!Next /\ UNCHANGED <<sv, tv, av, gv, nv, kv, cv, rv, bv>>
     \/ part = "tool"     /\ T!Next /\ UNCHANGED <<sv, mv, av, gv, nv, kv, cv, rv, bv>>
     \/ part = "a2a"      /\ A!Next /\ UNCHANGED <<sv, mv, tv, gv, nv, kv, cv, rv, bv>>
     \/ part = "graph"    /\ G!Next /\ UNCHANGED <<sv, mv, tv, av, nv, kv, cv, rv, bv>>
     \/ part = "loop"     /\ N!Next /\ UNCHANGED <<sv, mv, tv, av, gv, kv, cv, rv, bv>>
     \/ part = "workflow" /\ K!Next /\ UNCHANGED <<sv, mv, tv, av, gv, nv, cv, rv, bv>>
     \/ part = "calls"    /\ C!Next /\ UNCHANGED <<sv, mv, tv, av, gv, nv, kv, rv, bv>>
     \/ part = "ladder"   /\ R!Next /\ UNCHANGED <<sv, mv, tv, av, gv, nv, kv, cv, bv>>
     \/ part = "evals"    /\ B!Next /\ UNCHANGED <<sv, mv, tv, av, gv, nv, kv, cv, rv>>

vars == <<part, sv, mv, tv, av, gv, nv, kv, cv, rv, bv>>

Spec == Init /\ [][Next]_vars

\* What is served from a cache shows every write it was told of (registry_cache.py).
ProcessedWritesShow == S!ProcessedWritesShow

\* A server that has been tried is connected, being tried, or its circuit is open, but for
\* the excused (mcp/manager.py).
NotAbandoned == M!NotAbandoned

\* A tool in service that is taken out stays out until it is allowed again (mcp/manager.py,
\* toolschema.py).
OutUntilAllowed == T!OutUntilAllowed

\* A call of a remote agent sends one task (a2a/proxy.py).
SentOnce == A!SentOnce

\* The outcome of a recorded remote task reaches somebody, while its agent is registered
\* and its call does not die (a2a/poller.py).
NotForgotten == A!NotForgotten

\* A replayed dispatch of a worker runs no node twice (orchestrator/graph_mode.py, ladder.py).
RanOnce == G!RanOnce

\* No answer is taken by two gates (ladder.py, the burned interrupts).
OnePostOneGate == G!OnePostOneGate

\* A call of the agentic loop is not routed again when it is replayed (middleware.py).
RoutedOnce == N!RoutedOnce

\* A join of a workflow waits for what leads to it (factory/worker.py).
JoinsWait == K!JoinsWait

\* A strict loop does not answer after its bound tool failed (orchestrator/middleware.py).
StrictLoopsFail == C!StrictLoopsFail

\* A dispatch runs the definition it pinned, but for a replay in agentic mode
\* (orchestrator/ladder.py).
RunsItsPin == R!RunsItsPin

\* A batch's counters are those of its results (evals/runner.py).
BatchAddsUp == B!BatchAddsUp

=============================================================================
