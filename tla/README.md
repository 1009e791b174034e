# Specifications of the concierge agent's backend

TLA+ models of the parts of `backend/app` where several tasks, processes or
transactions meet, with TLC configurations and TLAPS proofs. Paths below are
relative to the repository's root; `runner.py` is
`backend/app/orchestrator/runner.py`.

## 1. The system

The backend is one FastAPI process per replica; any number of replicas share one
Postgres (tables, `LISTEN`/`NOTIFY`, advisory locks) and optionally Redis. A
process runs many asyncio tasks: code between two awaits is atomic, everything
else interleaves. A task may be cancelled at any await, a process may die at any
point, and Docker restarts it (`restart: unless-stopped` in docker-compose.yml).

| Component | State | Operations | What is hard | What makes it correct |
|---|---|---|---|---|
| Run execution (`orchestrator/runner.py`, `models/run.py`, `api/runs.py`) | row of `runs`: status, owner, cancel intent, heartbeat; `RUNNING_TASKS` per process | create, start, resume, cancel, retry, delete, purge, finish, time out | cancellation at any await; several writers of one status; a run that moves between replicas | one task per run; an ended run stays ended; a live row has somebody working on it; nothing runs for ever |
| Reapers and replicas (`replica.py`, `main.py`, `runner.py`, `ambient/execute.py`) | `replicas` heartbeats, `runs.last_heartbeat_at` | boot sweep, dead-owner reaper, stall reaper, drain, retire | crash between any two steps; judging another process dead | only abandoned runs are failed |
| Control channel (`control.py`, `listen.py`) | notifications in flight | announce, dispatch, watch | lost and late notifications | a lost one costs time, never the result |
| Admission (`orchestrator/admission.py`) | semaphore, its size, `_queued`, `_running`, `_accepting` | gate, slot, rebuild, drain | a waiter that was handed a slot and has not run; cancellation there; replacing a semaphore in use | slots conserved; the limit; nobody waits for ever |
| Event ledger (`ambient/store.py`, `ambient/drain.py`) | `ambient_events.verdict`, claims | emit, claim, decide, write back, launch | no lock while deciding; a drain cut short or dead | one decision and one run per event; no event lost |
| Executor (`ambient/execute.py`) | run, budgets, routine failures | prepare, start, supervise, book-keep | crash between run and book-keeping | each fired event leads to a run and a delivery |
| Decision (`ambient/decide.py`, `patterns.py`, `coordinate.py`) | pattern state, judge | verdict of one event | caps read before they are used | caps; a failing judge means silence |
| Tick, lease, triggers (`ambient/drain.py`, `triggers.py`, `wakeups.py`, `sources.py`) | advisory lock, schedules, wakeups | lease, evaluators | a lease lost under way; emit and mark in two transactions | each due moment fires once |
| Deliveries (`ambient/deliver.py`, `channels.py`, `presence.py`) | outbox, tiers, budgets, retries | add, supersede, flush, send, retry | dispatch before commit; two flushes | shown once, within budget; nothing superseded is shown |
| Learning, salience (`ambient/learn.py`, `salience*.py`, `anticipate.py`) | policies, decision ledger | learn, judge, act | a decision applied twice | a decision is applied once |
| Event bus and streams (`orchestrator/context.py`, `api/chat.py`) | event history, sequence numbers, subscribers | emit, subscribe, replay, synthesise | reconnects; runs executed elsewhere; restarts | a stream ends, with no gap and no repetition |
| Orchestrator (`ladder.py`, `*_mode.py`, `planner.py`, `middleware.py`) | LangGraph checkpoint | plan, run nodes, interrupt | replay of finished pauses | each decision meets its own pause |
| Agent factory (`factory/dag.py`, `worker.py`) | graph of nodes | validate, order, retry | joins, partial failure | every node runs once, after its inputs |
| Registry cache, settings (`registry_cache.py`, `settings_store.py`) | copies, dirty flags, generations, Redis | load, invalidate, peer invalidation | an invalidation during a load | staleness bounded by the time to live |
| Job clock, retention (`jobclock.py`, `retention.py`, `memory/lifecycle.py`, `memory/scheduler.py`) | `job_clock`, locks | due, lock, run, stamp | check before lock | once per interval |
| Memory (`memory/*.py`) | memories, tombstones, embeddings | write, supersede, forget | two transactions; concurrent supersede | one live version; a forgotten fact stays so |
| MCP (`mcp/manager.py`) | connections, retry tasks | connect, disconnect, retry | cancellation inside a connect | a disconnected server stays so |
| Remote agents (`a2a/*.py`) | `a2a_tasks` | send, adopt, park, poll | replay, crash after delivery | one remote task per call, one delivery |
| Spend, rate limit (`cost.py`, `ratelimit.py`) | cached sums, buckets | admit | stale sums | bounded overshoot |
| Evals (`evals/runner.py`) | batch, results, counters, child runs | run, poll, approve, grade | operators beside it; a child given up on; a crash | counters are those of the results |
| Models, egress, auth, remaining API, frontend pages | | | | not concurrent, or outside the process |

A request creates a run (`create_run` asks admission and inserts the row) and
starts its task; the task waits for a slot, executes, and writes the row's
status; the ambient tick reaps stalled runs, and drains events into runs through
the same `create_run`/`start_run_task`. Stop, delete, reapers and the wall clock
all write the same column. That is why the run comes first here.

## 2. Modules

| Module | Models | Source |
|---|---|---|
| `RunLifecycle` | the run's row, the task, the registry, Stop, resume, reapers, crashes, drains, over several replicas | `orchestrator/runner.py`, `control.py`, `replica.py`, `ambient/execute.py` |
| `RunRecord` | what the table shows a reader: the status machine of docs/architecture/state-machines.md with `queued` and `stalled`; `RunLifecycle` implements it | `models/run.py` |
| `Admission` | the gate and the semaphore of one process | `orchestrator/admission.py` |
| `RunStream` | the events of one run, on the bus of each process, on their way to one client that connects anywhere | `api/chat.py`, `orchestrator/context.py` |
| `EventDrain` | the event ledger, the drains of all replicas, the executor up to the run | `ambient/drain.py`, `execute.py` |
| `EventLedger` | what the ledger promises of each event: judged once, run at most once and only if fired; `EventDrain` implements it | |
| `Outbox` | deliveries from insertion to the user and to external channels | `ambient/deliver.py`, `channels.py`, `presence.py` |
| `Routine` | a routine's wakeups, runs and failures | `ambient/execute.py`, `wakeups.py`, `store.py` |
| `Schedules` | a routine's schedule triggers | `ambient/triggers.py`, `store.py`, `api/routines.py` |
| `Watches` | a polled standing watch and its seen-list | `ambient/triggers.py`, `sources.py` |
| `Patterns` | a composite pattern, fed by several drains | `ambient/patterns.py` |
| `Salience` | the verdict on an unread delivery: applied, decided, undone | `ambient/salience.py`, `deliver.py` |
| `Learning` | tiers, digest times, thresholds and briefings learned from feedback | `ambient/learn.py`, `anticipate.py` |
| `GraphRun` | one run in graph mode: plan, dispatch, pause, replay | `orchestrator/graph_mode.py`, `ladder.py`, `factory/worker.py` |
| `AgenticLoop` | one run in agentic mode | `orchestrator/agentic_mode.py`, `middleware.py`, `ladder.py` |
| `Ladder` | how a capability is resolved, pinned, compiled and run | `orchestrator/ladder.py`, `factory/worker.py` |
| `Workflow` | a sub agent's workflow: what may be saved, and how it runs | `factory/dag.py`, `worker.py` |
| `ToolCalls` | the tool calls of one loop over pauses and changing rows | `orchestrator/middleware.py` |
| `Evals` | the batch runner of the evals | `evals/runner.py`, `api/evals.py` |
| `RegistryCache` | copies of the registries and their invalidation | `registry_cache.py`, `listen.py` |
| `McpConnection` | a replica's connection to an MCP server | `mcp/manager.py`, `api/mcp_servers.py` |
| `ToolRows` | a tool's row between ingests and the operator | `mcp/manager.py`, `a2a/manager.py`, `toolschema.py`, `api/tools.py` |
| `RemoteTasks` | a remote agent's task between run, poller and operator | `a2a/proxy.py`, `poller.py`, `tasks.py`, `api/remote_agents.py` |
| `JobClock` | when the periodic jobs run | `jobclock.py`, `memory/lifecycle.py`, `retention.py` |
| `MemoryStore` | semantic memories: replaced, reviewed, forgotten | `memory/store.py`, `extract.py`, `lifecycle.py`, `api/memories.py` |
| `Exemplars` | exemplars and their deferred votes | `memory/procedural.py` |
| `Episodes` | digests, rollups and their compaction | `memory/episodic.py`, `api/runs.py` |
| `Triggers` | `Routine`, `Schedules`, `Watches`, `Patterns`, `Salience` and `Learning` side by side | |
| `Work` | `GraphRun`, `AgenticLoop`, `Ladder`, `Workflow`, `ToolCalls`, `Evals`, `RegistryCache`, `McpConnection`, `ToolRows` and `RemoteTasks` side by side | |
| `Learned` | `JobClock`, `MemoryStore`, `Exemplars` and `Episodes` side by side | |
| `*Proofs` | theorems about `RunLifecycle`, `Admission`, `EventDrain`, `RunStream`, `Outbox`, `Triggers`, `Work` and `Learned` | |
| `MC*` | instances for TLC | |

How they meet. `EventDrain` ends where a run is created, which is where
`RunLifecycle` begins; `RunLifecycle` counts slots that `Admission` hands out and
leaves the body of a run open, which `GraphRun`, `AgenticLoop`, `Workflow`,
`ToolCalls` and `Ladder` fill, each at the level where its state lives; what a
run calls is in `ToolRows`, `McpConnection` and `RemoteTasks`; its end feeds
`Routine`, `Outbox`, `MemoryStore`, `Exemplars` and `Episodes`. Where one module
uses another's part, it takes the part's outcomes as a free choice. Components
that share no state are instantiated side by side in `Triggers`, `Work` and
`Learned`, where a variable `part` says which of them a behaviour moves: their
product would say no more than each of them does. What is claimed of a part is
stated there, and proved of it in the proof module of the three.

### RunLifecycle

One step is one transaction with the code around it that does not await. A
task's `pc` names the place where it is:

| `pc` | Where the task is |
|---|---|
| `load` | `bounded_execute`, before the slot (runner.py:164-185) |
| `wait`, `qcancel` | in `admission.slot`; cancelled there, the handler is still to write (204-212) |
| `start`, `pre` | has the slot; before, and after, the write of `running` (188-192), up to the `try` of `_execute` (335-425) |
| `body` | inside that `try`: the graph runs |
| `announce` | `completed` is committed, the announcement is awaited (479) |
| `parked` | `paused_hitl` is committed, the task is about to return |
| `failing`, `cancelling` | a handler of `_execute`, its write still to come |
| `overrun`, `timing` | the wall clock has cancelled the body; its handler, then the timeout's, is to write |
| `ended` | the done-callback is to run |

`Cancel` is `task.cancel()`: where it takes a task is decided by where it is
(`AfterCancel`); only some of those places have a handler that writes. `reg` is
`RUNNING_TASKS`, whose entry is replaced by `Launch` and popped by run id in
`Finish`. A decision posted to a pause (`Resume`) starts a task and leaves the
row paused and owned by its creator, as the code does. `CancelRow` /
`FinalizeCancel` and `ReapSelect` / `ReapWrite` are pairs because the code reads
and writes in two sessions. `Written` is a write that finds the row gone and does
nothing. `notices` carries the Stop announcements, to any subset of replicas.

Admission is reduced to a count of tasks that hold a slot; `Admission` has the
semaphore. The body of a run is a free choice of answer, pause, failure, or
going on until the wall clock.

### Admission

`at` says where each task is in `bounded_execute`/`slot`. The semaphore is
Python 3.12's: a release gives the slot to the first pending waiter
(`HandOver`), which stays in the waiters' line until it runs (`Acquired`), and a
cancelled one leaves the line and gives back what it was handed (`Unwind`); both
then wake as many others as there are free slots. A line is kept as the set of
waiters before each one (`ahead`). A semaphore is named after the task that made
it, since a task enters once.

### EventDrain

`drain_once` is `Claim` (one transaction), `Decide` and `WriteBack` for each
event, `Launch` for the batch. `Timeout` is `run_evaluator`'s. `Age` lets ten
minutes pass over a claim, and never over the claim of a drain that is still at
it: the tick ends a drain after 60 s, and its cancellation is delivered at the
await the drain is in. A batch is a set of events numbered by age, and the
oldest is decided first. `EventLedger` is seen through `Shown`, which takes the
claim away: an event is `open`, `fired`, or `dropped`. Every fired event here has an addressee (events that are
`fired` only to queue a question do not get an executor in the code).

### RunStream

`bus[p]` is the history `RunEventBus` of process `p` has of the run; an event's
number is its place in it, so numbers start again wherever the run's events start
again: after a restart, an eviction, or on another replica. `stream` is the
generator `stream_run_events` that serves the client, `mode` the place where it
is:

| `mode` | Where the stream is |
|---|---|
| `reading`, `read` | the bus knows nothing: the row is to be read, was read (chat.py:318-319) |
| `live` | history served, waiting on the subscriber's queue (365-372) |
| `foreign` | the run executes elsewhere: waiting for the announcement or a beat (342-364) |
| `closing` | what is left in `line` is served, then the stream closes |

`client` is `streamRun` and the browser's EventSource: the highest number
folded, the Last-Event-ID the browser keeps, the `after` of the URL, which the
endpoint prefers to the Last-Event-ID, and the reopens after an HTTP error.

The run is seen through its row and its one task. `Settle` is a commit of a
status, `Say` the events that follow it, `Leave` the announcement and the end of
the task: a client may connect, a process may die, and a Stop may come between
them. The announcement itself carries nothing: a stream that waits re-reads the
row at every beat too, so a lost or an early announcement is a `Reread` that
comes later or sooner. `Evict` (fifteen minutes, or five hundred runs) is not
taken while the task of the run is still there.

`log`, `folded`, `answered`, `homes`, `missed` and `ends` only record what happened:
every event emitted, those the client folded, whether a stream was answered from the
row, and which processes had to do with the run.

### The other ambient modules

`Outbox`: `row` is `deliveries`, `toasts` and `ext` what the user and the channel
got. A tick (`tick[p]`) runs its stages in the order of drain.py, each with its
reads in one step and its dispatch and its mark in others, which is where a cut
(`Cut`) or a second leader (`spent.overlap`) comes in. A user who returns flushes
from whatever replica he came to. `add_delivery` is a transaction of three steps:
`Add` inserts, `LookFor` selects the rows of its key, `Commit` marks them. A row that
was inserted first may so be committed last, and replace the other; `turn` is the
order of the commits.

`Routine`: `book` is the book-keeping of a run that ended, in three steps as in
`finish_ambient_run`; `tick` is `fire_due_wakeups` with its emit and its mark
apart. `Schedules` has the same shape with the stamp of `last_fired_at` shared by
all triggers, quarantine of a trigger that raises, and PATCHes of the routine.
`Watches`: the watermark is committed before the events are appended, so that a
tick cut short loses items and repeats none; `watch.seen` is the list with its cap,
and `forgotten` the items whose keys a committed list lost while the feed showed
them: those are reported again. `Patterns`: a drain reads the armed instance, writes
it, and emits; a pass over the deadlines, of the leader or of one that still believes
it is, does the same, on instances the drains or the other pass may be completing.
The cooldown is a dictionary of the process (`cooling`), so it does not keep two
processes from emitting for one instance; `met` holds the instances read that way.

`Salience`: passes judge, carry out, record; a request reads the record, acts and
closes it, in transactions of their own. `Alone` is the antecedent of what holds
only while they do not meet. `Learning`: `topic` chooses which learner moves; each
reads its row and its policy, decides and commits; the user approves, rejects,
reverts and configures beside it.

### What a run does

`GraphRun`: `at` is the node of the run's graph; a dispatch has an interrupt index
(`met`) and the answers given so far, and a replay starts it from its beginning
over the worker's thread (`worker`), burning one interrupt for each finished gate.
An entry in `Direct` was resolved to a tool or a skill: it runs in the dispatch itself,
which has no thread and looks for no step of an earlier pass.
`AgenticLoop`: threads are named after the agent, as in the code, so a later call
of an agent can meet an earlier thread; `thread[n]` says whose task it was given.
`Ladder`: the rungs in order, each with its row read; `pin` is what the step
records, `snap` what the snapshot says, `compiled` the compile cache, `ran` what was
run. `Workflow`: `Init` takes every workflow that `validate_workflow` accepts among the
edges of the instance; a superstep is `RunNodes` and `RunRouters`, with joins deferred.
`ToolCalls`: `instance` is the middleware of one loop, with what it resolved; a
resume makes a fresh one. `Evals`: `task` is `execute_eval_run`, with its local
counters; children are runs, their bodies left open.

### What a run leans on

`RegistryCache`: content is the set of the writes it was read after; `job` is the
invalidation of each write on each replica, `load` a load under way with what
moved meanwhile; Redis keys are `blob`. `McpConnection`: `who` gives the step of each
coroutine (requests, reconnect loops), `health` of the ping loop; all of them end
in `_connect_once` or `_teardown` on one entry. `auto` is the setting
`mcp_auto_reconnect_enabled`, which `Configure` switches under way; `excused` records
why nobody may be on a server: a step that found the database gone, reconnects
switched off when one was due, or one not scheduled because of a loop that was only
reporting its success. `ToolRows`: `held` remembers who took the tool out of service:
the policy (`changed`), the operator (`off`), the operator when the tool was already
missing or its agent off (`away`), or when an ingest was to write over him (`raced`).
`RemoteTasks`: `call` is the proxy, with the interrupts passed since it was started or
replayed; `poll` (list, recheck, deliver, mark) and `drawer` write the same row; `gone`
says that the agent was deleted, `died` that the call's process died.

### What a run leaves behind

`JobClock`: due, lock, work, stamp. Every read of a job's gate is a free choice, as an
operator may move the setting between any two; `ended` is when a job's work last came
to its end, `idle` when its function last returned without: jobs in `Gated` find their
gate closed, those in `Quiet` swallow their failure (reflection). `MemoryStore`: `job` gives each writer's candidate
and the row it is about to replace, as read before; `tombs` are the tombstones.
`Exemplars`: `post` is a run's pipeline, `judge` the turn and the sweep that settle
votes: read, decide, apply. `Episodes`: `fold` is the compaction, decided, embedded
with no session open, and written; the period row keeps the runs it counts (`of`) and
those its text tells of (`text`), which is cut at 2400 characters (`full`).

## 3. Runs

| Run | Question | Bounds |
|---|---|---|
| `run_quiet` | do the rows follow the status machine, when nobody stops a run, no clock cuts one and each pause is answered once? | 1 replica, 2 runs on 1 slot, 3 task slots, 1 crash, 2 pauses, 3 events in all |
| `run_fleet` | is the registry sound, does one task execute the run and one more for a second decision, has every live row a task, what revives a completed run, under everything at once? | 2 replicas, 1 run, 3 task slots, and 3 of: 2 Stops, 1 pause, 1 spare decision, 1 crash, 1 drain; wall clock, both reapers |
| `run_live` | does a running run settle, with ambient mode on? | 2 replicas, 1 run, 2 task slots, and 2 of: 1 Stop, 1 pause, 1 crash |
| `admission` | are slots conserved, and is everyone served? | 4 tasks, limits 1 and 2, 1 change, queue of 1 |
| `event_drain` | one drain per event, a ledger that is what it promises to be, and every event decided? | 2 replicas, 3 events, batches of 2, 1 timeout, 1 crash |
| `run_stream` | is a client told only of ends the row has had, does it fold what was emitted, each event once and in order, and does it come to the end? | 2 replicas, 1 client, queue of 2, 1 token, 1 pause, 1 crash or drain, 1 broken connection, 1 reopen, 2 events in all |
| `outbox` | is a row shown once, and sent once, but for ticks that were cut; is what replaces a row committed after it? | 2 rows of every kind, 2 replicas, 1 cut, 1 overlap, 1 failure of the channel, 2 attempts, budgets of 1 |
| `triggers` | does each due moment, item, pattern, verdict and lesson count once? | 2 replicas, 2 triggers over 4 minutes, 4 items in a feed of 3 with a list of 3, 3 events of a pattern, 3 hours, 1 cut, 1 overlap, 1 request |
| `work` | do replays repeat or lose nothing, joins wait, strict loops fail, pins hold, caches show what they were told? | a plan of 4 entries, one of them direct, with 3 gates, 4 workflow nodes over 13 possible edges, 2 tools, 3 calls in turns of 2, 2 edits, 1 pause, 2 requests (symmetric) and 1 reconnect loop of 2 attempts on 3 connections with 1 fault or switch of the setting, 2 questions of a remote agent, 2 eval cases |
| `learned` | is what runs leave behind written once, kept, and judged by what happened? | 2 replicas, 3 times, 3 jobs (one steady, one off at times that swallows its failures, and retention), 2 runs, 2 digests, 3 memory rows, 1 crash |
| `own_result` | violation: the second call of an agent gets the first one's result | 2 agents, 3 calls |
| `gates` | violation: the answer posted for a gate is not the one it is given | 1 worker with a tool that asks and a gate after it |

Why the bounds are enough. A second run adds competition for the slot, and row
by row the runs are independent otherwise, so two runs are used where the slot
matters (`run_quiet`) and one with more actors elsewhere. Three task
slots allow an old task that tails beside those of two decisions, and in `run_quiet`
two runs and a stray. Two Stops allow the second cancellation that changes the handler the
first one started. With four tasks in `Admission` there are a holder, a waiter
that was handed a slot, a waiter behind it and a newcomer that replaces the
semaphore. A queue of two in `RunStream` holds an answer's two events, and a third,
of a pause or a resumption, finds it full; two replicas are the one that runs the
run and the one that does not. Three events with batches of two make batches
overlap and leave one. Two rows of the outbox are one that replaces the other, or
two that compete for a budget of one. A feed of three with a list of three and four
items makes the list drop its oldest key while the feed still moves. Three events
of a pattern complete one instance and begin the next. Two triggers with an
interval and a "once" share one stamp. Two gates in one worker are what the
burning of interrupts has to tell apart, and the third gate, of another entry,
runs beside them. Three calls of one agent in two turns are a call, its replay and
a later call. Two requests and a loop are three attempts on one server, which meet in
every order; a second loop is left to the proof. Among the 13 edges of the workflow are an unequal diamond, a loop of
two, an error edge into a join and two joins in a row. What needs more of the same
is covered for safety, in the eight modules with proofs, by theorems without bounds.

`CHECK_DEADLOCK FALSE` is in every configuration: all runs over, every bound used
up, the system rests.

Where a property holds only but for cases the code pays for, the model counts
them and the property says so: one more showing for each cut or overlap
(`RepeatsArePaid`), one more firing of a trigger for each evaluation cut short and two
for each that ran beside another (`FiresOncePerInterval`),
nothing claimed of passes that met (`Alone`, `overlap`, and `met` of a pattern's
instance), of a remote task that the drawer acted on (`meddled`), whose agent was
deleted or whose call died (`gone`, `died`), of a server in a case of `excused`, of a
disable that is `away` or `raced`, of an invalidation that met a fill of Redis. Each of
these exclusions is an observable weakness of the code that its comments accept or do
not mention: the property's own comment states it, and section 4 lists it.

### Fairness

- `RunLifecycle`: the steps of a task are weakly fair, taken together: asyncio
  schedules ready tasks in turn, and the code's awaits on Postgres return or
  raise. The wall clock is fair while the body runs (`asyncio.wait_for` with
  `run_wall_clock_s`); what the body does is not. The steps of a process (grace
  expired, exit, lapse of its heartbeat, boot) are fair together: the compose file
  restarts a dead container and a dead process stops refreshing its row.
  `ReapDeadOwner` is called by the periodic loop of every replica
  (memory/lifecycle.py:528), the stall reaper by every tick of the ambient loop.
  `Age`: time passes.
- `Admission`: while a task can run, some task does; a run that executes ends,
  because the wall clock ends the body of `slot()`.
- `EventDrain`: the drains and executors of live replicas run, `drain_once` with
  every tick; time passes over an abandoned claim.
- `RunStream`: a stream with something to do does it and the browser connects
  again (`retry: 5000`, or `streamRun`'s own timer); what is committed is emitted
  and the task leaves; a draining process exits and is started again; a process
  emits for other runs, so an old run is evicted. What the run does next is not
  fair. `Reconnect`, the hint of a draining process, is bounded like a broken
  connection, since the client of a paused run may come back to the same process
  any number of times while it drains.
- Requests, crashes, lost notifications, and Stops are never fair.

The other modules are checked for safety only.

## 4. What disagrees with the documents

Two disagreements have a run (PROJECT.json, `findings`):

- `own_result`: in agentic mode a dispatch is known by the name of the agent, so a
  second call of the same agent, with another task, finds the first one's finished
  thread and is given its result (ladder.py:508-512), though `find_running_dispatch`
  says that an existing step "marks a HITL replay".
- `gates`: a worker has a skill whose tool asks its user (a remote agent that needs
  input, a2a/proxy.py:149), and a gate after it. The first POST answers the question.
  When the second, for the gate, is posted, the dispatch runs again and burns one
  interrupt for each finished node of type `hitl` (ladder.py:529-533), of which there
  are none: the gate is given the first answer, and a deny opens it. The comment above
  (ladder.py:525-528) and docs/operations/runbook.md:107 ("One POST answers **one**
  gate") say otherwise. `OnePostOneGate` is proved of all workers in which no tool
  asks before a gate or another question (`AsksLast`).

The models keep the code's behaviour. Others were met while modelling; each is
behaviour of the models that the properties leave room for:

- A Stop that arrives while a completed run is announced writes `cancelled` over
  `completed` (runner.py:492; state-machines.md:21 has no such edge).
- A second decision on one pause is accepted until the first one's task has its
  slot, and starts a second task (runner.py:954-970; runbook.md:148).
  `answered[r].spare` counts such decisions; each may start one more task
  (`OneExecutor`) and revive a completed run (`CompletedNotRevived`).
- A Stop at an await that no handler covers writes nothing, and the row stays
  `running` until the reaper of stalled runs, which ticks with ambient mode only; that
  is off by default (settings_store.py:103). `silent` records these runs.
- A run resumed on another replica keeps its creator as owner and is failed when
  the creator dies (runner.py:251, scaling.md:47).
- After a change of `run_max_concurrent`, holders of the old semaphore and of the
  new one together can be more than the limit (admission.py:8, 125).
- An ambient event marked fired is left without an executor when its batch is cut
  short before the launch (drain.py:158-170; its comment at 36-37).
- A stream that saw the pause is never told of the answer of a run resumed at
  another replica (chat.py:342-364; scaling.md:46). A run that was written
  `stalled` is not among the ends a stream waits for (chat.py:236).
- The text given for a denied gate says that "no step after it ran"
  (ladder.py:576-613); a step that another branch of the workflow reaches does run.
- `use_full_catalog` unlocks the registry "for the rest of this run"
  (agentic_mode.py:65); the flag lives in the run's context, which a resume makes
  anew.
- A tool that was deleted and restored to inactive between two calls of one loop
  is taken for a name the loop never had; see `StrictLoopsFail`.
- Retention stamps its clock whether it got the lock or not, so a period can be
  skipped (jobclock.py:4-6); `StampMeansRan` is about the other jobs.
- Mining is stamped also when procedural learning is off, as it is by default
  (lifecycle.py:442-452, procedural.py:610), and reflection also when its model failed
  (lifecycle.py:186-188), though `job_clock` is to say when a job last ran.
- A compaction deletes the digests it has folded also when the period's text has no
  room left for them (episodic.py:237): they are counted, and told of nowhere.
- An operator's disable of a tool that is missing at its server, or of one whose agent
  is off, is undone by the return (manager.py:456-457, remote_agents.py:165-175), though
  only "the SERVER's absence is undone by its return" (manager.py:452-455).
- The poller closes a parked task of a deleted agent as delivered and tells nobody
  (poller.py:119-131). A row that a dead process left `working` is polled by nobody.
- A failed ping or attempt schedules no reconnect while a loop is still there, also one
  that is only reporting the success of a connection just torn down
  (manager.py:291-295); the server then waits for the next request.
- A second call of an agent in one run gets no route row (middleware.py:631-649), though
  every resolution is to be recorded (ladder.py:5).
- A direct dispatch that is replayed beside a paused one runs its tool again
  (ladder.py:656-659).
- A batch of evals whose process dies stays `running`; nothing resumes or fails it.
- A completed run in which the user denied a gate upvotes the exemplars it was planned
  with (procedural.py:386-402), though the comment at 389-390 says that both
  "completed" and "no deny" are known there.
- The branch of the pipeline for runs that did not complete is never reached
  (runner.py:483), so no failed run votes an exemplar down, and a resumed run has
  lost the exemplars it was planned with.

Some properties of streams hold for whom they say. A full queue drops events
silently (`missed`). Numbers start again with every history, and the client drops
what is numbered at or below what it has folded: so `NoGap` is about one process
(`OneHome`), and across processes only the end is promised, under a number that
continues the client's. An answer made from the row is numbered that way too: after a
broken connection, an eviction and a re-read, the client may be told of the end under
the number of an event it never saw, so `NoGap` ends with the first such answer
(`answered`). `Smooth` names what may keep even the end away: a full
queue; an HTTP error followed by a reopened stream, whose `after` stays in the URL
while the browser's own reconnections move on; and a pause answered or watched at
another process, as above.

## 5. Proofs

`RunLifecycleProofs`, for every set of replicas, runs and tasks and with no bound
on events:

- `RegistryIsSound`: types, and `RegistryAlive`. The inductive invariant is
  `TypeInv` = `TypeOK`, `JobOK` (a slot is idle exactly when it has no job),
  `BeatOK` (a heartbeat belongs to a task with a slot) and `RegistryAlive` itself.
  `JobOK` is what makes the popping of the entry by run id harmless to
  soundness: a task leaves `ended` and its entry in one step.
- `AtMostOneExecutor`: `OneExecutor`, with no assumption on the clients: a run has
  one executing task, and one more at most for each spare decision. The property is
  not inductive: a start or a decision that is on its way is not a task yet.
  `ExecInv` adds that a start under way finds the run free of executing tasks, that
  only one start is under way, and that while a run rests (no row yet, completed, or
  paused and not answered) its executors are at most the spare decisions, so there
  is room for the one task a request may start then.
- `CompletedStaysEnded`: `CompletedNotRevived`, from `ExecInv`: while the row is
  `completed` the tasks that may still write `running` or `paused_hitl` are at most
  as many as the spare decisions.
- `NothingWaitsForNobody`: `LiveRowHasTask`, under Stops, drains, reapers and
  crashes. It excepts `silent`, the runs whose task was cancelled at an await that no
  handler covers (the hazard at runner.py:187) and those resumed at a replica that
  died while the one in their row lives. `LiveRowHasTask` is not inductive, as a task
  in its tail is a task too: `LiveInv` says that a live row is carried by a task that
  will still write, or is due to be started where its row says. `Known` beside it says
  that a row that is not there has neither a task nor anything under way.

`FollowsRecord`, the refinement of `RunRecord`, is only model-checked: it is about
one replica, nobody stopping a run, the wall clock off and pauses answered once.
Each of these makes a write over a status that was not looked at.

The assumption used is `ConstantsAssumption` (the null values are not members,
the bounds are numbers), which TLC evaluates in every run of `RunLifecycle`.

`EventDrainProofs`, for every set of replicas, every number of events and every
batch size, from `DrainAssumption`:

- `ClaimIsExclusive`: `OneDrainPerEvent`.
- `EventRunsOnce`: `OneRunPerEvent`.
- `DrainImplementsLedger`: `FollowsLedger`, each step of the drain maps to a step
  of `EventLedger` or to none.

The inductive invariant is `DrainInv`: the types; `DrainOK` (a decision under way
belongs to the batch of its replica, and a dead process has neither); one drain
per event; and `RunInv`, which says who still owes a run: an undecided event has
neither run nor executor, at most one replica has the event among those to
launch or to prepare, and while one does there is no run yet. Without `RunInv`
"one run" is not inductive, as a launch would be free to repeat.

`RunStreamProofs`, from `StreamAssumption`, with no bound on replicas, crashes,
drains, broken connections, pauses or the length of queues:

- `ToldEndIsRecorded`: `EndIsRecorded`. What the client knows follows from what is
  on its way, so `TrueInv` says it of everything that may be sent: of every
  history, of what the stream has in hand and in its queue, of the status it has
  read and not looked at yet, of a task that has committed and is to emit, and of
  a replica that stopped a paused run. The set of ends the row has had only grows,
  which keeps all of these true; the order of `Settle` and `Say` is what makes
  the emitted event one of them.
- `NothingSkipped`: `NoGap`. `GapInv` says of what is on its way, that is the line and
  the queue of the stream and the history it would be served from, that it continues
  without a gap the number the client has reached (`Gapless`), as long as no queue was full;
  and that neither the browser's Last-Event-ID nor the URL's `after` is ahead of it.
  That is about numbers. `PastInv` says what they stand for: with one process
  (`OneHome`), its history is all that was emitted (`log`), unless nothing more will be
  (`Finished`), so that an evicted history is never begun again under the same
  numbers; and every event on its way has the place in `log` that its number says.
- `StreamTyped`: `TypeOK`, and that a subscriber's queue stays within its limit.

`AdmissionProofs`, from `AdmissionAssumption` (of which the finiteness of `Task` is
what lets slots be counted), with no bound on changes of the limit:

- `NoSlotIsLost`: `SlotsConserved`. Beside it `AdmissionInv` says that a task has a
  semaphore exactly from `Enter` on, and that every semaphore in use was made by
  the task it is named after, so that one just made has no holder yet. The heart
  is `HandOverKeeps`: whoever is handed a free slot, the books stay right, provided
  what the leaving task gives back is counted once.

`OutboxProofs`, from `OutboxAssumption`, for every number of rows and replicas:

- `ReplacedRowsYield`: `ReplacedByLater`. `OutboxInv` adds that what an open transaction
  is to replace was committed and has its key, that commits are numbered one after the
  other, and that only committed rows are replaced.
- `SentStaysSent`: `SentIsSent`. `SendInv` adds that only a row that was marked has an
  entry, so no queue holds what was sent; that without overlap one tick goes on at a
  time; and that the entries a retry has in hand then still are the failed ones it
  read. `TakenInv` counts: the times the channel took a row are the ticks that were cut,
  and one that is recorded or about to be.
- `ShownOnceUnlessCut`: `RepeatsArePaid`. `PaidInv` counts: as long as a row is
  pending, each time it was shown is that of a tick that is to mark it or of one
  that was cut short, and the ticks going on are at most one more than the overlaps.
  The count is of replicas, which is why they are assumed to be finitely many.

`WorkProofs`, `TriggersProofs` and `LearnedProofs` prove of the three compositions
what the runs `work`, `triggers` and `learned` check of them. Since one part moves
and the others stutter (`OnePartMoves`), the invariant of a part is inductive for
the whole. The assumptions are that a worker's nodes are a list and a direct entry is one skill
(`WorkersAreLists`), that datasets and replicas are finite (`CasesAreFinite`, `ReplicasAreFinite`), that
bounds, and the triggers and their intervals, are numbers (`BoundsAreNumbers`,
`WritesAreCounted`, `TriggersAreNumbers`, `WatchesAreNumbers`), that the loop's own
tools are no agents (`AgentsAreAgents`), that a request is no reconnect loop
(`RequestsAreNoLoops`), and that the salience pass of a replica is not a request of a
user (`PassesAreNoRequests`). In `WorkProofs`:

- `DispatchRunsItsPin`: `RunsItsPin`. `LadderInv` adds that a graph in the compile
  cache was built of what its key names, that a pin is what the resolution found
  once a step exists, and that the dispatch of a plan is resolved once; the pin of a
  replayed dispatch in agentic mode is taken over from its step.
- `InvalidatedIsGone`: `ProcessedWritesShow`. `CacheInv` adds that of whatever lacks a
  write something is still to come: to a copy and to a load the mark of its replica, to
  a key in Redis the deletion of some replica. What was missed while a connection was
  down comes with the resync (`CacheMarkAhead`, `CacheDeleteAhead`). The property
  excepts a key that was filled between a check and the set after it.
- `ServersAreHeld`: `NotAbandoned`, of attempts that may meet in any way. `McpInv` says
  that the loop the breaker names is alive (`McpTaskAlive`), and, but for `excused`
  cases, that a server which was tried has a connection, an open circuit, or somebody
  who will follow up a failure (`McpCarried`): whoever tears a connection down carries
  the server on, so that nobody's success needs to last.
- `ToolStaysOut`: `OutUntilAllowed`. `ToolRowsInv` adds that, while the tool is held
  out, nobody who is about to write has a view of the row from before that. A quarantine
  is written under the lock, so by the only ingest between its read and its write; an
  operator's word counts when the tool was in place and no ingest was between the two.
- `AdoptedNotResent`: `SentOnce`, and `NeverForgotten`: `NotForgotten`. `RemoteInv`
  adds that what the call sent has an open row whenever the call could send again
  (`RemoteOneOpenRow`), and that a row is marked delivered only after somebody was told,
  as long as the agent is registered (`RemoteToldFirst`).
- `NodesRunOnce`: `RanOnce`. `GraphInv` ties the runs of each worker's nodes to the
  place its thread has reached; a dispatch that starts afresh has a fresh thread. Direct
  dispatches run as often as they are replayed.
- `AnswerOpensOneGate`: `G!AsksLast => (Spec => []OnePostOneGate)`: no answer is taken
  by two gates. The answers of a
  dispatch are numbered by its interrupts; `GraphPostInv` says that a post is
  the answer of one dispatch, in one place; that the answers taken are in the places of
  the gates that are behind, or nothing is left that takes one; and that a dispatch has
  met as many interrupts as gates.
  Without `AsksLast` it is false: see the run `gates`.
- `AgentsRoutedOnce`: `RoutedOnce`, at most one route row a call. `LoopInv` adds that a routed call of an agent has a
  dispatch step, which is what its replay looks for.
- `JoinsRunLast`: `JoinsWait`. `FlowInv` says, of workflows without a join behind a join,
  that no two nodes of a superstep are behind one another (`FlowBranches`), that a node
  with one edge in runs after the router of the node before it (`FlowOneWayIn`), and that
  either no join ran yet or nothing that is left leads to one (`FlowJoinsLast`). What is
  behind a node is the least set closed under successors, so no induction on paths is
  needed: `FlowBehindIsLeast` is cited for the set at hand. Edges are finitely many and
  lead from the start or a node to a node or the end (`EdgesAreEdges`).
- `ContractsHold`: `StrictLoopsFail`. `CallsInv` adds that of what an instance of the
  middleware reported missing it has the names, but for tools deleted or back.
- `CountersAddUp`: `BatchAddsUp`. `EvalInv` adds that the batch's own counters are
  those of the rows while it runs, and that the cases before the one at work have a
  verdict and those behind it no run. Sets of results are counted, so the dataset is
  finite.

In `TriggersProofs`:

- `WakeupsFireOnce`: `WakeupFiresOnce`. `RoutineFireInv` counts: the events a wakeup became
  and the ticks that are to emit one more are together at most one more than the
  overlaps, as are the ticks at work; a tick that finds the event's key in the ledger
  does not get to emit.
- `FailuresPause`: `FailingRoutineStops`. Failures counted side by side may be counted
  as one, so the count itself says nothing. `RoutineBookInv` says that whoever is about
  to count a failure read the routine while it was on, as long as it is on; so what he
  writes is below the limit or pauses it.
- `FiresInTime`: `FiresOncePerInterval`. `ScheduleInv` keeps, trigger by trigger, what
  was fired too soon, who may still fire it, and one more if no stamp covers the last
  firing, within what cuts and overlaps paid for; and within one more as long as all
  who may still fire it read a stamp that covers the firings there are, since the
  first of them then fires in time.
- `ItemsAreReportedOnce`: `ItemReportedOnce`, of feeds of any length. `WatchInv` says
  that what was reported, or is in hand, is on the list, has left the feed or was
  forgotten (`WatchKnown`). `ShortFeedsAreKept`: under `W!ListOutlastsFeed`, `2 *
  FeedSize <= SeenCap + 1`, nothing is forgotten. Then in a seen-list nothing lies
  `FeedSize` or more behind what comes before it (`WatchRecent`); an item that a full
  list drops has `SeenCap` others behind it, and only `2 * FeedSize - 2` fit around an
  item that the feed still shows (`WatchFewAreNear`, by the pigeonhole principle), so
  it has left. With a `_SEEN_CAP` of 100 that are feeds of up to 50 items. The code
  does not bound what a source lists, and of a longer feed an item can become two
  events, although `sources.py` says that "unordered feeds and mid-list insertions
  still dedupe correctly". A feed of 60 is enough, even listed newest first: a poll of
  all 60 puts the newest of them at the front of the list, which is the first to be
  dropped after 41 more, and still in the feed. The run `triggers` has such a feed.
- `InstancesDeriveOnce`: `DerivedOnce`. `PatternInv` says that an instance which is armed
  has no event yet, and counts the events it has together with the drains, or for an
  absence the passes, that have read it and may still emit; of one that no second read
  beside the first there is one such, and none once there is an event.
- `UndoneLeavesNothing`: `UndoneIsUndone`. `JudgeInv` says, as long as no two passes or
  requests met and none was cut short, that one is at work at a time, and what the row
  is like at each of its steps: as it was made, changed with what undoing needs in hand
  or in the record, or taken back.
- `TimesDontDrift`: `DriftBounded`. `LearnInv` says that the hour the learner set and
  that of every proposal lie within the clamp of the anchor, and that a pass that is to
  shift the hour has that anchor in hand, while the passes come one after the other and
  nobody changes the number of digests a day (`LearnSteady`).

In `LearnedProofs`:

- `ClockIsEarned`: `StampMeansRan`. `ClockInv` adds that whoever is about to stamp
  looked at the clock before the work he saw end ended, or before the function of a job
  in `Gated` or `Quiet` returned, which a later end, by whomever, does not change.
- `ServedStay`: `ServedStays`. `ExemplarInv` adds that a run leaves its exemplar once
  (`HarvestedOnce`), that whatever can serve has a vote, which no heuristic takes
  below one, and that runs start in the order of their numbers.
- `RunsRememberedOnce`: `RememberedOnce`. `EpisodeFoldOK`: what a compaction is about to
  fold is still a digest, or deleted, the period is the one it read, since the
  compaction alone writes it, and the row it will write tells of all it counts unless
  its text is full.
- `ReplacedOnce`: `AppendOnly`. `MemoryInv` adds that whoever is about to close a row has
  one, that a row which is not there or erased is in no chain, and that a row under
  review was replaced only if the overlap was noted.

`TypeOK` of these modules and `OneRunPerEvent` are proved and not repeated in a
run. Of the safety properties of the passing runs only `FollowsRecord` is not a
theorem. Only model-checked is also all liveness (`RunningSettles`, `EveryoneServed`,
`EveryEventDecided`, `LearnsTheEnd`), which is out of the prover's reach.

## 6. Not modelled

Inside the modelled components: database errors in the middle of a handler, but
where a module says so; a row with no owner (made before the column existed); a
live replica whose own heartbeat is late; the ambient supervisor's cancellation
for budgets; readiness and metrics. `Admission` has one task per run, so a resumed
task that gets its slot while the old task of the same run is still leaving is
outside it. `EventDrain` takes `emit_event` as an insert: `Routine` and `Schedules`
have its dedupe key and its kill switch; the guard on the depth of chains is left
out. `RunStream` has one client, no deletion of a run whose stream is open, one
decision per pause, and no stalled task that still runs. `Outbox` has one owner.
`Watches` has one source of a kind whose items have keys; a source that compares
contents is data. `GraphRun` has one plan without cycles; `Workflow` no
retry inside a node. `RegistryCache` keeps its mode for a whole behaviour.
`Exemplars` leaves out routing statistics and mined proposals, `Episodes` one
conversation at a time, `MemoryStore` decay and ranking.

Whole components: see `components` in PROJECT.json, with the reason for each.
Ranking, statistics, prompts, adapters and rendering are arithmetic on text and
vectors or calls to outside services, where a model checker has nothing to
interleave; request handlers that read or write one row have one step.

## 7. What is left

1. Proofs: action properties of the parts of `Work` and `Triggers` beside their
   invariants, and abstract specifications of `Outbox` and `RegistryCache` to refine.
2. The supervisor's budgets in the executor, and the spend ceiling it shares with
   chat runs.
3. Two clients of one run, and a run deleted under an open stream.
4. Mined proposals and routing statistics beside `Exemplars`.
