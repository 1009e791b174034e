----------------------------- MODULE RunStream -----------------------------
(***************************************************************************)
(* The events of one run on their way to one client:                       *)
(* backend/app/orchestrator/context.py (RunEventBus),                      *)
(* backend/app/api/chat.py (stream_run_events),                            *)
(* frontend/src/api/client.ts (streamRun).                                 *)
(*                                                                         *)
(* Every process keeps the events that were emitted in it, and numbers     *)
(* them from 1.  A stream serves what its process has, or waits for the    *)
(* row when the run executes elsewhere.  The client folds an event whose   *)
(* number is above the highest it has folded, and reconnects.              *)
(*                                                                         *)
(* The run is seen through its row and the one task that executes it; who  *)
(* may start or stop that task is the matter of RunLifecycle.              *)
(***************************************************************************)
EXTENDS Naturals, Sequences

CONSTANTS
  Replica, NoReplica,
  Creator,            \* the replica the run was created at, its owner ever since
  QueueMax,           \* a subscriber's queue (1000 in the code)
  ReopenLimit,        \* STREAM_REOPEN_LIMIT
  MaxToken, MaxPause, MaxCrash, MaxDrop,  \* bounds on how often these happen
  MaxEvents           \* and on how often they happen altogether

ASSUME StreamAssumption ==
  /\ NoReplica \notin Replica /\ Creator \in Replica
  /\ {QueueMax, ReopenLimit, MaxToken, MaxPause, MaxCrash, MaxDrop, MaxEvents} \subseteq Nat

VARIABLES
  row,      \* runs.status
  ends,     \* every ended status the row has had
  task,     \* the task in RUNNING_TASKS: its replica, its place, what it commits
  stopping, \* replicas that stopped the paused run and are to emit that
  phase,    \* of each replica: up, draining, down
  boot,     \* how often each replica was started before
  bus,      \* what each process has emitted, in order; an event's number is its place
  stream,   \* the client's connection: the generator that serves it
  client,   \* streamRun: how it ended, lastSeq, the id EventSource has, `after`
            \* of the URL, reopens
  folded,   \* the events the client has folded, in order
  answered, \* a stream was served from the row
  homes,    \* processes that had the run's task or served the client
  missed,   \* an event found a subscriber's queue full
  log,      \* every event emitted, by whatever process
  spent

run  == <<row, ends, task, stopping>>
hear == <<client, folded, answered>>
vars == <<run, phase, boot, bus, stream, hear, homes, missed, log, spent>>

Ended    == {"completed", "failed", "cancelled"}
NoTask   == [at |-> NoReplica, pc |-> "none", what |-> "none"]
NoStream == [at |-> NoReplica, mode |-> "closed", after |-> 0, line |-> <<>>,
             queue |-> <<>>, on |-> FALSE, seen |-> "none"]

Init ==
  /\ row = "queued" /\ ends = {}
  /\ task = [at |-> Creator, pc |-> "queued", what |-> "none"]
  /\ stopping = {}
  /\ phase = [p \in Replica |-> "up"] /\ boot = [p \in Replica |-> 0]
  /\ bus = [p \in Replica |-> <<>>]
  /\ stream = NoStream
  /\ client = [ended |-> "no", lastSeq |-> 0, lastId |-> 0, base |-> 0, reopens |-> 0]
  /\ folded = <<>> /\ answered = FALSE
  /\ homes = {<<Creator, 0>>} /\ missed = FALSE /\ log = <<>>
  /\ spent = [token |-> 0, pause |-> 0, crash |-> 0, drop |-> 0]

Spend(what, limit) == /\ spent[what] < limit
                      /\ spent.token + spent.pause + spent.crash + spent.drop < MaxEvents
                      /\ spent' = [spent EXCEPT ![what] = @ + 1]

Home(p)  == <<p, boot[p]>>
Local(p) == task.at = p          \* run_id in RUNNING_TASKS

\* The events that tell a status, live or from the row: a run_status, with the
\* answer after `completed` and the error before `failed`.
Story(s) == CASE s = "completed" -> <<"completed", "done">>
              [] s = "failed"    -> <<"error", "failed">>
              [] OTHER           -> <<s>>

IsTerminal(e) == e.kind \in {"done", "failed", "cancelled"}

Numbered(kinds, after) == [i \in 1..Len(kinds) |-> [kind |-> kinds[i], seq |-> after + i]]

-----------------------------------------------------------------------------
(* RunEventBus *)

Done(p) == \E i \in 1..Len(bus[p]) : bus[p][i] \in {"done", "completed", "failed", "cancelled"}

\* Mutant of History: one event too few.
HistorySkips(p, after) == SubSeq(Numbered(bus[p], 0), after + 2, Len(bus[p]))

\* subscribe: the history after a number
History(p, after) == SubSeq(Numbered(bus[p], 0), after + 1, Len(bus[p]))

\* emit: the events get their numbers, enter the history, and the subscriber's
\* queue as far as it has room.
Emit(p, kinds) ==
  LET listens == stream.at = p /\ stream.on
      new     == Numbered(kinds, Len(bus[p]))
      room    == QueueMax - Len(stream.queue)
      fits    == IF room < Len(new) THEN room ELSE Len(new)
  IN
  /\ bus' = [bus EXCEPT ![p] = @ \o kinds]
  /\ stream' = IF listens THEN [stream EXCEPT !.queue = @ \o SubSeq(new, 1, fits)] ELSE stream
  /\ missed' = (missed \/ (listens /\ fits < Len(new)))
  /\ log' = log \o kinds

\* A run that is done, and whose task is over: it takes 15 minutes, or 500 runs.
Forgettable(p) == Done(p) /\ ~Local(p)

\* _evict, on any emit of the process: the run is forgotten, with its subscribers.
Evict(p) ==
  /\ Forgettable(p)
  /\ bus' = [bus EXCEPT ![p] = <<>>]
  /\ stream' = IF stream.at = p THEN [stream EXCEPT !.on = FALSE] ELSE stream
  /\ UNCHANGED <<run, phase, boot, hear, homes, missed, log, spent>>

-----------------------------------------------------------------------------
(* The run *)

Write(s) == /\ row' = s
            /\ ends' = IF s \in Ended THEN ends \cup {s} ELSE ends

\* bounded_execute has its slot
Start ==
  /\ task.pc = "queued"
  /\ Write("running")
  /\ task' = [task EXCEPT !.pc = "begin"]
  /\ UNCHANGED <<stopping, phase, boot, bus, stream, hear, homes, missed, log, spent>>

\* _execute announces the start, of a resume too
Begin ==
  /\ task.pc = "begin"
  /\ task' = [task EXCEPT !.pc = "body"]
  /\ Emit(task.at, <<"running">>)
  /\ UNCHANGED <<row, ends, stopping, phase, boot, homes, hear, spent>>

\* whatever the body emits: plan, route, token, activity, charts, ...
Token ==
  /\ task.pc = "body" /\ Spend("token", MaxToken)
  /\ Emit(task.at, <<"token">>)
  /\ UNCHANGED <<run, phase, boot, homes, hear>>

\* What a task may commit next.  "overrun" is the wall clock: _execute is
\* cancelled, and writes that; then bounded_execute writes failed.  A Stop can
\* come while a completed run is announced.
MaySettle(s) ==
  CASE task.pc = "queued"   -> s = "cancelled"
    [] task.pc = "body"     -> s \in Ended \cup {"paused", "overrun"}
    [] task.pc = "announce" -> \/ task.what = "completed" /\ s = "cancelled"
                               \/ task.what = "overrun" /\ s = "failed"
    [] OTHER                -> FALSE

\* Mutant of Settle: the events go out and the row is not written yet.
SettleUnwritten(s) ==
  /\ MaySettle(s)
  /\ IF s = "paused" THEN Spend("pause", MaxPause) ELSE UNCHANGED spent
  /\ Emit(task.at, Story(s))
  /\ task' = [task EXCEPT !.pc = "say", !.what = s]
  /\ UNCHANGED <<row, ends, stopping, phase, boot, homes, hear>>

\* The commit of the status.
Settle(s) ==
  /\ MaySettle(s)
  /\ IF s = "paused" THEN Spend("pause", MaxPause) ELSE UNCHANGED spent
  /\ Write(IF s = "overrun" THEN "cancelled" ELSE s)
  /\ task' = [task EXCEPT !.pc = "say", !.what = s]
  /\ UNCHANGED <<stopping, phase, boot, bus, stream, hear, homes, missed, log>>

\* Only then the events of it.
Say ==
  /\ task.pc = "say"
  /\ task' = [task EXCEPT !.pc = "announce"]
  /\ Emit(task.at, Story(IF task.what = "overrun" THEN "cancelled" ELSE task.what))
  /\ UNCHANGED <<row, ends, stopping, phase, boot, homes, hear, spent>>

\* The announcement on the control channel is made, and the task ends.
Leave ==
  /\ task.pc = "announce" /\ task.what # "overrun"
  /\ task' = NoTask
  /\ UNCHANGED <<row, ends, stopping, phase, boot, bus, stream, hear, homes, missed, log, spent>>

\* resume_run, at the replica that got the request
Resume(p) ==
  /\ phase[p] # "down" /\ row = "paused" /\ task = NoTask
  /\ task' = [at |-> p, pc |-> "queued", what |-> "none"]
  /\ homes' = homes \cup {Home(p)}
  /\ UNCHANGED <<row, ends, stopping, phase, boot, bus, stream, hear, missed, log, spent>>

\* cancel_run of a paused run: the replica that got the request writes the end,
\* and emits it on its own bus.
StopPaused(p) ==
  /\ phase[p] # "down" /\ row = "paused" /\ task = NoTask
  /\ Write("cancelled")
  /\ stopping' = stopping \cup {p}
  /\ homes' = homes \cup {Home(p)}
  /\ UNCHANGED <<task, phase, boot, bus, stream, hear, missed, log, spent>>

SayStopped(p) ==
  /\ p \in stopping
  /\ stopping' = stopping \ {p}
  /\ Emit(p, Story("cancelled"))
  /\ UNCHANGED <<row, ends, task, phase, boot, homes, hear, spent>>

-----------------------------------------------------------------------------
(* Processes and reapers *)

Down(p) ==
  /\ phase' = [phase EXCEPT ![p] = "down"]
  /\ task' = IF Local(p) THEN NoTask ELSE task
  /\ stopping' = stopping \ {p}
  /\ bus' = [bus EXCEPT ![p] = <<>>]
  /\ stream' = IF stream.at = p THEN NoStream ELSE stream
  /\ UNCHANGED <<row, ends, boot, hear, homes, missed, log>>

Crash(p) == phase[p] # "down" /\ Spend("crash", MaxCrash) /\ Down(p)

\* begin_drain: the pre-stop signal, or the shutdown itself
Drain(p) ==
  /\ phase[p] = "up" /\ Spend("crash", MaxCrash)
  /\ phase' = [phase EXCEPT ![p] = "draining"]
  /\ UNCHANGED <<run, boot, bus, stream, hear, homes, missed, log>>

\* drain_running_tasks is over, and the process ends.
Exit(p) == phase[p] = "draining" /\ ~Local(p) /\ Down(p) /\ UNCHANGED spent

\* reap_orphaned_runs precedes the first request; it emits nothing.
Boot(p) ==
  /\ phase[p] = "down"
  /\ phase' = [phase EXCEPT ![p] = "up"]
  /\ boot' = [boot EXCEPT ![p] = @ + 1]
  /\ IF Creator = p /\ row \in {"queued", "running"} THEN Write("failed") ELSE UNCHANGED <<row, ends>>
  /\ UNCHANGED <<task, stopping, bus, stream, hear, homes, missed, log, spent>>

\* reap_dead_owner_runs, once the owner's heartbeat is old; it emits nothing.
ReapDeadOwner ==
  /\ \E p \in Replica : phase[p] # "down"
  /\ phase[Creator] = "down" /\ row \in {"queued", "running"}
  /\ Write("failed")
  /\ UNCHANGED <<task, stopping, phase, boot, bus, stream, hear, homes, missed, log, spent>>

\* reap_stalled_runs, for a run whose task died with its process.
ReapStalled ==
  /\ \E p \in Replica : phase[p] # "down"
  /\ row = "running" /\ task = NoTask
  /\ Write("stalled")
  /\ UNCHANGED <<task, stopping, phase, boot, bus, stream, hear, homes, missed, log, spent>>

-----------------------------------------------------------------------------
(* The client: streamRun and the browser's EventSource *)

Watching == client.ended = "no"

\* The number a connection resumes after: the URL's `after` goes before the
\* Last-Event-ID the browser sends by itself.
Cursor == IF client.base > 0 THEN client.base ELSE client.lastId

\* The end that an event tells the client of
EndTold(kind) == CASE kind = "done"                   -> "completed"
                   [] kind \in {"failed", "cancelled"} -> kind
                   [] OTHER                           -> "no"

\* The client gets an event: EventSource keeps its id whatever becomes of it,
\* streamRun drops it or folds it, and closes the source at the end.
Fold(e) ==
  IF e.seq <= client.lastSeq
  THEN client' = [client EXCEPT !.lastId = e.seq] /\ UNCHANGED <<folded, answered>>
  ELSE /\ client' = [client EXCEPT !.lastId = e.seq, !.lastSeq = e.seq, !.ended = EndTold(e.kind)]
       /\ folded' = Append(folded, e.kind) /\ UNCHANGED answered

\* chat_stream and the first lines of stream_run_events: the stream subscribes.
\* One that finds events goes on with them; one that finds the run done and
\* nothing new is closed; one that finds nothing at all reads the row.
Connect(p) ==
  LET line == History(p, Cursor)
      mode == IF line # <<>> THEN "live"
              ELSE IF Done(p) THEN "closing"
              ELSE IF bus[p] # <<>> THEN "live"
              ELSE "reading"
  IN
  /\ Watching /\ stream = NoStream /\ phase[p] # "down"
  /\ stream' = [at |-> p, mode |-> mode, after |-> Cursor, line |-> line,
                queue |-> <<>>, on |-> TRUE, seen |-> "none"]
  /\ homes' = homes \cup {Home(p)}
  /\ UNCHANGED <<run, phase, boot, bus, hear, missed, log, spent>>

\* An HTTP error from in front of a process that is down: EventSource gives up,
\* and streamRun opens another, or gives up as well.
Refused(p) ==
  /\ Watching /\ stream = NoStream /\ phase[p] = "down"
  /\ client' = IF client.reopens < ReopenLimit
               THEN [client EXCEPT !.reopens = @ + 1, !.base = client.lastSeq, !.lastId = 0]
               ELSE [client EXCEPT !.ended = "lost"]
  /\ UNCHANGED <<run, phase, boot, bus, stream, homes, folded, answered, missed, log, spent>>

\* The connection breaks.
Drop ==
  /\ stream # NoStream /\ Spend("drop", MaxDrop)
  /\ stream' = NoStream
  /\ UNCHANGED <<run, phase, boot, bus, hear, homes, missed, log>>

-----------------------------------------------------------------------------
(* stream_run_events *)

quiet == <<run, phase, boot, bus, homes, missed, log, spent>>

\* The row is read; what was read is looked at later.
ReadRow ==
  /\ stream.mode = "reading"
  /\ stream' = [stream EXCEPT !.mode = "read", !.seen = row]
  /\ UNCHANGED <<quiet, hear>>

\* synthesize_terminal_events: numbered on from the client's number
FromRow(s, after) == IF s \in Ended \cup {"paused"} THEN Numbered(Story(s), after) ELSE <<>>

\* Mutant of AfterRead: a run that executes elsewhere is not waited for.
AfterReadHere(s, here) == IF s \in Ended THEN "closing" ELSE "live"

\* What the stream does after the row: serve its end and close; wait here, for
\* a paused run or one that executes here; or wait for the row to change.
AfterRead(s, here) ==
  IF s \in Ended THEN "closing" ELSE IF s = "paused" \/ here THEN "live" ELSE "foreign"

Decide ==
  /\ stream.mode = "read"
  /\ stream' = [stream EXCEPT !.mode = AfterRead(stream.seen, Local(stream.at)),
                              !.line = FromRow(stream.seen, stream.after), !.seen = "none"]
  /\ answered' = (answered \/ stream'.line # <<>>)
  /\ UNCHANGED <<quiet, client, folded>>

\* The next event is yielded and folded.  The stream ends with a terminal one,
\* on either side.
Yield(e, rest) ==
  /\ Fold(e)
  /\ stream' = IF IsTerminal(e) \/ client'.ended # "no" THEN NoStream ELSE rest
  /\ UNCHANGED quiet

YieldLine ==
  /\ stream.mode \in {"live", "foreign", "closing"} /\ stream.line # <<>>
  /\ Yield(Head(stream.line), [stream EXCEPT !.line = Tail(@)])

Waiting == stream.mode \in {"live", "foreign"} /\ stream.line = <<>>

\* The loop's guard: a process that drains keeps only the streams of its runs.
Serves == phase[stream.at] = "up" \/ Local(stream.at)

YieldQueue ==
  /\ Waiting /\ Serves /\ stream.queue # <<>>
  /\ Yield(Head(stream.queue), [stream EXCEPT !.queue = Tail(@)])

\* Nothing more to yield: the stream closes.
Close ==
  /\ stream.mode = "closing" /\ stream.line = <<>>
  /\ stream' = NoStream
  /\ UNCHANGED <<quiet, hear>>

\* `reconnect`: the process drains and the run is not here.  (Each time the
\* client comes back it is told of a pause again, under a higher number; so
\* this is bounded like Drop.  Beyond that the stream waits for the exit.)
Reconnect ==
  /\ Waiting /\ ~Serves /\ Spend("drop", MaxDrop)
  /\ stream' = NoStream
  /\ UNCHANGED <<run, phase, boot, bus, hear, homes, missed, log>>

\* A run that executes elsewhere was announced to have ended, or a beat went by
\* without an event: the row is read, and served when it has something to tell.
Reread ==
  /\ Waiting /\ Serves /\ stream.mode = "foreign" /\ stream.queue = <<>>
  /\ row \in Ended \cup {"paused"}
  /\ stream' = [stream EXCEPT !.mode = "closing", !.line = FromRow(row, stream.after)]
  /\ answered' = TRUE
  /\ UNCHANGED <<quiet, client, folded>>

Serve == ReadRow \/ Decide \/ YieldLine \/ YieldQueue \/ Close \/ Reconnect \/ Reread

Next ==
  \/ Start \/ Begin \/ Token \/ Say \/ Leave
  \/ \E s \in Ended \cup {"paused", "overrun"} : Settle(s)
  \/ \E p \in Replica : \/ Resume(p) \/ StopPaused(p) \/ SayStopped(p)
                        \/ Crash(p) \/ Drain(p) \/ Exit(p) \/ Boot(p) \/ Evict(p)
                        \/ Connect(p) \/ Refused(p)
  \/ ReapDeadOwner \/ ReapStalled
  \/ Drop \/ Serve

Spec == Init /\ [][Next]_vars

\* A stream that has something to do does it, and the browser reconnects; what
\* was committed is emitted; a process that drains exits and is started again.
\* A process goes on emitting for other runs, so an old run is forgotten.
FairSpec ==
  /\ Spec
  /\ WF_vars(Serve)
  /\ WF_vars(\E p \in Replica : Connect(p) \/ Refused(p))
  /\ WF_vars(Say) /\ WF_vars(Leave)
  /\ \A p \in Replica : WF_vars(SayStopped(p)) /\ WF_vars(Exit(p)) /\ WF_vars(Boot(p))
                          /\ WF_vars(Evict(p))

-----------------------------------------------------------------------------
(* Properties *)

Kind   == {"running", "token", "paused", "error", "failed", "cancelled", "completed", "done"}
Status == Ended \cup {"queued", "running", "paused", "stalled"}
Event  == [kind : Kind, seq : Nat]
Stream == [at : Replica \cup {NoReplica}, after : Nat, line : Seq(Event), queue : Seq(Event),
           on : BOOLEAN, seen : Status \cup {"none"},
           mode : {"closed", "reading", "read", "live", "foreign", "closing"}]

TypeOK ==
  /\ row \in Status /\ ends \subseteq Ended /\ stopping \subseteq Replica
  /\ task \in [at : Replica \cup {NoReplica},
               pc : {"none", "queued", "begin", "body", "say", "announce"},
               what : Ended \cup {"none", "paused", "overrun"}]
  /\ phase \in [Replica -> {"up", "draining", "down"}] /\ boot \in [Replica -> Nat]
  /\ bus \in [Replica -> Seq(Kind)]
  /\ stream \in Stream /\ Len(stream.queue) <= QueueMax
  /\ client \in [ended : Ended \cup {"no", "lost"}, lastSeq : Nat, lastId : Nat, base : Nat,
                 reopens : Nat]
  /\ missed \in BOOLEAN /\ answered \in BOOLEAN /\ folded \in Seq(Kind) /\ log \in Seq(Kind)
  /\ spent \in [{"token", "pause", "crash", "drop"} -> Nat]

\* One process did everything: it ran the run, and served the client.
OneHome == homes = {<<Creator, 0>>}

\* The client is told of an end only after the row had it, so what it shows is
\* what a reload, another tab or the list of runs shows; whether it came live,
\* from the history or from the row, and with crashes at any point.
EndIsRecorded == client.ended \in ends \cup {"no", "lost"}

\* While one process does everything, what the client folded is what the process
\* emitted, from the first event on, each once and in order: across broken
\* connections, pauses and an eviction.  Not so once a queue was full, nor once a
\* stream was served from the row: its events are numbered on from the client's,
\* and take the place of whatever was forgotten or is still to come.
NoGap ==
  OneHome /\ ~missed /\ ~answered =>
    /\ Len(folded) <= Len(log)
    /\ folded = SubSeq(log, 1, Len(folded))

\* What a client can rely on to be told: no queue was full, it never had to
\* reopen after an HTTP error (its URL's `after` goes before the number it
\* reached), and no pause was answered or watched at another process.
Smooth == ~missed /\ client.base = 0 /\ (spent.pause = 0 \/ OneHome)

\* A client of a run that ended comes to its end: wherever it is connected, when
\* connections break and processes die or drain, live or from the row.
LearnsTheEnd == row \in Ended ~> (client.ended # "no" \/ ~Smooth)

=============================================================================
