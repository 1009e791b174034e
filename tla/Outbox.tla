------------------------------- MODULE Outbox -------------------------------
(***************************************************************************)
(* The ambient outbox: backend/app/ambient/deliver.py, channels.py,        *)
(* presence.py and the part of drain.py's tick that runs them.             *)
(*                                                                         *)
(* Whatever wants the user's attention inserts a row; the leader's tick    *)
(* decides which rows are due, sends them out, and only then marks them.   *)
(* A tick runs its stages one after the other, each cut off after a        *)
(* minute; a replica whose lease was lost finishes the tick it is in.      *)
(*                                                                         *)
(* A time is a part of the day: the digest is due when the evening begins, *)
(* quiet hours are the night, the budgets start anew at midnight.  A tick  *)
(* lies in one part, and the owners' outboxes, which do not meet, are one. *)
(***************************************************************************)
EXTENDS Naturals, FiniteSets

CONSTANTS
  MaxRow,                \* rows are numbered in the order of their insertion
  Replica, NoReplica,
  NoKey,                 \* no supersede key
  Kind,                  \* what is inserted: its tier, whether it is an approval, its skey
  Routed,                \* modes for which ambient_channels names an external channel
  Budget,                \* ambient_notification_budget_per_day
  EscalationBudget,      \* ambient_escalation_budget_per_day
  MaxAttempts,           \* MAX_SEND_ATTEMPTS
  MaxCut, MaxLost, MaxMove,  \* bounds: ticks cut short, leases lost, comings and goings
  MaxEvents,             \* and all of these together
  MaxOverlap             \* ticks begun while another replica's goes on

ASSUME OutboxAssumption ==
  /\ {MaxRow, Budget, EscalationBudget, MaxAttempts, MaxCut, MaxLost, MaxMove, MaxEvents, MaxOverlap}
       \subseteq Nat
  /\ NoReplica \notin Replica /\ IsFiniteSet(Replica) /\ MaxAttempts > 0
  /\ \A k \in Kind : k.tier \in 0..3 /\ k.approval \in BOOLEAN /\ (k.approval => k.tier = 2)
  /\ Routed \subseteq {"interrupt", "notify", "digest"}

Row == 1..MaxRow

VARIABLES
  row,       \* deliveries
  ext,       \* deliveries.external of the one routed channel, and how often it took the row
  toasts,    \* how often each row was published to the streams
  clock, here,     \* the part of the day; whether the user is at the client
  presence,  \* user_presence.state: active, away, or away for over an hour
  leader,    \* holder of the advisory lock
  tick,      \* each replica's tick: stage, step, the batch in hand, what sending it gave
  spent

vars == <<row, ext, toasts, clock, here, presence, leader, tick, spent>>
world == <<clock, here, presence, leader>>

NoRow == [state |-> "none", tier |-> 0, approval |-> FALSE, key |-> NoKey, late |-> FALSE,
          channel |-> "none", at |-> "none", by |-> 0, stale |-> {}, turn |-> 0]
Idle  == [stage |-> "idle", step |-> "none", batch |-> {}, sent |-> "none"]

Init ==
  /\ row = [i \in Row |-> NoRow]
  /\ ext = [i \in Row |-> [state |-> "none", attempts |-> 0, taken |-> 0]]
  /\ toasts = [i \in Row |-> 0]
  /\ clock = "day" /\ here = FALSE /\ presence = "away"
  /\ leader = NoReplica
  /\ tick = [r \in Replica |-> Idle]
  /\ spent = [cut |-> 0, lost |-> 0, overlap |-> 0, move |-> 0]

Spend(what, limit) == /\ spent[what] < limit
                      /\ spent.cut + spent.lost + spent.move < MaxEvents
                      /\ spent' = [spent EXCEPT ![what] = @ + 1]

Pending(i) == row[i].state = "in" /\ row[i].channel = "none"     \* delivered_at IS NULL
Queue(t)   == {i \in Row : Pending(i) /\ row[i].by = 0 /\ row[i].tier = t}
Today(i)   == row[i].at \in {"day", "late"}
Stamp      == IF clock = "day" THEN "day" ELSE "late"

-----------------------------------------------------------------------------
(* add_delivery, in whatever process: one transaction that inserts its row, looks
   for the rows of its key that are there and were not shown, and commits.  Others
   may do the same in between; what is not committed is seen by nobody else. *)

Add(i) ==
  /\ row[i].state = "none" /\ \A j \in 1..(i - 1) : row[j].state # "none"
  /\ \E k \in Kind :
       row' = [row EXCEPT ![i] =
         [@ EXCEPT !.state = IF k.key = NoKey THEN "open" ELSE "new",
                   !.tier = k.tier, !.approval = k.approval, !.key = k.key,
                   !.channel = IF k.tier = 3 THEN "silent" ELSE "none",
                   !.at = IF k.tier = 3 THEN Stamp ELSE "none"]]
  /\ UNCHANGED <<ext, toasts, world, tick, spent>>

LookFor(i) ==
  /\ row[i].state = "new"
  /\ row' = [row EXCEPT ![i].state = "open",
              ![i].stale = {j \in Row : row[j].key = row[i].key /\ Pending(j) /\ row[j].by = 0}]
  /\ UNCHANGED <<ext, toasts, world, tick, spent>>

Committed == {j \in Row : row[j].state = "in"}
Turn      == Cardinality(Committed) + 1       \* of the next row to be committed

\* Mutant of Commit: the newest row is the one that yields.
CommitYields(i) ==
  /\ row[i].state = "open"
  /\ row' = [row EXCEPT ![i].state = "in", ![i].stale = {}, ![i].turn = Turn,
                        ![i].by = IF row[i].stale = {} THEN 0
                                  ELSE CHOOSE j \in row[i].stale : TRUE]
  /\ UNCHANGED <<ext, toasts, world, tick, spent>>

Commit(i) ==
  /\ row[i].state = "open"
  /\ row' = [j \in Row |-> IF j = i THEN [row[i] EXCEPT !.state = "in", !.stale = {}, !.turn = Turn]
                           ELSE IF j \in row[i].stale THEN [row[j] EXCEPT !.by = i]
                           ELSE row[j]]
  /\ UNCHANGED <<ext, toasts, world, tick, spent>>

\* deliver_no_later_than passes
Overdue(i) ==
  /\ Pending(i) /\ row[i].tier = 1 /\ ~row[i].late
  /\ row' = [row EXCEPT ![i].late = TRUE]
  /\ UNCHANGED <<ext, toasts, world, tick, spent>>

-----------------------------------------------------------------------------
(* The tick's stages *)

After(stage) == CASE stage = "longreturn" -> "catchup"
                  [] stage \in {"return", "catchup"} -> "interrupt"
                  [] stage = "interrupt" -> "notify"
                  [] stage = "notify" -> "digest"
                  [] stage = "digest" -> "retry"

Mode(stage) == CASE stage = "interrupt" -> "interrupt"
                 [] stage \in {"return", "longreturn", "notify"} -> "notify"
                 [] OTHER -> "digest"

Enter(r, stage) == tick' = [tick EXCEPT ![r] = [Idle EXCEPT !.stage = stage, !.step = "choose"]]
Leave(r) == Enter(r, After(tick[r].stage))

\* dispatch_delivered, for the rows a stage chose and in its first await: the
\* toast, and the external channel if it is routed and ambient_pursuit lets it;
\* neither is recorded yet.  A stage that chose nothing is over.
Send(r, to, batch) ==
  /\ toasts' = [i \in Row |-> toasts[i] + IF i \in batch THEN 1 ELSE 0]
  /\ \E result \in {"none"} \cup IF batch # {} /\ Mode(to) \in Routed THEN {"ok", "failed"} ELSE {} :
       /\ ext' = [i \in Row |-> IF i \in batch /\ result = "ok"
                               THEN [ext[i] EXCEPT !.taken = @ + 1] ELSE ext[i]]
       /\ tick' = [tick EXCEPT ![r] =
            IF batch = {} THEN [Idle EXCEPT !.stage = After(to), !.step = "choose"]
            ELSE [stage |-> to, step |-> "mark", batch |-> batch, sent |-> result]]

Chosen(r, batch) == Send(r, tick[r].stage, batch)

At(r, stage) == tick[r].stage = stage /\ tick[r].step = "choose"

\* LeaderLease.ensure finds the lock free
TakeLease(r) ==
  /\ leader = NoReplica
  /\ leader' = r
  /\ UNCHANGED <<row, ext, toasts, clock, here, presence, tick, spent>>

\* The session that holds the lock dies, the process does not.
LoseLease ==
  /\ leader # NoReplica /\ Spend("lost", MaxLost)
  /\ leader' = NoReplica
  /\ UNCHANGED <<row, ext, toasts, clock, here, presence, tick>>

\* The lease is looked at once, when the tick begins.
BeginTick(r) ==
  /\ leader = r /\ tick[r].stage = "idle"
  /\ tick' = [tick EXCEPT ![r] = [Idle EXCEPT !.stage = "presence", !.step = "choose"]]
  /\ spent' = [spent EXCEPT !.overlap =
                 @ + Cardinality({q \in Replica \ {r} : tick[q].stage # "idle"})]
  /\ spent'.overlap <= MaxOverlap
  /\ UNCHANGED <<row, ext, toasts, world>>

\* evaluate_presence: the state is written, then the return is served.  It
\* brings every notification, and the digest after more than an hour.
Presence(r) ==
  /\ At(r, "presence")
  /\ presence' = IF here THEN "active" ELSE IF presence = "active" THEN "away" ELSE presence
  /\ Enter(r, IF ~here \/ presence = "active" THEN "interrupt"
              ELSE IF presence = "away" THEN "return" ELSE "longreturn")
  /\ UNCHANGED <<row, ext, toasts, clock, here, leader, spent>>

\* on_user_returned: _flush_tier1(force), and then _digest_flush
Return(r) ==
  /\ At(r, "return") \/ At(r, "longreturn")
  /\ Chosen(r, Queue(1))
  /\ UNCHANGED <<row, world, spent>>

-----------------------------------------------------------------------------
(* _flush_bucket *)

\* as many of a queue as a budget allows
UpTo(n, queue) == {s \in SUBSET queue :
  Cardinality(s) = IF Cardinality(queue) < n THEN Cardinality(queue) ELSE n}

Minus(a, b) == IF a > b THEN a - b ELSE 0

Demote(rows) == row' = [i \in Row |-> IF i \in rows THEN [row[i] EXCEPT !.tier = 2] ELSE row[i]]

Used == Cardinality({i \in Row : row[i].channel = "interrupt" /\ Today(i)})

\* Interrupts that the night or the budget holds back are left to the digest.
Interrupts(r) ==
  /\ At(r, "interrupt")
  /\ \E batch \in UpTo(IF clock = "night" THEN 0 ELSE Minus(Budget, Used), Queue(0)) :
       /\ Demote(Queue(0) \ batch)
       /\ Chosen(r, batch)
  /\ UNCHANGED <<world, spent>>

\* _flush_tier1 of the tick
Notifies(r) ==
  /\ At(r, "notify")
  /\ LET due == {i \in Queue(1) : presence = "active" \/ row[i].late} IN
     IF clock = "night"
       THEN Demote(due) /\ Chosen(r, {})
       ELSE row' = row /\ Chosen(r, due)
  /\ UNCHANGED <<world, spent>>

\* _digest_due, which the night keeps from being asked: no digest since the
\* evening began
DigestDue(r) ==
  /\ clock = "evening"
  /\ ~ \E i \in Row : row[i].channel = "digest" /\ row[i].at = "late"

\* _digest_flush: everything in tier 2; of the approvals, what their budget leaves.
Digest(r) ==
  /\ At(r, "catchup") \/ (At(r, "digest") /\ DigestDue(r))
  /\ LET approvals == {i \in Queue(2) : row[i].approval}
         shown == Cardinality({i \in Row : row[i].approval /\ Today(i)})
     IN \E some \in UpTo(Minus(EscalationBudget, shown), approvals) :
          Chosen(r, (Queue(2) \ approvals) \cup some)
  /\ UNCHANGED <<row, world, spent>>

NoDigest(r) ==
  /\ At(r, "digest") /\ ~DigestDue(r)
  /\ Leave(r)
  /\ UNCHANGED <<row, ext, toasts, world, spent>>

-----------------------------------------------------------------------------
(* _deliver_batch: what was dispatched is committed *)

\* _send_entry: attempts from the entry that was read, success or not
Entry(i, attempts, result) ==
  [ext[i] EXCEPT !.attempts = attempts + 1,
                 !.state = IF result = "ok" THEN "ok"
                           ELSE IF attempts + 1 >= MaxAttempts THEN "dead" ELSE "failed"]

\* Mutant of Mark: rows whose send failed are left for another try.
MarkIfSent(r) ==
  /\ tick[r].step = "mark" /\ tick[r].stage # "retry"
  /\ LET fresh == {i \in tick[r].batch : Pending(i) /\ tick[r].sent # "failed"} IN
     /\ row' = [i \in Row |-> IF i \in fresh
                  THEN [row[i] EXCEPT !.channel = Mode(tick[r].stage), !.at = Stamp]
                  ELSE row[i]]
     /\ ext' = [i \in Row |-> IF i \in fresh /\ tick[r].sent # "none"
                  THEN Entry(i, 0, tick[r].sent) ELSE ext[i]]
  /\ Leave(r)
  /\ UNCHANGED <<toasts, world, spent>>

\* The rows that nobody else has marked since.
Mark(r) ==
  /\ tick[r].step = "mark" /\ tick[r].stage # "retry"
  /\ LET fresh == {i \in tick[r].batch : Pending(i)} IN
     /\ row' = [i \in Row |-> IF i \in fresh
                  THEN [row[i] EXCEPT !.channel = Mode(tick[r].stage), !.at = Stamp]
                  ELSE row[i]]
     /\ ext' = [i \in Row |-> IF i \in fresh /\ tick[r].sent # "none"
                  THEN Entry(i, 0, tick[r].sent) ELSE ext[i]]
  /\ Leave(r)
  /\ UNCHANGED <<toasts, world, spent>>

-----------------------------------------------------------------------------
(* retry_external_sends *)

\* Mutant of Retry: it takes every entry that was tried.
RetryAll(r) ==
  /\ At(r, "retry")
  /\ \E batch \in SUBSET {<<i, ext[i].attempts>> : i \in {j \in Row : ext[j].state # "none"}} :
       tick' = IF batch = {} THEN [tick EXCEPT ![r] = Idle]
               ELSE [tick EXCEPT ![r].batch = batch, ![r].step = "send"]
  /\ UNCHANGED <<row, ext, toasts, world, spent>>

\* the rows as they are read at the start: entries that failed and whose
\* back-off is over
Retry(r) ==
  /\ At(r, "retry")
  /\ \E batch \in SUBSET {<<i, ext[i].attempts>> : i \in {j \in Row : ext[j].state = "failed"}} :
       tick' = IF batch = {} THEN [tick EXCEPT ![r] = Idle]
               ELSE [tick EXCEPT ![r].batch = batch, ![r].step = "send"]
  /\ UNCHANGED <<row, ext, toasts, world, spent>>

\* Any order will do: every subset may be the batch, and a tick may be cut short.
First(batch) == CHOOSE e \in batch : TRUE

\* one after the other: _send_one
Resend(r) ==
  /\ tick[r].stage = "retry" /\ tick[r].step = "send"
  /\ \E result \in {"ok", "failed"} :
       /\ ext' = IF result = "ok" THEN [ext EXCEPT ![First(tick[r].batch)[1]].taken = @ + 1] ELSE ext
       /\ tick' = [tick EXCEPT ![r].step = "mark", ![r].sent = result]
  /\ UNCHANGED <<row, toasts, world, spent>>

\* _record_send
Record(r) ==
  /\ tick[r].stage = "retry" /\ tick[r].step = "mark"
  /\ LET e == First(tick[r].batch)
         left == tick[r].batch \ {e}
     IN /\ ext' = [ext EXCEPT ![e[1]] = Entry(e[1], e[2], tick[r].sent)]
        /\ tick' = IF left = {} THEN [tick EXCEPT ![r] = Idle]
                   ELSE [tick EXCEPT ![r].batch = left, ![r].step = "send"]
  /\ UNCHANGED <<row, toasts, world, spent>>

-----------------------------------------------------------------------------
(* What cuts a tick short *)

\* run_evaluator's timeout: the function is abandoned where it awaits, and the
\* tick goes on with the next.
TimeOut(r) ==
  /\ tick[r].stage # "idle" /\ Spend("cut", MaxCut)
  /\ CASE tick[r].stage \in {"presence", "return", "longreturn", "catchup"} -> Enter(r, "interrupt")
       [] tick[r].stage \in {"interrupt", "notify", "digest"} -> Enter(r, "retry")
       [] tick[r].stage = "retry" -> tick' = [tick EXCEPT ![r] = Idle]
  /\ UNCHANGED <<row, ext, toasts, world>>

\* The process dies, and its session with it.
Crash(r) ==
  /\ tick[r].stage # "idle" /\ Spend("cut", MaxCut)
  /\ tick' = [tick EXCEPT ![r] = Idle]
  /\ leader' = IF leader = r THEN NoReplica ELSE leader
  /\ UNCHANGED <<row, ext, toasts, clock, here, presence>>

-----------------------------------------------------------------------------
(* The world *)

\* a part of the day ends, and at midnight the day
Later ==
  /\ \A r \in Replica : tick[r].stage = "idle"
  /\ clock' = CASE clock = "day" -> "evening" [] clock = "evening" -> "night" [] OTHER -> "day"
  /\ row' = [i \in Row |-> IF clock = "night" /\ Today(i) THEN [row[i] EXCEPT !.at = "before"] ELSE row[i]]
  /\ UNCHANGED <<ext, toasts, here, presence, leader, tick, spent>>

\* heartbeats come, or stop
ComeOrGo ==
  /\ Spend("move", MaxMove)
  /\ here' = ~here
  /\ UNCHANGED <<row, ext, toasts, clock, presence, leader, tick>>

\* an absence becomes longer than an hour
LongGone ==
  /\ presence = "away" /\ ~here
  /\ presence' = "gone"
  /\ UNCHANGED <<row, ext, toasts, clock, here, leader, tick, spent>>

Stage(r) == Presence(r) \/ Return(r) \/ Interrupts(r) \/ Notifies(r) \/ Digest(r) \/ NoDigest(r)
            \/ Mark(r) \/ Retry(r) \/ Resend(r) \/ Record(r)

Next ==
  \/ \E i \in Row : Add(i) \/ LookFor(i) \/ Commit(i) \/ Overdue(i)
  \/ LoseLease
  \/ \E r \in Replica : TakeLease(r) \/ BeginTick(r) \/ Stage(r) \/ TimeOut(r) \/ Crash(r)
  \/ Later \/ ComeOrGo \/ LongGone

Spec == Init /\ [][Next]_vars

-----------------------------------------------------------------------------
(* Properties *)

\* A row is shown twice only if a tick was cut short after it was sent, or if two
\* leaders' ticks overlapped; so often and no oftener.
RepeatsArePaid ==
  \A i \in Row : toasts[i] <= 1 + spent.cut + spent.overlap

\* What replaces a row has its key and was committed after it, so that no two rows
\* replace each other and every chain of replaced rows ends in one that stands.
\* Committed later is all the code keeps: a row inserted earlier whose transaction
\* looks later replaces one inserted after it (add_delivery).
ReplacedByLater ==
  \A i \in Row : row[i].by # 0 =>
    LET by == row[row[i].by] IN
    by.state = "in" /\ by.key = row[i].key /\ by.turn > row[i].turn

\* While ticks do not overlap, the channel takes a message once, and once more for
\* each tick that was cut short: a send that went well is recorded, unless a cut
\* falls between the two, and only sends that failed are repeated.
SentIsSent ==
  spent.overlap = 0 => \A i \in Row : ext[i].taken <= 1 + spent.cut
====
