------------------------------ MODULE Watches ------------------------------
(***************************************************************************)
(* One standing watch that polls a source: poll_due_intents of             *)
(* backend/app/ambient/triggers.py in the leader's tick, and the seen-list *)
(* that the sources keep in its watermark (sources.py).                    *)
(*                                                                         *)
(* The source lists what is in its feed now, in any order; a poll commits  *)
(* the watermark and then appends the events.  Time is in ticks, and every *)
(* tick ends before the next begins.                                       *)
(***************************************************************************)
EXTENDS Naturals, Sequences, FiniteSets, SequencesExt

CONSTANTS
  MaxItem,                   \* items are numbered in the order of their publication
  FeedSize,                  \* how many of them the feed still shows
  SeenCap,                   \* _SEEN_CAP
  PerCheck,                  \* items emitted per check
  Base, Multiplier, Longest, \* base_interval_s, backoff_multiplier, max_interval_s
  Deadline,                  \* expires_at
  MaxCut, MaxBroken          \* bounds: ticks cut short, sources that raise

VARIABLES
  published, \* the newest item in the feed
  watch,     \* standing_intents: status, watermark, current_interval_s, last_checked_at (0: never)
  now,
  poll,      \* the tick's poll: whether it has begun, the items it fetched, those left to emit
  emitted,   \* intent_poll_item events per item
  forgotten, \* items whose key the list lost while the feed still showed them
  spent

wvars == <<published, watch, now, poll, emitted, forgotten, spent>>

Item == 1..MaxItem
Waiting == [at |-> "due", fresh |-> <<>>, seen |-> <<>>]

Init ==
  /\ published = 0
  /\ watch = [status |-> "active", seen |-> <<>>, interval |-> Base, last |-> 0]
  /\ now = 1
  /\ poll = Waiting
  /\ emitted = [i \in Item |-> 0] /\ forgotten = {}
  /\ spent = [cut |-> 0, broken |-> 0]

Spend(what, limit) == spent[what] < limit /\ spent' = [spent EXCEPT ![what] = @ + 1]

Feed == {i \in 1..published : i + FeedSize > published}

Least(a, b) == IF a < b THEN a ELSE b
LastOf(s, n) == SubSeq(s, Len(s) - Least(Len(s), n) + 1, Len(s))
FirstOf(s, n) == SubSeq(s, 1, Least(Len(s), n))

\* the list, and what was new to it behind, cut to what a watermark keeps
Remember(seen, fresh) == IF fresh = <<>> THEN seen ELSE LastOf(seen \o fresh, SeenCap)

\* Mutant of NewOnes: the list is extended, and not looked at.
NewOnesUnseen(items, seen) == {[fresh |-> fresh, seen |-> Remember(seen, fresh)] : fresh \in SetToSeqs(items)}

\* _dedupe: the items that are not on the list, as the source orders them, and the list
\* with them
NewOnes(items, seen) ==
  {[fresh |-> fresh, seen |-> Remember(seen, fresh)] : fresh \in SetToSeqs(items \ ToSet(seen))}

\* the base interval, when the deadline is near
Effective == IF Deadline - now <= 2 * watch.interval THEN Least(watch.interval, Base) ELSE watch.interval

Due == watch.last = 0 \/ now - watch.last >= Effective

Expire ==
  /\ poll.at = "due" /\ watch.status = "active" /\ now >= Deadline
  /\ watch' = [watch EXCEPT !.status = "expired"]
  /\ poll' = [poll EXCEPT !.at = "done"]
  /\ UNCHANGED <<published, now, emitted, forgotten, spent>>

Skip ==
  /\ poll.at = "due" /\ (watch.status # "active" \/ (now < Deadline /\ ~Due))
  /\ poll' = [poll EXCEPT !.at = "done"]
  /\ UNCHANGED <<published, watch, now, emitted, forgotten, spent>>

\* The watermark that was read goes to the source.
Fetch ==
  /\ poll.at = "due" /\ watch.status = "active" /\ now < Deadline /\ Due
  /\ \E new \in NewOnes(Feed, watch.seen) :
       poll' = [at |-> "commit", fresh |-> new.fresh, seen |-> new.seen]
  /\ UNCHANGED <<published, watch, now, emitted, forgotten, spent>>

\* A source that raises leaves no trace: it is asked again by the next tick.
Raise ==
  /\ poll.at = "due" /\ watch.status = "active" /\ now < Deadline /\ Due /\ Spend("broken", MaxBroken)
  /\ poll' = [poll EXCEPT !.at = "done"]
  /\ UNCHANGED <<published, watch, now, emitted, forgotten>>

\* back to the base on activity, longer in the quiet
Commit ==
  /\ poll.at = "commit"
  /\ watch' = [watch EXCEPT !.last = now,
       !.seen = IF poll.fresh = <<>> THEN @ ELSE poll.seen,
       !.interval = IF poll.fresh = <<>> THEN Least(@ * Multiplier, Longest) ELSE Base]
  /\ poll' = [Waiting EXCEPT !.at = "emit", !.fresh = FirstOf(poll.fresh, PerCheck)]
  /\ forgotten' = forgotten \cup ((Feed \cap (ToSet(watch.seen) \cup ToSet(poll.fresh))) \ ToSet(watch'.seen))
  /\ UNCHANGED <<published, now, emitted, spent>>

\* emit_event, with no dedupe key
Emit ==
  /\ poll.at = "emit" /\ poll.fresh # <<>>
  /\ emitted' = [emitted EXCEPT ![Head(poll.fresh)] = @ + 1]
  /\ poll' = [poll EXCEPT !.fresh = Tail(@)]
  /\ UNCHANGED <<published, watch, now, forgotten, spent>>

Finish ==
  /\ poll.at = "emit" /\ poll.fresh = <<>>
  /\ poll' = [poll EXCEPT !.at = "done"]
  /\ UNCHANGED <<published, watch, now, emitted, forgotten, spent>>

\* run_evaluator's timeout, the end of the process, or an event refused because
\* ambient_enabled was turned off
Cut ==
  /\ poll.at \in {"commit", "emit"} /\ Spend("cut", MaxCut)
  /\ poll' = [Waiting EXCEPT !.at = "done"]
  /\ UNCHANGED <<published, watch, now, emitted, forgotten>>

NextTick ==
  /\ poll.at = "done" /\ watch.status = "active"
  /\ now' = now + 1
  /\ poll' = Waiting
  /\ UNCHANGED <<published, watch, emitted, forgotten, spent>>

Publish ==
  /\ published < MaxItem
  /\ published' = published + 1
  /\ UNCHANGED <<watch, now, poll, emitted, forgotten, spent>>

\* ambient.unwatch
Unwatch ==
  /\ watch.status = "active"
  /\ watch' = [watch EXCEPT !.status = "retired"]
  /\ UNCHANGED <<published, now, poll, emitted, forgotten, spent>>

Next == Expire \/ Skip \/ Fetch \/ Raise \/ Commit \/ Emit \/ Finish \/ Cut \/ NextTick \/ Publish \/ Unwatch

Spec == Init /\ [][Next]_wvars

-----------------------------------------------------------------------------
(* Properties *)

\* An item is reported a second time only if the list, which keeps SeenCap keys, lost
\* its key while the feed still showed it: neither the order of the feed, nor a tick
\* that is cut short, nor a source that raises reports it again.
ItemReportedOnce == \A i \in Item : emitted[i] <= 1 \/ i \in forgotten

\* A feed that shows about half of what the list keeps is short enough. Nothing in the
\* code bounds what a source lists, so this is a matter of which feed is watched.
ListOutlastsFeed == 2 * FeedSize <= SeenCap + 1

\* Of such a feed the list loses nothing that is still shown.
NothingForgotten == ListOutlastsFeed => forgotten = {}
====
