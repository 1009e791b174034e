------------------------------ MODULE Learning ------------------------------
(***************************************************************************)
(* What the ambient layer learns from feedback: the tier of a category,    *)
(* the time of a digest, the bar of a watch (ambient/learn.py), the static *)
(* rule that re-tiers while learning is off (deliver.py), and the briefing *)
(* that is produced while the platform is idle (ambient/anticipate.py).    *)
(*                                                                         *)
(* Each reads and writes in transactions of its own, next to another       *)
(* leader's pass and to the user, who configures, approves, rejects and    *)
(* reverts.  What feedback says is left open: any mean, any hour.  The      *)
(* topics touch different rows: a behaviour follows one of them.            *)
(***************************************************************************)
EXTENDS Integers, FiniteSets

CONSTANTS
  Learner,     \* passes of the leader, and of one that was
  Hour,        \* bound: the hours of the day a digest may be at
  ClampH,      \* DIGEST_SHIFT_CLAMP_H
  MaxOverlap,  \* bound: passes begun beside another
  MaxWindow,   \* bound: idle hours
  MaxChange,   \* bound: what the user sets or reverts
  MaxProposal  \* bound: proposals that wait

VARIABLES
  topic,     \* what is learned: "tier", "times", "bar", or "brief"
  mode,      \* ambient_learning_mode
  tier,      \* the newest applied override of a category, or 0
  bar,       \* budget.min_urgency of a watch
  times,     \* ambient_digest_times: how many, one of them, and who set it
  anchor,    \* the newest digest_anchor of the ledger
  proposals, \* learner_proposal rows
  pass,      \* Learner -> what it is at, and what it has read
  window,    \* the idle hour, and how many briefings it has
  spent      \* overlapping passes, changes, and whether the number of times changed

lvars == <<topic, mode, tier, bar, times, anchor, proposals, pass, window, spent>>

None == [slots |-> 0, hour |-> 0]
Rest == [at |-> "rest", mode |-> "off", slots |-> 0, hour |-> 0, value |-> 0]

Init ==
  /\ topic \in {"tier", "times", "bar", "brief"}
  /\ mode \in {"off", "auto", "propose"}
  /\ tier = 0 /\ bar = 2
  /\ \E h \in Hour : times = [slots |-> 1, hour |-> h, by |-> "user"]
  /\ anchor = None
  /\ proposals = {}
  /\ pass = [l \in Learner |-> Rest]
  /\ window = [hour |-> 1, briefings |-> 0]
  /\ spent = [overlap |-> 0, change |-> 0, resized |-> FALSE]

Ends(l) == pass' = [pass EXCEPT ![l] = Rest]
Change == /\ spent.change < MaxChange
          /\ spent' = [spent EXCEPT !.change = @ + 1]

\* apply_policy, or _queue_proposal
Propose(what, slots, value) ==
  /\ proposals' = proposals \cup {[what |-> what, slots |-> slots, value |-> value]}
  /\ Cardinality(proposals') <= MaxProposal

-----------------------------------------------------------------------------
(* run_learner, with the mode it finds: tiers, digest times, bars *)

Begin(l) ==
  /\ pass[l].at = "rest" /\ topic # "brief" /\ mode # "off"
  /\ spent' = [spent EXCEPT !.overlap = @ + Cardinality({k \in Learner \ {l} : pass[k].at # "rest"})]
  /\ spent'.overlap <= MaxOverlap
  /\ pass' = [pass EXCEPT ![l] = [Rest EXCEPT !.at = topic, !.mode = mode]]
  /\ UNCHANGED <<topic, mode, tier, bar, times, anchor, proposals, window>>

\* _category_signals: the tier that applies is read; without an override that of
\* the latest delivery counts
Signals(l) ==
  /\ pass[l].at = "tier"
  /\ \E now \in IF tier = 0 THEN 0..3 ELSE {tier}, down \in BOOLEAN :
       LET target == IF down THEN now + 1 ELSE now - 1 IN
       \/ target \in 1..3 /\ target # tier /\ pass' = [pass EXCEPT ![l].at = "retier", ![l].value = target]
       \/ Ends(l)
  /\ UNCHANGED <<topic, mode, tier, bar, times, anchor, proposals, window, spent>>

Retier(l) ==
  /\ pass[l].at = "retier"
  /\ \/ pass[l].mode = "auto" /\ tier' = pass[l].value /\ proposals' = proposals
     \/ pass[l].mode # "auto" /\ Propose("tier", 0, pass[l].value) /\ tier' = tier
  /\ Ends(l)
  /\ UNCHANGED <<topic, mode, bar, times, anchor, window, spent>>

\* _learn_digest_times: the times, and whether enough digests were accepted
ReadTimes(l) ==
  /\ pass[l].at = "times"
  /\ \/ Ends(l)
     \/ pass' = [pass EXCEPT ![l].at = "anchor", ![l].slots = times.slots, ![l].hour = times.hour]
  /\ UNCHANGED <<topic, mode, tier, bar, times, anchor, proposals, window, spent>>

\* _digest_anchor finds one, or will make one of the times that were read
FindAnchor(l) ==
  /\ pass[l].at = "anchor"
  /\ pass' = [pass EXCEPT ![l].at = IF anchor = None THEN "insert" ELSE "shift",
       ![l].hour = IF anchor.slots = pass[l].slots THEN anchor.hour ELSE @]
  /\ UNCHANGED <<topic, mode, tier, bar, times, anchor, proposals, window, spent>>

InsertAnchor(l) ==
  /\ pass[l].at = "insert"
  /\ anchor' = [slots |-> pass[l].slots, hour |-> pass[l].hour]
  /\ pass' = [pass EXCEPT ![l].at = "shift"]
  /\ UNCHANGED <<topic, mode, tier, bar, times, proposals, window, spent>>

Within(h, a) == h - a <= ClampH /\ a - h <= ClampH

\* Mutant of Target: the clamp holds for each step.
TargetStep(l) == {h \in Hour : Within(h, times.hour)}

\* towards the mean hour, within the clamp of the anchor
Target(l) == {h \in Hour : Within(h, pass[l].hour)}

Shift(l) ==
  /\ pass[l].at = "shift"
  /\ \E h \in Target(l) :
       IF pass[l].mode = "auto"
         THEN times' = [slots |-> pass[l].slots, hour |-> h, by |-> "learner"] /\ proposals' = proposals
         ELSE Propose("times", pass[l].slots, h) /\ times' = times
  /\ Ends(l)
  /\ UNCHANGED <<topic, mode, tier, bar, anchor, window, spent>>

\* _learn_intent_thresholds, and the floor of run_salience_tuner: one up to 5, or
\* one down to 2, from the bar that was read
Judged(l) ==
  /\ pass[l].at = "bar"
  /\ \E to \in {bar - 1, bar + 1} \cap 2..5 : pass' = [pass EXCEPT ![l].at = "set", ![l].value = to]
  /\ UNCHANGED <<topic, mode, tier, bar, times, anchor, proposals, window, spent>>

Threshold(l) ==
  /\ pass[l].at = "set"
  /\ \/ pass[l].mode = "auto" /\ bar' = pass[l].value /\ proposals' = proposals
     \/ pass[l].mode # "auto" /\ Propose("bar", 0, pass[l].value) /\ bar' = bar
  /\ Ends(l)
  /\ UNCHANGED <<topic, mode, tier, times, anchor, window, spent>>

-----------------------------------------------------------------------------
(* run_anticipation, while the platform is idle *)

LookBriefed(l) ==
  /\ pass[l].at = "rest" /\ topic = "brief" /\ window.briefings = 0
  /\ spent' = [spent EXCEPT !.overlap = @ + Cardinality({k \in Learner \ {l} : pass[k].at # "rest"})]
  /\ spent'.overlap <= MaxOverlap
  /\ pass' = [pass EXCEPT ![l] = [Rest EXCEPT !.at = "brief", !.value = window.hour]]
  /\ UNCHANGED <<topic, mode, tier, bar, times, anchor, proposals, window>>

\* the deliveries carry the hour that was looked at; the model may find nothing
Brief(l) ==
  /\ pass[l].at = "brief"
  /\ \E found \in BOOLEAN :
       window' = IF found /\ pass[l].value = window.hour THEN [window EXCEPT !.briefings = @ + 1] ELSE window
  /\ Ends(l)
  /\ UNCHANGED <<topic, mode, tier, bar, times, anchor, proposals, spent>>

NextHour ==
  /\ topic = "brief" /\ window.hour < MaxWindow
  /\ window' = [hour |-> window.hour + 1, briefings |-> 0]
  /\ UNCHANGED <<topic, mode, tier, bar, times, anchor, proposals, pass, spent>>

-----------------------------------------------------------------------------
(* The user, and what cuts a pass short *)

\* approve_proposal: the row stays a proposal, and can be approved again
Approve ==
  /\ \E p \in proposals :
       /\ tier'  = IF p.what = "tier" THEN p.value ELSE tier
       /\ bar'   = IF p.what = "bar" THEN p.value ELSE bar
       /\ times' = IF p.what = "times" THEN [slots |-> p.slots, hour |-> p.value, by |-> "learner"] ELSE times
  /\ UNCHANGED <<topic, mode, anchor, proposals, pass, window, spent>>

Reject ==
  /\ \E p \in proposals : proposals' = proposals \ {p}
  /\ UNCHANGED <<topic, mode, tier, bar, times, anchor, pass, window, spent>>

\* POST /policies/revert
Revert ==
  /\ topic = "tier" /\ Change /\ tier # 0 /\ tier' = 0
  /\ UNCHANGED <<topic, mode, bar, times, anchor, proposals, pass, window>>

\* apply_precision_rule, while learning is off
Rule ==
  /\ topic = "tier" /\ mode = "off"
  /\ \E now \in IF tier = 0 THEN 0..2 ELSE {tier} \ {3} : tier' = now + 1
  /\ UNCHANGED <<topic, mode, bar, times, anchor, proposals, pass, window, spent>>

\* the settings: the mode, and the digest times
Configure ==
  /\ topic = "times"
  /\ \E slots \in 1..2, h \in Hour :
       /\ spent.change < MaxChange
       /\ spent' = [spent EXCEPT !.change = @ + 1, !.resized = @ \/ slots # times.slots]
       /\ times' = [slots |-> slots, hour |-> h, by |-> "user"]
  /\ mode' \in {"off", "auto", "propose"}
  /\ UNCHANGED <<topic, tier, bar, anchor, proposals, pass, window>>

\* run_evaluator's timeout, or the end of the process
Cut(l) ==
  /\ pass[l].at # "rest" /\ Ends(l)
  /\ UNCHANGED <<topic, mode, tier, bar, times, anchor, proposals, window, spent>>

Next ==
  \/ \E l \in Learner :
       \/ Begin(l) \/ Signals(l) \/ Retier(l) \/ ReadTimes(l) \/ FindAnchor(l) \/ InsertAnchor(l)
       \/ Shift(l) \/ Judged(l) \/ Threshold(l) \/ LookBriefed(l) \/ Brief(l) \/ Cut(l)
  \/ Approve \/ Reject \/ Revert \/ Rule \/ Configure \/ NextHour

Spec == Init /\ [][Next]_lvars

-----------------------------------------------------------------------------
(* Properties *)

\* _digest_anchor: "drift is bounded forever, not per step": a time that was
\* learned, also one approved late or twice, is within the clamp of the anchor, as
\* long as passes do not overlap and the number of times stays what it was.
DriftBounded ==
  times.by = "learner" /\ ~spent.resized /\ spent.overlap = 0 => Within(times.hour, anchor.hour)
=============================================================================
