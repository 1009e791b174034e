------------------------------ MODULE Patterns ------------------------------
(***************************************************************************)
(* One composite pattern of one standing watch and one partition:          *)
(* backend/app/ambient/patterns.py.  The drains of all replicas feed their *)
(* events to it (advance_patterns) while the leader's tick, and that of a  *)
(* leader before it, expire what is past its deadline                      *)
(* (expire_pattern_deadlines); the table has one armed instance at most.   *)
(***************************************************************************)
EXTENDS Naturals, Sequences, FiniteSets, TLC

CONSTANTS
  MaxEvent,          \* events, of filter a or b, in the order of their arrival
  Drain,             \* processes: each drains, and each may believe itself the leader
  MaxCut             \* bound: drains and ticks that end between two steps

Event == 1..MaxEvent

VARIABLES
  kind,       \* of the pattern, as the watch was compiled
  event,      \* ambient_events: which filter they match, and whether they were processed
  instance,   \* pattern_instances, in the order of their insertion
  work,       \* each drain: its event, its step, the armed instance it read
  expiry,     \* each process's tick: the instances it read past their deadline
  derived,    \* pattern_matched and pattern_absence events, by instance
  cooling,    \* _recent_fires: the processes in which this rule and partition cools down
  met,        \* instances that a second one read armed before the first was done with them
  cuts

pvars == <<kind, event, instance, work, expiry, derived, cooling, met, cuts>>

NoWork == [at |-> "idle", e |-> 0, armed |-> 0]
NoExpiry == [at |-> "idle", due |-> {}]

Init ==
  /\ kind \in {"sequence", "conjunction", "absence"}
  /\ event = [e \in Event |-> [matches |-> "none", state |-> "none"]]
  /\ instance = <<>>
  /\ work = [d \in Drain |-> NoWork]
  /\ expiry = [d \in Drain |-> NoExpiry]
  /\ derived = <<>>
  /\ cooling = {} /\ met = {}
  /\ cuts = 0

Armed == {i \in DOMAIN instance : instance[i].state = "armed"}
Kept(i, state) == instance' = [instance EXCEPT ![i].state = state]
Done(d) == work' = [work EXCEPT ![d] = NoWork]
Handled(e, how) == event' = [event EXCEPT ![e].state = how]

\* who read the instance armed, and may derive an event of it: the ticks if it is an
\* absence, the drains if it is not
Holders(i) ==
  IF kind = "absence" THEN {d \in Drain : i \in expiry[d].due}
  ELSE {d \in Drain : work[d].at \in {"advance", "emit"} /\ work[d].armed = i}

Meets == met' = met \cup {i \in Armed : Holders(i) # {}}

Arrive(e) ==
  /\ event[e].state = "none" /\ \A f \in 1..(e - 1) : event[f].state # "none"
  /\ \E m \in {"a", "b"} : event' = [event EXCEPT ![e] = [matches |-> m, state |-> "pending"]]
  /\ UNCHANGED <<instance, work, expiry, derived, cooling, met, cuts>>

\* a drain claims an event and reads the armed instance
Take(d, e) ==
  /\ work[d].at = "idle" /\ event[e].state = "pending"
  /\ Handled(e, "claimed")
  /\ work' = [work EXCEPT ![d] = [at |-> "advance", e |-> e,
                armed |-> IF Armed = {} THEN 0 ELSE CHOOSE i \in Armed : TRUE]]
  /\ IF kind = "absence" THEN met' = met ELSE Meets
  /\ UNCHANGED <<instance, expiry, derived, cooling, cuts>>

Matches(e, f) == event[e].matches = f

\* does the event arm, and does it complete what is armed
Arms(e) == Matches(e, "a") \/ kind = "conjunction"
Completes(e, i) == IF kind = "conjunction" THEN event[instance[i].by].matches # event[e].matches
                   ELSE Matches(e, "b")

\* The insertion fails if another drain armed in between: the exception ends the
\* event's processing, and the drain writes it held, undecided (drain_once).
Arm(d) ==
  /\ work[d].at = "advance" /\ work[d].armed = 0 /\ Arms(work[d].e)
  /\ IF Armed = {} THEN /\ instance' = Append(instance, [state |-> "armed", by |-> work[d].e])
                        /\ Handled(work[d].e, "decided")
                   ELSE /\ instance' = instance
                        /\ Handled(work[d].e, "held")
  /\ Done(d)
  /\ UNCHANGED <<expiry, derived, cooling, met, cuts>>

\* Mutant of Complete: what is matched stays armed.
CompleteStaysArmed(d) ==
  /\ work[d].at = "advance" /\ work[d].armed # 0 /\ Completes(work[d].e, work[d].armed)
  /\ UNCHANGED instance
  /\ work' = [work EXCEPT ![d].at = IF kind = "absence" \/ d \in cooling THEN "decide" ELSE "emit"]
  /\ UNCHANGED <<event, expiry, derived, cooling, met, cuts>>

\* the instance as it was read is written: an absence that did not happen expires
Complete(d) ==
  /\ work[d].at = "advance" /\ work[d].armed # 0 /\ Completes(work[d].e, work[d].armed)
  /\ Kept(work[d].armed, IF kind = "absence" THEN "expired" ELSE "matched")
  /\ work' = [work EXCEPT ![d].at = IF kind = "absence" \/ d \in cooling THEN "decide" ELSE "emit"]
  /\ UNCHANGED <<event, expiry, derived, cooling, met, cuts>>

\* _emit_pattern, then the cooldown
EmitMatch(d) ==
  /\ work[d].at = "emit"
  /\ derived' = Append(derived, work[d].armed)
  /\ cooling' = cooling \cup {d}
  /\ work' = [work EXCEPT ![d].at = "decide"]
  /\ UNCHANGED <<event, instance, expiry, met, cuts>>

Decide(d) ==
  /\ \/ work[d].at = "decide"
     \/ work[d].at = "advance" /\ (IF work[d].armed = 0 THEN ~Arms(work[d].e)
                                   ELSE ~Completes(work[d].e, work[d].armed))
  /\ Handled(work[d].e, "decided")
  /\ Done(d)
  /\ UNCHANGED <<instance, expiry, derived, cooling, met, cuts>>

\* A drain is cut short; its event is taken over and advances the patterns again.
CutDrain(d) ==
  /\ work[d].at # "idle" /\ cuts < MaxCut
  /\ cuts' = cuts + 1
  /\ Handled(work[d].e, "pending") /\ Done(d)
  /\ UNCHANGED <<instance, expiry, derived, cooling, met>>

-----------------------------------------------------------------------------
(* expire_pattern_deadlines, once the deadline of what is armed has passed *)

Select(d) ==
  /\ expiry[d].at = "idle" /\ Armed # {}
  /\ expiry' = [expiry EXCEPT ![d] = [at |-> "write", due |-> Armed]]
  /\ IF kind = "absence" THEN Meets ELSE met' = met
  /\ UNCHANGED <<event, instance, work, derived, cooling, cuts>>

\* the rows as they were read are written
Expire(d) ==
  /\ expiry[d].at = "write"
  /\ instance' = [i \in DOMAIN instance |->
                    IF i \in expiry[d].due THEN [instance[i] EXCEPT !.state = "expired"] ELSE instance[i]]
  /\ expiry' = [expiry EXCEPT ![d] = IF kind = "absence" THEN [@ EXCEPT !.at = "emit"] ELSE NoExpiry]
  /\ UNCHANGED <<event, work, derived, cooling, met, cuts>>

\* with no dedupe key; nothing in the cooldown
EmitAbsence(d) ==
  /\ expiry[d].at = "emit"
  /\ IF d \in cooling THEN derived' = derived
     ELSE \E i \in expiry[d].due : derived' = Append(derived, i)
  /\ cooling' = cooling \cup {d}
  /\ expiry' = [expiry EXCEPT ![d] = NoExpiry]
  /\ UNCHANGED <<event, instance, work, met, cuts>>

CutExpiry(d) ==
  /\ expiry[d].at # "idle" /\ cuts < MaxCut
  /\ cuts' = cuts + 1
  /\ expiry' = [expiry EXCEPT ![d] = NoExpiry]
  /\ UNCHANGED <<event, instance, work, derived, cooling, met>>

\* cooldown_s passes, or the process starts anew
Cool(d) ==
  /\ d \in cooling /\ cooling' = cooling \ {d}
  /\ UNCHANGED <<event, instance, work, expiry, derived, met, cuts>>

Next ==
  /\ UNCHANGED kind
  /\ \/ \E e \in Event : Arrive(e) \/ \E d \in Drain : Take(d, e)
     \/ \E d \in Drain : Arm(d) \/ Complete(d) \/ EmitMatch(d) \/ Decide(d) \/ CutDrain(d)
     \/ \E d \in Drain : Select(d) \/ Expire(d) \/ EmitAbsence(d) \/ CutExpiry(d) \/ Cool(d)

Spec == Init /\ [][Next]_pvars

-----------------------------------------------------------------------------
(* Properties *)

\* An instance gives rise to one event, and to one for each process at most if a second
\* drain, or a second leader's pass over the deadlines, read it armed before the first
\* was done with it: neither a drain or a pass that is cut short and repeated, nor the
\* deadline that passes while an event completes the pattern, adds another
\* (advance_patterns and expire_pattern_deadlines write what they read, and emit with no
\* dedupe key).
DerivedOnce ==
  \A i \in DOMAIN instance :
    Cardinality({n \in DOMAIN derived : derived[n] = i})
      <= IF i \in met THEN Cardinality(Drain) ELSE 1
====
