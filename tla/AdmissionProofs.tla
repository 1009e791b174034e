-------------------------- MODULE AdmissionProofs --------------------------
(***************************************************************************)
(* That no slot of the admission semaphores is lost or made up, for every  *)
(* finite set of tasks, every limit, and any cancellations and changes of  *)
(* the limit.                                                              *)
(***************************************************************************)
EXTENDS Admission, FiniteSetTheorems, TLAPS

AdmissionTypeOK ==
  /\ limit \in Limits
  /\ seen \in [Task -> Limits]
  /\ at \in [Task -> At]
  /\ current \in Task \cup {NoSem}
  /\ size \in [Sem -> Nat] /\ value \in [Sem -> Nat]
  /\ mine \in [Task -> Task \cup {NoSem}]

\* A task has a semaphore from the moment it enters slot() on.
EnteredHasOne ==
  \A t \in Task : mine[t] # NoSem <=> at[t] \in InLine \cup {"holding", "over"}

\* Every semaphore in use was made by the task it is named after: one that is made
\* is new, and nobody holds a slot of it.
MadeByItsTask ==
  /\ \A t \in Task : mine[t] # NoSem => mine[mine[t]] = mine[t]
  /\ current # NoSem => mine[current] = current

AdmissionInv == AdmissionTypeOK /\ EnteredHasOne /\ MadeByItsTask /\ SlotsConserved

-----------------------------------------------------------------------------
LEMMA ChargedFinite == \A g : IsFiniteSet(Charged(g)) /\ Cardinality(Charged(g)) \in Nat
<1>1. \A g : Charged(g) \in SUBSET Task
  BY DEF Charged
<1>2. QED
  BY <1>1, AdmissionAssumption, FS_Subset, FS_CardinalityType

LEMMA AdmissionInit == Init => AdmissionInv
<1> SUFFICES ASSUME Init PROVE AdmissionInv
  OBVIOUS
<1>1. AdmissionTypeOK
  BY AdmissionAssumption DEF Init, AdmissionTypeOK, At, Sem
<1>2. EnteredHasOne /\ MadeByItsTask
  BY AdmissionAssumption DEF Init, EnteredHasOne, MadeByItsTask, InLine
<1>3. \A g \in Sem : Charged(g) = {}
  BY DEF Init, Charged
<1>4. SlotsConserved
  BY <1>3, FS_EmptySet DEF Init, SlotsConserved
<1>5. QED
  BY <1>1, <1>2, <1>4 DEF AdmissionInv

-----------------------------------------------------------------------------
(* Steps that touch no semaphore *)

LEMMA AsideKeeps ==
  ASSUME AdmissionInv, limit' \in Limits, seen' \in [Task -> Limits], at' \in [Task -> At],
         UNCHANGED <<sems, value, mine>>,
         \A t \in Task : /\ at'[t] \in {"granted", "revoked", "holding"}
                            <=> at[t] \in {"granted", "revoked", "holding"}
                         /\ at'[t] \in InLine \cup {"holding", "over"}
                            <=> at[t] \in InLine \cup {"holding", "over"}
  PROVE  AdmissionInv'
<1>1. AdmissionTypeOK' /\ EnteredHasOne' /\ MadeByItsTask'
  BY DEF AdmissionInv, AdmissionTypeOK, EnteredHasOne, MadeByItsTask, sems
<1>2. \A g \in Sem : Charged(g)' = Charged(g)
  BY DEF Charged
<1>3. SlotsConserved'
  BY <1>2 DEF AdmissionInv, SlotsConserved, sems
<1>4. QED
  BY <1>1, <1>3 DEF AdmissionInv

-----------------------------------------------------------------------------
(* A task enters slot() *)

LEMMA EnterMakes ==
  ASSUME AdmissionInv, NEW t \in Task, Enter(t), current = NoSem \/ Idle(seen[t])
  PROVE  AdmissionInv'
<1> USE AdmissionAssumption DEF Sem
<1>1. /\ at[t] = "loaded" /\ current' = t /\ size' = [size EXCEPT ![t] = seen[t]]
      /\ value' = [value EXCEPT ![t] = seen[t] - 1]
      /\ mine' = [mine EXCEPT ![t] = t] /\ at' = [at EXCEPT ![t] = "holding"]
      /\ UNCHANGED <<limit, changes, seen>>
  BY DEF Enter, store
<1>2. seen[t] \in Nat /\ seen[t] - 1 \in Nat
  <2>1. seen[t] \in Limits
    BY DEF AdmissionInv, AdmissionTypeOK
  <2>2. seen[t] \in Nat \ {0}
    BY <2>1
  <2>3. QED
    BY <2>2
<1>3. mine[t] = NoSem /\ current # t /\ \A u \in Task : mine[u] # t
  BY <1>1 DEF AdmissionInv, AdmissionTypeOK, EnteredHasOne, MadeByItsTask, InLine
<1>4. AdmissionTypeOK'
  BY <1>1, <1>2 DEF AdmissionInv, AdmissionTypeOK, At
<1>5. EnteredHasOne'
  BY <1>1 DEF AdmissionInv, AdmissionTypeOK, EnteredHasOne, InLine
<1>6. MadeByItsTask'
  BY <1>1, <1>3 DEF AdmissionInv, AdmissionTypeOK, MadeByItsTask
<1>7. Charged(t)' = {t}
  BY <1>1, <1>3 DEF AdmissionInv, AdmissionTypeOK, Charged
<1>8. \A g \in Task \ {t} : Charged(g)' = Charged(g)
  BY <1>1, <1>3 DEF AdmissionInv, AdmissionTypeOK, Charged
<1>9. value'[t] + Cardinality(Charged(t)') = size'[t]
  <2>1. value'[t] = seen[t] - 1 /\ size'[t] = seen[t]
    BY <1>1 DEF AdmissionInv, AdmissionTypeOK
  <2>2. Cardinality(Charged(t)') = 1
    BY <1>7, FS_Singleton
  <2>3. QED
    BY <1>2, <2>1, <2>2
<1>10. \A g \in Task \ {t} : value'[g] + Cardinality(Charged(g)') = size'[g]
  BY <1>1, <1>8 DEF AdmissionInv, AdmissionTypeOK, SlotsConserved
<1>11. SlotsConserved'
  BY <1>9, <1>10 DEF SlotsConserved
<1>12. QED
  BY <1>4, <1>5, <1>6, <1>11 DEF AdmissionInv

LEMMA EnterTakes ==
  ASSUME AdmissionInv, NEW t \in Task, Enter(t), ~(current = NoSem \/ Idle(seen[t])), ~Locked(current)
  PROVE  AdmissionInv'
<1> USE AdmissionAssumption DEF Sem
<1>1. /\ at[t] = "loaded" /\ current' = current /\ size' = size
      /\ value' = [value EXCEPT ![current] = @ - 1]
      /\ mine' = [mine EXCEPT ![t] = current] /\ at' = [at EXCEPT ![t] = "holding"]
      /\ UNCHANGED <<limit, changes, seen>>
  BY DEF Enter, store
<1>2. current \in Task /\ mine[current] = current /\ mine[t] = NoSem
  BY <1>1 DEF AdmissionInv, AdmissionTypeOK, EnteredHasOne, MadeByItsTask, InLine
<1>3. value[current] \in Nat /\ value[current] - 1 \in Nat
  BY <1>2 DEF AdmissionInv, AdmissionTypeOK, Locked
<1>4. AdmissionTypeOK'
  BY <1>1, <1>2, <1>3 DEF AdmissionInv, AdmissionTypeOK, At
<1>5. EnteredHasOne'
  BY <1>1, <1>2 DEF AdmissionInv, AdmissionTypeOK, EnteredHasOne, InLine
<1>6. MadeByItsTask'
  BY <1>1, <1>2 DEF AdmissionInv, AdmissionTypeOK, MadeByItsTask
<1>7. t \notin Charged(current) /\ Charged(current)' = Charged(current) \cup {t}
  BY <1>1, <1>2 DEF AdmissionInv, AdmissionTypeOK, Charged
<1>8. \A g \in Task \ {current} : Charged(g)' = Charged(g)
  BY <1>1, <1>2 DEF AdmissionInv, AdmissionTypeOK, Charged
<1>9. Cardinality(Charged(current)') = Cardinality(Charged(current)) + 1
  BY <1>7, ChargedFinite, FS_AddElement
<1>10. value'[current] + Cardinality(Charged(current)') = size'[current]
  BY <1>1, <1>2, <1>3, <1>9, ChargedFinite DEF AdmissionInv, AdmissionTypeOK, SlotsConserved
<1>11. \A g \in Task \ {current} : value'[g] + Cardinality(Charged(g)') = size'[g]
  BY <1>1, <1>8 DEF AdmissionInv, AdmissionTypeOK, SlotsConserved
<1>12. SlotsConserved'
  BY <1>1, <1>2, <1>10, <1>11 DEF SlotsConserved
<1>13. QED
  BY <1>4, <1>5, <1>6, <1>12 DEF AdmissionInv

LEMMA EnterWaits ==
  ASSUME AdmissionInv, NEW t \in Task, Enter(t), ~(current = NoSem \/ Idle(seen[t])), Locked(current)
  PROVE  AdmissionInv'
<1> USE AdmissionAssumption DEF Sem
<1>1. /\ at[t] = "loaded" /\ current' = current /\ size' = size
      /\ value' = [value EXCEPT ![current] = @ - 0]
      /\ mine' = [mine EXCEPT ![t] = current] /\ at' = [at EXCEPT ![t] = "waiting"]
      /\ UNCHANGED <<limit, changes, seen>>
  BY DEF Enter, store
<1>2. current \in Task /\ mine[current] = current /\ mine[t] = NoSem
  BY <1>1 DEF AdmissionInv, AdmissionTypeOK, EnteredHasOne, MadeByItsTask, InLine
<1>3. value[current] \in Nat /\ value' = value
  BY <1>1, <1>2 DEF AdmissionInv, AdmissionTypeOK
<1>4. AdmissionTypeOK'
  BY <1>1, <1>2, <1>3 DEF AdmissionInv, AdmissionTypeOK, At, InLine
<1>5. EnteredHasOne'
  BY <1>1, <1>2 DEF AdmissionInv, AdmissionTypeOK, EnteredHasOne, InLine
<1>6. MadeByItsTask'
  BY <1>1, <1>2 DEF AdmissionInv, AdmissionTypeOK, MadeByItsTask
<1>7. \A g \in Task : Charged(g)' = Charged(g)
  BY <1>1, <1>2 DEF AdmissionInv, AdmissionTypeOK, Charged
<1>8. SlotsConserved'
  BY <1>1, <1>3, <1>7 DEF AdmissionInv, SlotsConserved
<1>9. QED
  BY <1>4, <1>5, <1>6, <1>8 DEF AdmissionInv

-----------------------------------------------------------------------------
(* A task leaves a line or a slot *)

\* What t keeps of the slots of g
Kept(g, t, place) == (Charged(g) \ {t}) \cup (IF place = "holding" THEN {t} ELSE {})

LEMMA KeptCount ==
  ASSUME AdmissionInv, NEW g \in Sem, NEW t \in Task, NEW place \in {"holding", "over"}
  PROVE  /\ IsFiniteSet(Kept(g, t, place))
         /\ t \in Charged(g) /\ place = "holding" => Cardinality(Kept(g, t, place)) = Cardinality(Charged(g))
         /\ t \in Charged(g) /\ place = "over" => Cardinality(Kept(g, t, place)) = Cardinality(Charged(g)) - 1
         /\ t \notin Charged(g) /\ place = "over" => Cardinality(Kept(g, t, place)) = Cardinality(Charged(g))
<1>1. IsFiniteSet(Charged(g) \ {t}) /\ IsFiniteSet((Charged(g) \ {t}) \cup {t})
  BY ChargedFinite, FS_RemoveElement, FS_AddElement
<1>2. t \in Charged(g) => (Charged(g) \ {t}) \cup {t} = Charged(g)
  OBVIOUS
<1>3. Cardinality(Charged(g) \ {t})
        = IF t \in Charged(g) THEN Cardinality(Charged(g)) - 1 ELSE Cardinality(Charged(g))
  BY ChargedFinite, FS_RemoveElement
<1>4. Kept(g, t, "holding") = (Charged(g) \ {t}) \cup {t} /\ Kept(g, t, "over") = Charged(g) \ {t}
  BY DEF Kept
<1>5. QED
  BY <1>1, <1>2, <1>3, <1>4

\* The slots that are free and those of the tasks that stay make up the size, so
\* whoever is handed one of the free ones, the books are right.
LEMMA HandOverKeeps ==
  ASSUME AdmissionInv, NEW t \in Task, NEW g \in Sem, NEW place \in {"holding", "over"},
         NEW v \in Nat, NEW k \in Nat, HandOver(t, place, g, v, k), k <= v,
         mine[t] = g, v + Cardinality(Kept(g, t, place)) = size[g],
         UNCHANGED <<limit, seen, sems, mine>>
  PROVE  AdmissionInv'
<1> USE AdmissionAssumption DEF Sem
<1> DEFINE pending == {u \in Line(g) \ {t} : at[u] = "waiting"}
<1>1. PICK next \in SUBSET pending :
        /\ Cardinality(next) <= k
        /\ at' = [u \in Task |-> IF u = t THEN place ELSE IF u \in next THEN "granted" ELSE at[u]]
        /\ value' = [value EXCEPT ![g] = v - Cardinality(next)]
  BY DEF HandOver
<1>2. next \subseteq Task /\ t \notin next /\ \A u \in next : mine[u] = g /\ at[u] = "waiting"
  BY DEF Line
<1>3. IsFiniteSet(next) /\ Cardinality(next) \in Nat
  BY <1>2, FS_Subset, FS_CardinalityType
<1>4. v - Cardinality(next) \in Nat
  BY <1>1, <1>3
<1>5. AdmissionTypeOK'
  BY <1>1, <1>4 DEF AdmissionInv, AdmissionTypeOK, At, InLine, sems
<1>6. EnteredHasOne' /\ MadeByItsTask'
  <2>1. at[t] \in InLine \cup {"holding", "over"} /\ at'[t] \in {"holding", "over"}
    BY <1>1 DEF AdmissionInv, AdmissionTypeOK, EnteredHasOne
  <2>2. \A u \in Task \ {t} : at'[u] \in InLine \cup {"holding", "over"}
                               <=> at[u] \in InLine \cup {"holding", "over"}
    BY <1>1, <1>2 DEF AdmissionInv, AdmissionTypeOK, InLine
  <2>3. QED
    BY <2>1, <2>2 DEF AdmissionInv, EnteredHasOne, MadeByItsTask, sems
<1>7. \A h \in Task \ {g} : Charged(h)' = Charged(h)
  BY <1>1, <1>2 DEF AdmissionInv, AdmissionTypeOK, Charged
<1>8. Charged(g)' = Kept(g, t, place) \cup next
  BY <1>1, <1>2 DEF AdmissionInv, AdmissionTypeOK, Charged, Kept
<1>9. Kept(g, t, place) \cap next = {}
  BY <1>2 DEF Charged, Kept
<1>10. IsFiniteSet(Kept(g, t, place)) /\ Cardinality(Kept(g, t, place)) \in Nat
  BY KeptCount, FS_CardinalityType
<1>11. Cardinality(Charged(g)') = Cardinality(Kept(g, t, place)) + Cardinality(next)
  <2>1. Cardinality(Kept(g, t, place) \cup next)
          = Cardinality(Kept(g, t, place)) + Cardinality(next) - Cardinality(Kept(g, t, place) \cap next)
    BY <1>3, <1>10, FS_Union
  <2>2. Cardinality(Kept(g, t, place) \cap next) = 0
    BY <1>9, FS_EmptySet
  <2>3. QED
    BY <1>3, <1>8, <1>10, <2>1, <2>2
<1>12. value'[g] + Cardinality(Charged(g)') = size'[g]
  BY <1>1, <1>3, <1>10, <1>11 DEF AdmissionInv, AdmissionTypeOK, sems
<1>13. \A h \in Task \ {g} : value'[h] + Cardinality(Charged(h)') = size'[h]
  BY <1>1, <1>7 DEF AdmissionInv, AdmissionTypeOK, SlotsConserved, sems
<1>14. SlotsConserved'
  BY <1>12, <1>13 DEF SlotsConserved
<1>15. QED
  BY <1>5, <1>6, <1>14 DEF AdmissionInv

LEMMA SlotFacts ==
  ASSUME AdmissionInv, NEW t \in Task, at[t] \in InLine \cup {"holding"}
  PROVE  /\ mine[t] \in Sem /\ value[mine[t]] \in Nat
         /\ value[mine[t]] + Cardinality(Charged(mine[t])) = size[mine[t]]
         /\ Cardinality(Charged(mine[t])) \in Nat
         /\ t \in Charged(mine[t]) <=> at[t] \in {"granted", "revoked", "holding"}
         /\ t \in Charged(mine[t]) => Cardinality(Charged(mine[t])) > 0
<1>1. mine[t] \in Sem /\ value[mine[t]] \in Nat /\ size[mine[t]] \in Nat
  BY AdmissionAssumption DEF AdmissionInv, AdmissionTypeOK, EnteredHasOne, Sem
<1>2. t \in Charged(mine[t]) <=> at[t] \in {"granted", "revoked", "holding"}
  BY <1>1 DEF Charged
<1>3. t \in Charged(mine[t]) => Cardinality(Charged(mine[t])) # 0
  BY ChargedFinite, FS_EmptySet
<1>4. QED
  BY <1>1, <1>2, <1>3, ChargedFinite DEF AdmissionInv, SlotsConserved

LEMMA AcquiredKeeps ==
  ASSUME AdmissionInv, NEW t \in Task, Acquired(t)
  PROVE  AdmissionInv'
<1>1. at[t] \in InLine \cup {"holding"} /\ at[t] = "granted"
  BY DEF Acquired, InLine
<1>2. t \in Charged(mine[t])
  BY <1>1, SlotFacts
<1>3. value[mine[t]] + Cardinality(Kept(mine[t], t, "holding")) = size[mine[t]]
  BY <1>1, <1>2, SlotFacts, KeptCount
<1>4. HandOver(t, "holding", mine[t], value[mine[t]], value[mine[t]])
  BY DEF Acquired
<1>5. UNCHANGED <<limit, seen, sems, mine>>
  BY DEF Acquired, store, sems
<1>6. value[mine[t]] <= value[mine[t]]
  BY <1>1, SlotFacts
<1>7. QED
  BY <1>1, <1>3, <1>4, <1>5, <1>6, SlotFacts, HandOverKeeps

LEMMA UnwindKeeps ==
  ASSUME AdmissionInv, NEW t \in Task, Unwind(t)
  PROVE  AdmissionInv'
<1> DEFINE v == value[mine[t]] + (IF at[t] = "revoked" THEN 1 ELSE 0)
<1>1. at[t] \in InLine \cup {"holding"} /\ at[t] \in {"cancelled", "revoked"}
  BY DEF Unwind, InLine
<1>2. v \in Nat /\ v <= v
  BY <1>1, SlotFacts
<1>3. t \in Charged(mine[t]) <=> at[t] = "revoked"
  BY <1>1, SlotFacts
<1>4. v + Cardinality(Kept(mine[t], t, "over")) = size[mine[t]]
  BY <1>1, <1>3, SlotFacts, KeptCount
<1>5. HandOver(t, "over", mine[t], v, v)
  BY DEF Unwind
<1>6. UNCHANGED <<limit, seen, sems, mine>>
  BY DEF Unwind, store, sems
<1> HIDE DEF v
<1>7. QED
  BY <1>1, <1>2, <1>4, <1>5, <1>6, SlotFacts, HandOverKeeps

LEMMA LeaveKeeps ==
  ASSUME AdmissionInv, NEW t \in Task, Leave(t)
  PROVE  AdmissionInv'
<1>1. at[t] \in InLine \cup {"holding"} /\ at[t] = "holding"
  BY DEF Leave
<1>2. value[mine[t]] + 1 \in Nat /\ 1 <= value[mine[t]] + 1
  BY <1>1, SlotFacts
<1>3. t \in Charged(mine[t])
  BY <1>1, SlotFacts
<1>4. (value[mine[t]] + 1) + Cardinality(Kept(mine[t], t, "over")) = size[mine[t]]
  BY <1>1, <1>3, SlotFacts, KeptCount
<1>5. HandOver(t, "over", mine[t], value[mine[t]] + 1, 1)
  BY DEF Leave
<1>6. UNCHANGED <<limit, seen, sems, mine>>
  BY DEF Leave, store, sems
<1>7. QED
  BY <1>1, <1>2, <1>4, <1>5, <1>6, SlotFacts, HandOverKeeps

-----------------------------------------------------------------------------
LEMMA AdmissionStep == AdmissionInv /\ [Next]_vars => AdmissionInv'
<1> SUFFICES ASSUME AdmissionInv, [Next]_vars PROVE AdmissionInv'
  OBVIOUS
<1>1. ASSUME NEW n \in Limits, ChangeLimit(n) PROVE AdmissionInv'
  BY <1>1, AsideKeeps DEF ChangeLimit, AdmissionInv, AdmissionTypeOK
<1>2. CASE BeginDrain
  BY <1>2, AsideKeeps DEF BeginDrain, store, AdmissionInv, AdmissionTypeOK
<1>3. ASSUME NEW t \in Task, Create(t) PROVE AdmissionInv'
  <2>1. at' \in [Task -> At] /\ at[t] = "new" /\ at'[t] \in {"created", "shed"}
          /\ \A u \in Task \ {t} : at'[u] = at[u]
    BY <1>3 DEF Create, AdmissionInv, AdmissionTypeOK, At
  <2>2. UNCHANGED <<limit, seen, sems, value, mine>>
    BY <1>3 DEF Create, store
  <2>3. QED
    BY <2>1, <2>2, AsideKeeps DEF AdmissionInv, AdmissionTypeOK, InLine
<1>4. ASSUME NEW t \in Task, LoadSettings(t) PROVE AdmissionInv'
  <2>1. at' \in [Task -> At] /\ at[t] = "created" /\ at'[t] = "loaded"
          /\ \A u \in Task \ {t} : at'[u] = at[u]
    BY <1>4 DEF LoadSettings, AdmissionInv, AdmissionTypeOK, At
  <2>2. UNCHANGED <<limit, sems, value, mine>> /\ seen' \in [Task -> Limits]
    BY <1>4 DEF LoadSettings, store, AdmissionInv, AdmissionTypeOK
  <2>3. QED
    BY <2>1, <2>2, AsideKeeps DEF AdmissionInv, AdmissionTypeOK, InLine
<1>5. ASSUME NEW t \in Task, Enter(t) PROVE AdmissionInv'
  BY <1>5, EnterMakes, EnterTakes, EnterWaits
<1>6. ASSUME NEW t \in Task, Cancel(t) PROVE AdmissionInv'
  <2>1. /\ at' \in [Task -> At]
        /\ \/ at[t] = "waiting" /\ at'[t] = "cancelled"
           \/ at[t] = "granted" /\ at'[t] = "revoked"
        /\ \A u \in Task \ {t} : at'[u] = at[u]
    BY <1>6 DEF Cancel, AdmissionInv, AdmissionTypeOK, At, InLine
  <2>2. UNCHANGED <<limit, seen, sems, value, mine>>
    BY <1>6 DEF Cancel, store
  <2>3. QED
    BY <2>1, <2>2, AsideKeeps DEF AdmissionInv, AdmissionTypeOK, InLine
<1>7. CASE UNCHANGED vars
  BY <1>7, AsideKeeps DEF vars, store, AdmissionInv, AdmissionTypeOK
<1>8. QED
  BY <1>1, <1>2, <1>3, <1>4, <1>5, <1>6, <1>7, AcquiredKeeps, UnwindKeeps, LeaveKeeps DEF Next

\* Of every semaphore, the free slots and those in the hands of tasks make up the
\* number it was made with, whoever is cancelled, at whatever moment, and however
\* often PUT /settings changes the limit.
THEOREM NoSlotIsLost == Spec => []SlotsConserved
<1>1. Init => AdmissionInv
  BY AdmissionInit
<1>2. AdmissionInv /\ [Next]_vars => AdmissionInv'
  BY AdmissionStep
<1>3. AdmissionInv => SlotsConserved
  BY DEF AdmissionInv
<1>4. QED
  BY <1>1, <1>2, <1>3, PTL DEF Spec

=============================================================================
