--------------------------- MODULE OutboxProofs ---------------------------
(***************************************************************************)
(* For every number of rows and replicas, every kind of delivery and every *)
(* budget, with no bound on ticks cut short, leases lost or overlaps: rows *)
(* are replaced by later ones only, what is shown again was paid for, and  *)
(* so is what an external channel takes again, while ticks do not overlap. *)
(***************************************************************************)
EXTENDS Outbox, FiniteSetTheorems, TLAPS

Keys == {NoKey} \cup {k.key : k \in Kind}
RowType == [state : {"none", "new", "open", "in"}, tier : 0..3, approval : BOOLEAN, key : Keys,
            late : BOOLEAN, channel : {"none", "interrupt", "notify", "digest", "silent"},
            at : {"none", "day", "late", "before"}, by : 0..MaxRow, stale : SUBSET Row, turn : Nat]

OutboxTypeOK == row \in [Row -> RowType]

\* What an open transaction is to replace was committed and has its key; one that
\* has not looked is to replace nothing.
StaleOK ==
  \A i \in Row :
    /\ row[i].state \in {"none", "new"} => row[i].stale = {}
    /\ row[i].state = "open" =>
         \A j \in row[i].stale : row[j].state = "in" /\ row[j].key = row[i].key

\* Commits are numbered one after the other.
TurnOK == \A i \in Row : row[i].state = "in" => row[i].turn <= Cardinality(Committed)

\* Only what is committed is replaced.
YieldsIn == \A i \in Row : row[i].by # 0 => row[i].state = "in"

OutboxInv == OutboxTypeOK /\ StaleOK /\ TurnOK /\ YieldsIn /\ ReplacedByLater

-----------------------------------------------------------------------------
LEMMA OutboxInit == Init => OutboxInv
<1> SUFFICES ASSUME Init PROVE OutboxInv
  OBVIOUS
<1>1. NoRow \in RowType
  BY OutboxAssumption DEF NoRow, RowType, Keys
<1>2. \A i \in Row : row[i] = NoRow
  BY DEF Init
<1>3. QED
  BY <1>1, <1>2 DEF Init, NoRow, OutboxInv, OutboxTypeOK, StaleOK, TurnOK, YieldsIn, ReplacedByLater

LEMMA TurnIs == Cardinality(Committed) \in Nat /\ IsFiniteSet(Committed)
<1>1. Committed \in SUBSET Row /\ IsFiniteSet(Row)
  BY FS_Interval, OutboxAssumption DEF Committed, Row
<1>2. QED
  BY <1>1, FS_Subset, FS_CardinalityType

\* A step that commits nothing: what is committed keeps its key, its number and
\* what replaces it, and what is not has still to look, or has looked well.
LEMMA QuietRows ==
  ASSUME OutboxInv, row' \in [Row -> RowType], StaleOK',
         \A i \in Row : /\ row'[i].state = "in" <=> row[i].state = "in"
                        /\ row'[i].by = row[i].by
                        /\ row[i].state = "in" => row'[i].key = row[i].key /\ row'[i].turn = row[i].turn
  PROVE  OutboxInv'
<1>1. Committed' = Committed
  BY DEF Committed
<1>2. TurnOK' /\ YieldsIn'
  BY <1>1 DEF OutboxInv, TurnOK, YieldsIn
<1>3. \A i \in Row : row[i].by # 0 => row[i].by \in Row
  BY OutboxAssumption DEF OutboxInv, OutboxTypeOK, RowType, Row
<1>4. ReplacedByLater'
  <2>1. ASSUME NEW i \in Row, row'[i].by # 0
        PROVE  /\ row'[row'[i].by].state = "in" /\ row'[row'[i].by].key = row'[i].key
               /\ row'[row'[i].by].turn > row'[i].turn
    <3>1. row'[i].by = row[i].by /\ row[i].by \in Row /\ row[i].state = "in"
      BY <2>1, <1>3 DEF OutboxInv, YieldsIn
    <3>2. /\ row[row[i].by].state = "in" /\ row[row[i].by].key = row[i].key
          /\ row[row[i].by].turn > row[i].turn
      BY <2>1, <3>1 DEF OutboxInv, ReplacedByLater
    <3>3. QED
      BY <3>1, <3>2
  <2>2. QED
    BY <2>1 DEF ReplacedByLater
<1>5. QED
  BY <1>2, <1>4 DEF OutboxInv, OutboxTypeOK

\* What a stage does to a row: everything but the five fields that matter here
Aside(i) ==
  /\ row'[i].state = row[i].state /\ row'[i].key = row[i].key /\ row'[i].turn = row[i].turn
  /\ row'[i].by = row[i].by /\ row'[i].stale = row[i].stale

LEMMA StageKeeps ==
  ASSUME OutboxInv, row' \in [Row -> RowType], \A i \in Row : Aside(i)
  PROVE  OutboxInv'
<1>1. \A i \in Row : row[i].stale \subseteq Row
  BY DEF OutboxInv, OutboxTypeOK, RowType
<1>2. StaleOK'
  BY <1>1 DEF OutboxInv, StaleOK, Aside
<1>3. QED
  BY <1>2, QuietRows DEF Aside

LEMMA StampTyped == Stamp \in {"day", "late"}
  BY DEF Stamp

LEMMA ModeTyped == \A stage : Mode(stage) \in {"interrupt", "notify", "digest"}
  BY DEF Mode

\* A row with some fields written
Beside(x, y) ==
  y \in RowType /\ y.state = x.state /\ y.key = x.key /\ y.by = x.by /\ y.stale = x.stale
  /\ y.turn = x.turn

LEMMA RowEdits ==
  ASSUME NEW x \in RowType
  PROVE  /\ Beside(x, [x EXCEPT !.late = TRUE])
         /\ Beside(x, [x EXCEPT !.tier = 2])
         /\ Beside(x, [x EXCEPT !.at = "before"])
<1>1. Beside(x, [x EXCEPT !.late = TRUE])
  BY DEF RowType, Beside
<1>2. Beside(x, [x EXCEPT !.tier = 2])
  BY DEF RowType, Beside
<1>3. Beside(x, [x EXCEPT !.at = "before"])
  BY DEF RowType, Beside
<1>4. QED
  BY <1>1, <1>2, <1>3

LEMMA MarkedRow ==
  ASSUME NEW x \in RowType, NEW c \in {"interrupt", "notify", "digest"}, NEW t \in {"day", "late"}
  PROVE  Beside(x, [x EXCEPT !.channel = c, !.at = t])
  BY DEF RowType, Beside

LEMMA ReplacedRow ==
  ASSUME NEW x \in RowType, NEW n \in Row
  PROVE  LET y == [x EXCEPT !.by = n] IN
         /\ y \in RowType /\ y.state = x.state /\ y.key = x.key /\ y.by = n
         /\ y.stale = x.stale /\ y.turn = x.turn
<1>1. n \in 0..MaxRow
  BY OutboxAssumption DEF Row
<1>2. QED
  BY <1>1 DEF RowType

LEMMA CommittedRow ==
  ASSUME NEW x \in RowType, NEW n \in Nat
  PROVE  LET y == [x EXCEPT !.state = "in", !.stale = {}, !.turn = n] IN
         y \in RowType /\ y.state = "in" /\ y.key = x.key /\ y.by = x.by /\ y.stale = {} /\ y.turn = n
  BY DEF RowType

LEMMA DemoteKeeps == ASSUME OutboxInv, NEW rows, Demote(rows) PROVE OutboxInv'
<1>1. row' \in [Row -> RowType] /\ \A i \in Row : Aside(i)
  <2>1. \A j \in Row : row[j] \in RowType /\ Beside(row[j], [row[j] EXCEPT !.tier = 2])
    BY RowEdits DEF OutboxInv, OutboxTypeOK
  <2>2. QED
    BY <2>1 DEF Demote, Aside, Beside
<1>2. QED
  BY <1>1, StageKeeps

LEMMA SameRows == ASSUME OutboxInv, row' = row PROVE OutboxInv'
<1>1. row' \in [Row -> RowType] /\ \A i \in Row : Aside(i)
  BY DEF OutboxInv, OutboxTypeOK, Aside
<1>2. QED
  BY <1>1, StageKeeps

\* A row that is inserted is to replace nothing yet.
LEMMA AddKeeps == ASSUME OutboxInv, NEW i \in Row, Add(i) PROVE OutboxInv'
<1>1. row \in [Row -> RowType] /\ row[i].state = "none" /\ row[i].stale = {}
  BY DEF Add, OutboxInv, OutboxTypeOK, StaleOK
<1>2. PICK k \in Kind :
        row' = [row EXCEPT ![i] =
          [row[i] EXCEPT !.state = IF k.key = NoKey THEN "open" ELSE "new",
                   !.tier = k.tier, !.approval = k.approval, !.key = k.key,
                   !.channel = IF k.tier = 3 THEN "silent" ELSE "none",
                   !.at = IF k.tier = 3 THEN Stamp ELSE "none"]]
  BY DEF Add
<1>3. k.tier \in 0..3 /\ k.approval \in BOOLEAN /\ k.key \in Keys
  BY OutboxAssumption DEF Keys
<1> DEFINE s == IF k.key = NoKey THEN "open" ELSE "new"
           c == IF k.tier = 3 THEN "silent" ELSE "none"
           a == IF k.tier = 3 THEN Stamp ELSE "none"
           y == [row[i] EXCEPT !.state = s, !.tier = k.tier, !.approval = k.approval, !.key = k.key,
                               !.channel = c, !.at = a]
<1>4. s \in {"open", "new"} /\ c \in {"none", "silent"} /\ a \in {"none", "day", "late"}
  BY StampTyped
<1> HIDE DEF s, c, a
<1>5. y \in RowType /\ y.state \in {"open", "new"} /\ y.by = row[i].by /\ y.stale = {}
  BY <1>1, <1>3, <1>4 DEF RowType
<1>6. row' = [row EXCEPT ![i] = y]
  BY <1>2 DEF s, c, a
<1> HIDE DEF y
<1>7. row' \in [Row -> RowType] /\ row'[i] = y /\ \A j \in Row : j # i => row'[j] = row[j]
  BY <1>1, <1>5, <1>6
<1>8. StaleOK'
  <2>1. \A j \in Row : row[j].stale \subseteq Row
    BY <1>1 DEF RowType
  <2>2. QED
    BY <1>1, <1>5, <1>7, <2>1 DEF OutboxInv, StaleOK
<1>9. QED
  BY <1>1, <1>5, <1>7, <1>8, QuietRows

LEMMA LookKeeps == ASSUME OutboxInv, NEW i \in Row, LookFor(i) PROVE OutboxInv'
<1> DEFINE old == {j \in Row : row[j].key = row[i].key /\ Pending(j) /\ row[j].by = 0}
           y == [row[i] EXCEPT !.state = "open", !.stale = old]
<1>1. row \in [Row -> RowType] /\ row[i].state = "new"
  BY DEF LookFor, OutboxInv, OutboxTypeOK
<1>2. row' = [row EXCEPT ![i] = y]
  BY DEF LookFor
<1>3. old \subseteq Row /\ \A j \in old : row[j].state = "in" /\ row[j].key = row[i].key
  BY DEF Pending
<1> HIDE DEF old
<1>4. /\ y \in RowType /\ y.state = "open" /\ y.by = row[i].by /\ y.stale = old /\ y.key = row[i].key
  BY <1>1, <1>3 DEF RowType
<1> HIDE DEF y
<1>5. row' \in [Row -> RowType] /\ row'[i] = y /\ \A j \in Row : j # i => row'[j] = row[j]
  BY <1>1, <1>2, <1>4
<1>6. StaleOK'
  <2>1. \A j \in Row : row[j].stale \subseteq Row
    BY <1>1 DEF RowType
  <2>2. QED
    BY <1>1, <1>3, <1>4, <1>5, <2>1 DEF OutboxInv, StaleOK
<1>7. QED
  BY <1>1, <1>4, <1>5, <1>6, QuietRows

LEMMA CommitKeeps == ASSUME OutboxInv, NEW i \in Row, Commit(i) PROVE OutboxInv'
<1>1. row \in [Row -> RowType] /\ row[i].state = "open" /\ Turn \in Nat
  BY TurnIs DEF Commit, OutboxInv, OutboxTypeOK, Turn
<1>2. row' = [j \in Row |-> IF j = i THEN [row[i] EXCEPT !.state = "in", !.stale = {}, !.turn = Turn]
                           ELSE IF j \in row[i].stale THEN [row[j] EXCEPT !.by = i]
                           ELSE row[j]]
  BY DEF Commit
<1>3. \A j \in row[i].stale : j \in Row /\ row[j].state = "in" /\ row[j].key = row[i].key /\ j # i
  BY <1>1 DEF OutboxInv, RowType, StaleOK
<1>4. OutboxTypeOK'
  BY <1>1, <1>2, CommittedRow, ReplacedRow DEF OutboxTypeOK
<1>5. /\ row'[i].state = "in" /\ row'[i].key = row[i].key /\ row'[i].by = row[i].by
      /\ row'[i].turn = Turn
      /\ \A j \in Row : j # i => /\ row'[j].state = row[j].state /\ row'[j].key = row[j].key
                                 /\ row'[j].stale = row[j].stale /\ row'[j].turn = row[j].turn
                                 /\ row'[j].by = IF j \in row[i].stale THEN i ELSE row[j].by
  <2>1. /\ row'[i] = [row[i] EXCEPT !.state = "in", !.stale = {}, !.turn = Turn]
        /\ \A j \in Row : j # i => row'[j] = IF j \in row[i].stale THEN [row[j] EXCEPT !.by = i] ELSE row[j]
    BY <1>2
  <2>2. \A j \in Row : row[j] \in RowType
    BY <1>1
  <2>3. row'[i].state = "in" /\ row'[i].key = row[i].key /\ row'[i].by = row[i].by /\ row'[i].turn = Turn
    <3> DEFINE y == [row[i] EXCEPT !.state = "in", !.stale = {}, !.turn = Turn]
    <3>1. y.state = "in" /\ y.key = row[i].key /\ y.by = row[i].by /\ y.turn = Turn
      <4>1. PICK x \in RowType : x = row[i]
        BY <2>2
      <4>2. PICK n \in Nat : n = Turn
        BY <1>1
      <4>3. LET z == [x EXCEPT !.state = "in", !.stale = {}, !.turn = n] IN
            z.state = "in" /\ z.key = x.key /\ z.by = x.by /\ z.turn = n
        BY CommittedRow
      <4>4. QED
        BY <4>1, <4>2, <4>3
    <3>2. row'[i] = y
      BY <2>1
    <3> HIDE DEF y
    <3>3. QED
      BY <3>1, <3>2
  <2>4. ASSUME NEW j \in Row, j # i
        PROVE  /\ row'[j].state = row[j].state /\ row'[j].key = row[j].key
               /\ row'[j].stale = row[j].stale /\ row'[j].turn = row[j].turn
               /\ row'[j].by = IF j \in row[i].stale THEN i ELSE row[j].by
    <3> DEFINE y == [row[j] EXCEPT !.by = i]
    <3>1. y.state = row[j].state /\ y.key = row[j].key /\ y.by = i /\ y.stale = row[j].stale
          /\ y.turn = row[j].turn
      BY <2>2, ReplacedRow
    <3>2. row'[j] = IF j \in row[i].stale THEN y ELSE row[j]
      BY <2>1, <2>4
    <3> HIDE DEF y
    <3>3. QED
      BY <3>1, <3>2
  <2>5. QED
    BY <2>3, <2>4
<1>6. StaleOK'
  BY <1>1, <1>5 DEF OutboxInv, RowType, StaleOK
<1>7. Cardinality(Committed)' = Turn
  <2>1. Committed' = Committed \cup {i} /\ i \notin Committed
    BY <1>1, <1>5 DEF Committed
  <2>2. QED
    BY <2>1, TurnIs, FS_AddElement DEF Turn
<1>8. TurnOK' /\ \A j \in Row : row[j].state = "in" => row[j].turn < Turn
  <2>1. \A j \in Row : row[j].state = "in" => row[j].turn < Turn
    BY <1>1, TurnIs DEF OutboxInv, TurnOK, Turn, RowType
  <2>2. QED
    BY <1>1, <1>5, <1>7, <2>1 DEF TurnOK, RowType
<1>9. ReplacedByLater'
  <2>1. ASSUME NEW j \in Row, row'[j].by # 0
        PROVE  /\ row'[row'[j].by].state = "in" /\ row'[row'[j].by].key = row'[j].key
               /\ row'[row'[j].by].turn > row'[j].turn
    <3>1. CASE j \in row[i].stale
      <4>1. row'[j].by = i /\ row'[j].key = row[i].key /\ row'[j].turn = row[j].turn
        BY <1>3, <1>5, <3>1
      <4>2. row[j].turn < Turn
        BY <1>3, <1>8, <3>1
      <4>3. row'[i].state = "in" /\ row'[i].key = row[i].key /\ row'[i].turn = Turn
        BY <1>5
      <4>4. row[j].turn \in Nat
        BY <1>1 DEF RowType
      <4>5. QED
        BY <1>1, <4>1, <4>2, <4>3, <4>4
    <3>2. CASE j \notin row[i].stale
      <4>1. row'[j].by = row[j].by /\ row'[j].key = row[j].key /\ row[j].by \in Row
        <5>1. row'[j].by = row[j].by /\ row'[j].key = row[j].key
          BY <1>5, <3>2
        <5>2. row[j].by \in 0..MaxRow
          BY <1>1 DEF RowType
        <5>3. QED
          BY <2>1, <5>1, <5>2, OutboxAssumption DEF Row
      <4>2. /\ row[row[j].by].state = "in" /\ row[row[j].by].key = row[j].key
            /\ row[row[j].by].turn > row[j].turn /\ row[j].state = "in"
        BY <2>1, <4>1 DEF OutboxInv, ReplacedByLater, YieldsIn
      <4>3. QED
        BY <1>1, <1>5, <4>1, <4>2
    <3>3. QED
      BY <3>1, <3>2
  <2>2. QED
    BY <2>1 DEF ReplacedByLater
<1>10. YieldsIn'
  BY <1>1, <1>3, <1>5 DEF OutboxInv, YieldsIn
<1>11. QED
  BY <1>4, <1>6, <1>8, <1>9, <1>10 DEF OutboxInv

LEMMA OutboxStep == OutboxInv /\ [Next]_vars => OutboxInv'
<1> SUFFICES ASSUME OutboxInv, [Next]_vars PROVE OutboxInv'
  OBVIOUS
<1>1. ASSUME NEW i \in Row, Add(i) \/ LookFor(i) \/ Commit(i) PROVE OutboxInv'
  BY <1>1, AddKeeps, LookKeeps, CommitKeeps
<1>2. ASSUME NEW i \in Row, Overdue(i) PROVE OutboxInv'
  <2>1. row' \in [Row -> RowType] /\ \A j \in Row : Aside(j)
    <3> DEFINE y == [row[i] EXCEPT !.late = TRUE]
    <3>1. row' = [row EXCEPT ![i] = y]
      BY <1>2 DEF Overdue
    <3>2. row \in [Row -> RowType]
      BY DEF OutboxInv, OutboxTypeOK
    <3>3. Beside(row[i], y)
      BY <3>2, RowEdits
    <3> HIDE DEF y
    <3>4. QED
      BY <3>1, <3>2, <3>3 DEF Aside, Beside
  <2>2. QED
    BY <2>1, StageKeeps
<1>3. ASSUME NEW r \in Replica, Interrupts(r) PROVE OutboxInv'
  BY <1>3, DemoteKeeps DEF Interrupts
<1>4. ASSUME NEW r \in Replica, Notifies(r) PROVE OutboxInv'
  BY <1>4, DemoteKeeps, SameRows DEF Notifies
<1>5. ASSUME NEW r \in Replica, Mark(r) PROVE OutboxInv'
  <2>1. row' \in [Row -> RowType] /\ \A j \in Row : Aside(j)
    <3> DEFINE c == Mode(tick[r].stage)
               t == Stamp
    <3>1. c \in {"interrupt", "notify", "digest"} /\ t \in {"day", "late"}
      BY StampTyped, ModeTyped
    <3>2. \E fresh : row' = [j \in Row |-> IF j \in fresh THEN [row[j] EXCEPT !.channel = c, !.at = t]
                                          ELSE row[j]]
      BY <1>5 DEF Mark
    <3> HIDE DEF c, t
    <3>3. \A j \in Row : row[j] \in RowType /\ Beside(row[j], [row[j] EXCEPT !.channel = c, !.at = t])
      BY <3>1, MarkedRow DEF OutboxInv, OutboxTypeOK
    <3>4. QED
      BY <3>2, <3>3 DEF Aside, Beside
  <2>2. QED
    BY <2>1, StageKeeps
<1>6. CASE Later
  <2>1. row' \in [Row -> RowType] /\ \A j \in Row : Aside(j)
    <3>1. \E over : row' = [j \in Row |-> IF j \in over THEN [row[j] EXCEPT !.at = "before"] ELSE row[j]]
      <4>1. WITNESS {j \in Row : clock = "night" /\ Today(j)}
      <4>2. QED
        BY <1>6 DEF Later
    <3>2. \A j \in Row : row[j] \in RowType /\ Beside(row[j], [row[j] EXCEPT !.at = "before"])
      BY RowEdits DEF OutboxInv, OutboxTypeOK
    <3>3. QED
      BY <3>1, <3>2 DEF Aside, Beside
  <2>2. QED
    BY <2>1, StageKeeps
<1>7. CASE row' = row
  BY <1>7, SameRows
<1>8. ASSUME NEW r \in Replica,
             \/ TakeLease(r) \/ BeginTick(r) \/ TimeOut(r) \/ Crash(r)
             \/ Presence(r) \/ Return(r) \/ Digest(r) \/ NoDigest(r)
             \/ Retry(r) \/ Resend(r) \/ Record(r)
      PROVE  row' = row
  BY <1>8 DEF TakeLease, BeginTick, TimeOut, Crash, Presence, Return, Digest, NoDigest, Retry, Resend, Record
<1>9. LoseLease \/ ComeOrGo \/ LongGone \/ UNCHANGED vars => row' = row
  BY DEF LoseLease, ComeOrGo, LongGone, vars
<1>10. QED
  BY <1>1, <1>2, <1>3, <1>4, <1>5, <1>6, <1>7, <1>8, <1>9 DEF Next, Stage

\* ReplacedByLater of Outbox: whatever is inserted beside whatever is flushed, and
\* whenever each transaction looks and commits, a row yields to one of its key that
\* was committed after it, so no chain of replaced rows loses the one that stands
\* (add_delivery).
THEOREM ReplacedRowsYield == Spec => []ReplacedByLater
<1>1. OutboxInv => ReplacedByLater
  BY DEF OutboxInv
<1>2. QED
  BY <1>1, OutboxInit, OutboxStep, PTL DEF Spec

-----------------------------------------------------------------------------
(* What ticks have in hand *)

Sending == {"return", "longreturn", "catchup", "interrupt", "notify", "digest"}
Stages  == {"idle", "presence", "retry"} \cup Sending
TickType == [stage : Stages, step : {"none", "choose", "mark", "send"},
             batch : SUBSET (Row \cup (Row \X Nat)), sent : {"none", "ok", "failed"}]
ExtType == [state : {"none", "ok", "failed", "dead"}, attempts : Nat, taken : Nat]

SendTypeOK ==
  /\ tick \in [Replica -> TickType]
  /\ ext \in [Row -> ExtType]
  /\ spent \in [cut : Nat, lost : Nat, overlap : Nat, move : Nat]

\* A retry has a batch of entries that were tried; they failed, and nobody else can
\* have written them meanwhile, if no ticks overlapped.
TickOK(r) ==
  /\ tick[r].step = "send" => tick[r].stage = "retry"
  /\ tick[r].step = "mark" => tick[r].stage \in Sending \cup {"retry"}
  /\ tick[r].stage = "retry" /\ tick[r].step \in {"send", "mark"} =>
       /\ tick[r].batch # {} /\ tick[r].batch \subseteq Row \X Nat
       /\ tick[r].step = "mark" => tick[r].sent \in {"ok", "failed"}
       /\ \A e, f \in tick[r].batch : e[1] = f[1] => e = f
       /\ \A e \in tick[r].batch : /\ ext[e[1]].state # "none"
                                   /\ spent.overlap = 0 => ext[e[1]].state = "failed"

\* Only what was marked as delivered has an entry, so no queue holds what was sent.
Marked == \A i \in Row : ext[i].state # "none" => row[i].state = "in" /\ row[i].channel # "none"

\* Without overlap one tick goes on at a time.
Alone ==
  spent.overlap = 0 =>
    \A q, r \in Replica : tick[q].stage # "idle" /\ tick[r].stage # "idle" => q = r

SendInv == SendTypeOK /\ (\A r \in Replica : TickOK(r)) /\ Marked /\ Alone

LEMMA SendInit == Init => SendInv
<1> SUFFICES ASSUME Init PROVE SendInv
  OBVIOUS
<1>1. SendTypeOK
  BY DEF Init, SendTypeOK, Idle, TickType, ExtType, Stages
<1>2. \A r \in Replica : tick[r] = Idle
  BY DEF Init
<1>3. (\A r \in Replica : TickOK(r)) /\ Marked /\ Alone
  BY <1>2 DEF Init, TickOK, Marked, Alone, Idle
<1>4. QED
  BY <1>1, <1>3 DEF SendInv

\* A step that leaves ticks and entries alone, and marks of rows where they are
LEMMA AsideSends ==
  ASSUME SendInv, UNCHANGED <<ext, tick>>, spent' \in [cut : Nat, lost : Nat, overlap : Nat, move : Nat],
         spent'.overlap = spent.overlap,
         \A i \in Row : row[i].state = "in" /\ row[i].channel # "none" =>
                        row'[i].state = "in" /\ row'[i].channel # "none"
  PROVE  SendInv'
<1>1. SendTypeOK' /\ (\A r \in Replica : TickOK(r)') /\ Alone'
  BY DEF SendInv, SendTypeOK, TickOK, Alone
<1>2. Marked'
  BY DEF SendInv, Marked
<1>3. QED
  BY <1>1, <1>2 DEF SendInv

\* A step of the tick of r: what others have in hand is safe, for if nothing
\* overlapped they have nothing in hand.
LEMMA TickSends ==
  ASSUME SendInv, NEW r \in Replica, tick[r].stage # "idle", SendTypeOK', TickOK(r)', Marked',
         \A q \in Replica \ {r} : tick'[q] = tick[q],
         spent'.overlap = spent.overlap,
         \A i \in Row : ext[i].state # "none" => ext'[i].state # "none"
  PROVE  SendInv'
<1>1. Alone'
  BY DEF SendInv, Alone
<1>2. ASSUME NEW q \in Replica, q # r PROVE TickOK(q)'
  <2>1. tick'[q] = tick[q] /\ TickOK(q)
    BY <1>2 DEF SendInv
  <2>2. spent.overlap = 0 => tick[q].stage = "idle"
    BY <1>2 DEF SendInv, Alone
  <2>3. ASSUME tick[q].stage = "retry", tick[q].step \in {"send", "mark"}, NEW e \in tick[q].batch
        PROVE  ext'[e[1]].state # "none"
    BY <2>1, <2>3 DEF TickOK
  <2>4. QED
    BY <2>1, <2>2, <2>3 DEF TickOK
<1>3. QED
  BY <1>1, <1>2 DEF SendInv

-----------------------------------------------------------------------------
LEMMA Entered ==
  ASSUME SendInv, NEW r \in Replica, NEW s \in Stages, Enter(r, s)
  PROVE  /\ tick' \in [Replica -> TickType] /\ tick'[r].step = "choose"
         /\ \A q \in Replica \ {r} : tick'[q] = tick[q]
<1>1. [Idle EXCEPT !.stage = s, !.step = "choose"] \in TickType
        /\ [Idle EXCEPT !.stage = s, !.step = "choose"].step = "choose"
  BY DEF Idle, TickType
<1>2. QED
  BY <1>1 DEF Enter, SendInv, SendTypeOK

\* The tick of r goes on to a stage, or is over.
LEMMA GoesOn ==
  ASSUME SendInv, NEW r \in Replica, tick[r].stage # "idle", tick' \in [Replica -> TickType],
         tick'[r].step \in {"choose", "none"}, \A q \in Replica \ {r} : tick'[q] = tick[q],
         UNCHANGED ext, spent' \in [cut : Nat, lost : Nat, overlap : Nat, move : Nat],
         spent'.overlap = spent.overlap, UNCHANGED row
  PROVE  SendInv'
<1>1. SendTypeOK' /\ TickOK(r)' /\ Marked'
  BY DEF SendInv, SendTypeOK, TickOK, Marked
<1>2. SendInv'
  BY <1>1, TickSends
<1>3. QED
  BY <1>2

LEMMA AfterIs ==
  ASSUME NEW stage \in Sending
  PROVE  After(stage) \in Stages
  BY DEF Sending, Stages, After

-----------------------------------------------------------------------------
(* What a stage sends *)

LEMMA QueueIsNew ==
  ASSUME SendInv, NEW t, NEW i \in Queue(t)
  PROVE  i \in Row /\ ext[i].state = "none"
  BY DEF Queue, Pending, SendInv, Marked

LEMMA SendKeeps ==
  ASSUME SendInv, NEW r \in Replica, NEW to \in Sending, tick[r].stage = to,
         NEW batch \in SUBSET Row, \A i \in batch : ext[i].state = "none",
         Send(r, to, batch), UNCHANGED spent,
         \A i \in Row : row[i].state = "in" /\ row[i].channel # "none" =>
                        row'[i].state = "in" /\ row'[i].channel # "none"
  PROVE  SendInv'
<1>1. PICK result \in {"none", "ok", "failed"} :
        /\ ext' = [i \in Row |-> IF i \in batch /\ result = "ok"
                                 THEN [ext[i] EXCEPT !.taken = @ + 1] ELSE ext[i]]
        /\ tick' = [tick EXCEPT ![r] =
             IF batch = {} THEN [Idle EXCEPT !.stage = After(to), !.step = "choose"]
             ELSE [stage |-> to, step |-> "mark", batch |-> batch, sent |-> result]]
  BY ZenonT(30) DEF Send
<1>2. \A i \in Row : [ext[i] EXCEPT !.taken = @ + 1] \in ExtType /\ [ext[i] EXCEPT !.taken = @ + 1].state = ext[i].state
  BY DEF SendInv, SendTypeOK, ExtType
<1>3. /\ ext' \in [Row -> ExtType]
      /\ \A i \in Row : ext'[i].state = ext[i].state /\ (i \notin batch => ext'[i] = ext[i])
  BY <1>1, <1>2 DEF SendInv, SendTypeOK
<1>4. After(to) \in Stages
  BY AfterIs
<1>5. [Idle EXCEPT !.stage = After(to), !.step = "choose"] \in TickType
       /\ [Idle EXCEPT !.stage = After(to), !.step = "choose"].step = "choose"
  BY <1>4 DEF Idle, TickType
<1>6. [stage |-> to, step |-> "mark", batch |-> batch, sent |-> result] \in TickType
  BY DEF TickType, Stages
<1>7. tick' \in [Replica -> TickType] /\ \A q \in Replica \ {r} : tick'[q] = tick[q]
  BY <1>1, <1>5, <1>6 DEF SendInv, SendTypeOK
<1>8. TickOK(r)'
  <2>1. tick'[r] = IF batch = {} THEN [Idle EXCEPT !.stage = After(to), !.step = "choose"]
                   ELSE [stage |-> to, step |-> "mark", batch |-> batch, sent |-> result]
    BY <1>1 DEF SendInv, SendTypeOK
  <2>2. tick'[r].step = "choose" \/ (tick'[r].step = "mark" /\ tick'[r].stage = to)
    BY <2>1, <1>5
  <2>3. QED
    BY <2>2 DEF TickOK, Sending
<1>9. SendTypeOK'
  BY <1>3, <1>7 DEF SendInv, SendTypeOK
<1>10. Marked'
  BY <1>3 DEF SendInv, Marked
<1>11. SendInv'
  BY <1>3, <1>7, <1>8, <1>9, <1>10, TickSends DEF Sending
<1>12. QED
  BY <1>11

LEMMA EnterSends ==
  ASSUME SendInv, NEW r \in Replica, NEW s \in Stages, Enter(r, s), tick[r].stage # "idle",
         UNCHANGED <<ext, row>>, spent' \in [cut : Nat, lost : Nat, overlap : Nat, move : Nat],
         spent'.overlap = spent.overlap
  PROVE  SendInv'
  BY Entered, GoesOn

LEMMA PresenceSends == ASSUME SendInv, NEW r \in Replica, Presence(r) PROVE SendInv'
<1>1. tick[r].stage = "presence" /\ UNCHANGED <<row, ext, spent>>
  BY DEF Presence, At
<1>2. \E s \in {"interrupt", "return", "longreturn"} : Enter(r, s)
  BY DEF Presence
<1>3. QED
  BY <1>1, <1>2, EnterSends DEF SendInv, SendTypeOK, Stages, Sending

LEMMA NoDigestSends == ASSUME SendInv, NEW r \in Replica, NoDigest(r) PROVE SendInv'
<1>1. tick[r].stage = "digest" /\ Enter(r, After("digest")) /\ UNCHANGED <<row, ext, spent>>
  BY DEF NoDigest, At, Leave
<1>2. After("digest") \in Stages
  BY AfterIs DEF Sending
<1>3. QED
  BY <1>1, <1>2, EnterSends DEF SendInv, SendTypeOK

\* Demoting a row, or marking it, leaves what is marked marked.
MarksStay ==
  \A i \in Row : row[i].state = "in" /\ row[i].channel # "none" =>
                 row'[i].state = "in" /\ row'[i].channel # "none"

LEMMA DemoteMarks == ASSUME OutboxTypeOK, NEW rows, Demote(rows) PROVE MarksStay
<1>1. \A i \in Row : [row[i] EXCEPT !.tier = 2].state = row[i].state
                     /\ [row[i] EXCEPT !.tier = 2].channel = row[i].channel
  BY DEF OutboxTypeOK, RowType
<1>2. QED
  BY <1>1 DEF Demote, MarksStay

LEMMA ChosenSends ==
  ASSUME SendInv, NEW r \in Replica, tick[r].stage \in Sending, NEW t, NEW batch \in SUBSET Queue(t),
         Chosen(r, batch), UNCHANGED spent, MarksStay
  PROVE  SendInv'
<1>1. batch \in SUBSET Row /\ \A i \in batch : ext[i].state = "none"
  BY QueueIsNew
<1>2. Send(r, tick[r].stage, batch)
  BY DEF Chosen
<1>3. QED
  BY <1>1, <1>2, SendKeeps DEF MarksStay

LEMMA FlushSends ==
  ASSUME SendInv, OutboxTypeOK, NEW r \in Replica, Return(r) \/ Interrupts(r) \/ Notifies(r) \/ Digest(r)
  PROVE  SendInv'
<1>1. CASE Return(r)
  <2>1. tick[r].stage \in Sending /\ Chosen(r, Queue(1)) /\ UNCHANGED <<row, spent>>
    BY <1>1 DEF Return, At, Sending
  <2>2. QED
    BY <2>1, ChosenSends DEF MarksStay
<1>2. CASE Interrupts(r)
  <2>1. tick[r].stage \in Sending /\ UNCHANGED spent
    BY <1>2 DEF Interrupts, At, Sending
  <2>2. PICK batch \in SUBSET Queue(0) : Demote(Queue(0) \ batch) /\ Chosen(r, batch)
    BY <1>2 DEF Interrupts, UpTo
  <2>3. MarksStay
    BY <2>2, DemoteMarks
  <2>4. QED
    BY <2>1, <2>2, <2>3, ChosenSends
<1>3. CASE Notifies(r)
  <2> DEFINE due == {i \in Queue(1) : presence = "active" \/ row[i].late}
  <2>1. tick[r].stage \in Sending /\ UNCHANGED spent
    BY <1>3 DEF Notifies, At, Sending
  <2>2. (Demote(due) /\ Chosen(r, {})) \/ (row' = row /\ Chosen(r, due))
    BY <1>3 DEF Notifies
  <2>3. due \in SUBSET Queue(1) /\ {} \in SUBSET Queue(1)
    OBVIOUS
  <2> HIDE DEF due
  <2>4. MarksStay
    BY <2>2, DemoteMarks DEF MarksStay
  <2>5. QED
    BY <2>1, <2>2, <2>3, <2>4, ChosenSends
<1>4. CASE Digest(r)
  <2>1. tick[r].stage \in Sending /\ UNCHANGED <<row, spent>>
    BY <1>4 DEF Digest, At, Sending
  <2>2. PICK some \in SUBSET {i \in Queue(2) : row[i].approval} :
          Chosen(r, (Queue(2) \ {i \in Queue(2) : row[i].approval}) \cup some)
    BY <1>4 DEF Digest, UpTo
  <2>3. (Queue(2) \ {i \in Queue(2) : row[i].approval}) \cup some \in SUBSET Queue(2)
    OBVIOUS
  <2>4. QED
    BY <2>1, <2>2, <2>3, ChosenSends DEF MarksStay
<1>5. QED
  BY <1>1, <1>2, <1>3, <1>4

-----------------------------------------------------------------------------
(* What is written afterwards *)

LEMMA EntryIs ==
  ASSUME SendInv, OutboxAssumption, NEW i \in Row, NEW n \in Nat, NEW result \in {"ok", "failed"}
  PROVE  /\ Entry(i, n, result) \in ExtType
         /\ Entry(i, n, result).state # "none" /\ Entry(i, n, result).taken = ext[i].taken
<1> DEFINE st == IF result = "ok" THEN "ok" ELSE IF n + 1 >= MaxAttempts THEN "dead" ELSE "failed"
<1>1. ext[i] \in ExtType
  BY DEF SendInv, SendTypeOK
<1>2. Entry(i, n, result) = [ext[i] EXCEPT !.attempts = n + 1, !.state = st]
  BY DEF Entry
<1>3. st \in {"ok", "dead", "failed"} /\ n + 1 \in Nat
  OBVIOUS
<1> HIDE DEF st
<1>4. QED
  BY <1>1, <1>2, <1>3 DEF ExtType

LEMMA MarkSends ==
  ASSUME SendInv, OutboxTypeOK, NEW r \in Replica, Mark(r)
  PROVE  SendInv'
<1> DEFINE fresh == {i \in tick[r].batch : Pending(i)}
           c == Mode(tick[r].stage)
           t == Stamp
           sent == tick[r].sent
<1>1. /\ row' = [i \in Row |-> IF i \in fresh THEN [row[i] EXCEPT !.channel = c, !.at = t] ELSE row[i]]
      /\ ext' = [i \in Row |-> IF i \in fresh /\ sent # "none" THEN Entry(i, 0, sent) ELSE ext[i]]
      /\ Enter(r, After(tick[r].stage)) /\ UNCHANGED spent
  BY DEF Mark, Leave
<1>2. tick[r].stage \in Sending /\ tick[r].stage # "idle" /\ sent \in {"none", "ok", "failed"}
  BY DEF Mark, SendInv, SendTypeOK, TickOK, TickType, Sending
<1>3. c # "none"
  BY ModeTyped
<1>4. \A i \in fresh : row[i].state = "in"
  BY DEF Pending
<1> HIDE DEF fresh, c, t, sent
<1>5. \A i \in Row : /\ row'[i].state = row[i].state
                     /\ row'[i].channel = IF i \in fresh THEN c ELSE row[i].channel
  <2>1. \A i \in Row : [row[i] EXCEPT !.channel = c, !.at = t].state = row[i].state
                       /\ [row[i] EXCEPT !.channel = c, !.at = t].channel = c
    BY DEF OutboxTypeOK, RowType
  <2>2. QED
    BY <1>1, <2>1
<1>6. /\ ext' \in [Row -> ExtType]
      /\ \A i \in Row : /\ ext'[i].taken = ext[i].taken
                        /\ ext[i].state # "none" => ext'[i].state # "none"
                        /\ ext'[i].state # "none" => ext[i].state # "none" \/ i \in fresh
  <2>1. \A i \in Row : i \in fresh /\ sent # "none" =>
          /\ Entry(i, 0, sent) \in ExtType
          /\ Entry(i, 0, sent).state # "none" /\ Entry(i, 0, sent).taken = ext[i].taken
    BY <1>2, EntryIs, OutboxAssumption
  <2>2. QED
    BY <1>1, <2>1 DEF SendInv, SendTypeOK
<1>7. After(tick[r].stage) \in Stages
  BY <1>2, AfterIs
<1>8. /\ tick' \in [Replica -> TickType] /\ tick'[r].step = "choose"
      /\ \A q \in Replica \ {r} : tick'[q] = tick[q]
  BY <1>1, <1>7, Entered
<1>9. TickOK(r)'
  BY <1>8 DEF TickOK
<1>10. Marked'
  BY <1>3, <1>4, <1>5, <1>6 DEF SendInv, Marked
<1>11. SendTypeOK'
  BY <1>1, <1>6, <1>8 DEF SendInv, SendTypeOK
<1>12. SendInv'
  BY <1>1, <1>2, <1>6, <1>8, <1>9, <1>10, <1>11, TickSends
<1>13. QED
  BY <1>12

-----------------------------------------------------------------------------
(* Retries *)

LEMMA RetrySends == ASSUME SendInv, NEW r \in Replica, Retry(r) PROVE SendInv'
<1>1. tick[r].stage = "retry" /\ tick[r].step = "choose" /\ UNCHANGED <<row, ext, spent>>
  BY DEF Retry, At
<1>2. PICK batch \in SUBSET {<<i, ext[i].attempts>> : i \in {j \in Row : ext[j].state = "failed"}} :
        tick' = IF batch = {} THEN [tick EXCEPT ![r] = Idle]
                ELSE [tick EXCEPT ![r].batch = batch, ![r].step = "send"]
  BY DEF Retry
<1>3. /\ batch \subseteq Row \X Nat
      /\ \A e \in batch : ext[e[1]].state = "failed"
      /\ \A e, f \in batch : e[1] = f[1] => e = f
  BY DEF SendInv, SendTypeOK, ExtType
<1>4. tick[r] \in TickType
  BY DEF SendInv, SendTypeOK
<1>5. CASE batch = {}
  <2>1. tick' \in [Replica -> TickType] /\ tick'[r].step = "none" /\ \A q \in Replica \ {r} : tick'[q] = tick[q]
    BY <1>2, <1>5 DEF SendInv, SendTypeOK, Idle, TickType, Stages
  <2>2. QED
    BY <1>1, <2>1, GoesOn DEF SendInv, SendTypeOK
<1>6. CASE batch # {}
  <2>1. /\ tick'[r].stage = "retry" /\ tick'[r].step = "send" /\ tick'[r].batch = batch
        /\ tick'[r] \in TickType /\ \A q \in Replica \ {r} : tick'[q] = tick[q]
        /\ DOMAIN tick' = Replica
    BY <1>1, <1>2, <1>3, <1>4, <1>6 DEF SendInv, SendTypeOK, TickType
  <2>2. tick' \in [Replica -> TickType]
    BY <1>2, <1>6, <2>1 DEF SendInv, SendTypeOK
  <2>3. TickOK(r)'
    BY <1>1, <1>3, <1>6, <2>1 DEF TickOK
  <2>4. SendTypeOK' /\ Marked'
    BY <1>1, <2>2 DEF SendInv, SendTypeOK, Marked
  <2>5. SendInv'
    BY <1>1, <2>1, <2>3, <2>4, TickSends
  <2>6. QED
    BY <2>5
<1>7. QED
  BY <1>5, <1>6

\* The entry that is next
LEMMA FirstIs ==
  ASSUME SendInv, NEW r \in Replica, tick[r].stage = "retry", tick[r].step \in {"send", "mark"}
  PROVE  LET e == First(tick[r].batch) IN
         /\ e \in tick[r].batch /\ e \in Row \X Nat /\ ext[e[1]].state # "none"
         /\ spent.overlap = 0 => ext[e[1]].state = "failed"
  BY DEF First, SendInv, TickOK

LEMMA ResendSends == ASSUME SendInv, NEW r \in Replica, Resend(r) PROVE SendInv'
<1> DEFINE e == First(tick[r].batch)
           i == e[1]
<1>1. tick[r].stage = "retry" /\ tick[r].step = "send" /\ UNCHANGED <<row, spent>>
  BY DEF Resend
<1>2. i \in Row /\ ext[i].state # "none" /\ (spent.overlap = 0 => ext[i].state = "failed")
  BY <1>1, FirstIs
<1>3. PICK result \in {"ok", "failed"} :
        /\ ext' = IF result = "ok" THEN [ext EXCEPT ![i].taken = @ + 1] ELSE ext
        /\ tick' = [tick EXCEPT ![r].step = "mark", ![r].sent = result]
  BY DEF Resend
<1>4. tick' = [tick EXCEPT ![r].step = "mark", ![r].sent = result]
  BY <1>3
<1> HIDE DEF e, i
<1>5. /\ ext' \in [Row -> ExtType] /\ \A j \in Row : ext'[j].state = ext[j].state
      /\ \A j \in Row : j # i => ext'[j] = ext[j]
  BY <1>2, <1>3 DEF SendInv, SendTypeOK, ExtType
<1>6. /\ tick'[r].stage = "retry" /\ tick'[r].step = "mark" /\ tick'[r].batch = tick[r].batch
      /\ tick'[r].sent = result /\ tick'[r] \in TickType /\ \A q \in Replica \ {r} : tick'[q] = tick[q]
  BY <1>1, <1>4 DEF SendInv, SendTypeOK, TickType
<1>7. tick' \in [Replica -> TickType]
  BY <1>4, <1>6 DEF SendInv, SendTypeOK
<1>8. TickOK(r)'
  <2>1. TickOK(r)
    BY DEF SendInv
  <2>2. \A f \in tick[r].batch : f[1] \in Row
    BY <1>1, <2>1 DEF TickOK
  <2>3. QED
    BY <1>1, <1>5, <1>6, <2>1, <2>2 DEF TickOK
<1>9. SendTypeOK' /\ Marked'
  BY <1>1, <1>5, <1>7 DEF SendInv, SendTypeOK, Marked
<1>10. SendInv'
  BY <1>1, <1>5, <1>6, <1>8, <1>9, TickSends
<1>11. QED
  BY <1>10

LEMMA RecordSends == ASSUME SendInv, NEW r \in Replica, Record(r) PROVE SendInv'
<1> DEFINE e == First(tick[r].batch)
           left == tick[r].batch \ {e}
           new == Entry(e[1], e[2], tick[r].sent)
<1>1. tick[r].stage = "retry" /\ tick[r].step = "mark" /\ UNCHANGED <<row, spent>>
  BY DEF Record
<1>2. TickOK(r) /\ tick[r] \in TickType
  BY DEF SendInv, SendTypeOK
<1>3. e \in tick[r].batch /\ e[1] \in Row /\ e[2] \in Nat /\ ext[e[1]].state # "none"
  BY <1>1, FirstIs
<1>4. new \in ExtType /\ new.state # "none" /\ new.taken = ext[e[1]].taken
  BY <1>1, <1>2, <1>3, EntryIs, OutboxAssumption DEF TickOK
<1>5. /\ ext' = [ext EXCEPT ![e[1]] = new]
      /\ tick' = IF left = {} THEN [tick EXCEPT ![r] = Idle]
                 ELSE [tick EXCEPT ![r].batch = left, ![r].step = "send"]
  BY DEF Record
<1>6. \A f \in left : f \in tick[r].batch /\ f[1] \in Row /\ f[1] # e[1]
  BY <1>1, <1>2, <1>3 DEF TickOK
<1>7. left \subseteq tick[r].batch
  OBVIOUS
<1> HIDE DEF e, left, new
<1>8. /\ ext' \in [Row -> ExtType] /\ \A j \in Row : j # e[1] => ext'[j] = ext[j]
      /\ \A j \in Row : ext'[j].taken = ext[j].taken /\ (ext[j].state # "none" => ext'[j].state # "none")
      /\ \A j \in Row : ext'[j].state # "none" => ext[j].state # "none"
  BY <1>3, <1>4, <1>5 DEF SendInv, SendTypeOK
<1>9. /\ tick'[r] \in TickType /\ \A q \in Replica \ {r} : tick'[q] = tick[q]
      /\ \/ left = {} /\ tick'[r] = Idle
         \/ left # {} /\ tick'[r].stage = "retry" /\ tick'[r].step = "send" /\ tick'[r].batch = left
  <2>1. Idle \in TickType
    BY DEF Idle, TickType, Stages
  <2>2. [tick[r] EXCEPT !.batch = left, !.step = "send"] \in TickType
    BY <1>2, <1>7 DEF TickType
  <2>3. CASE left = {}
    BY <1>5, <2>1, <2>3 DEF SendInv, SendTypeOK
  <2>4. CASE left # {}
    BY <1>1, <1>2, <1>5, <1>7, <2>4 DEF SendInv, SendTypeOK, TickType
  <2>5. QED
    BY <2>3, <2>4
<1>10. tick' \in [Replica -> TickType]
  BY <1>5, <1>9 DEF SendInv, SendTypeOK
<1>11. TickOK(r)'
  <2>1. CASE left = {}
    BY <1>9, <2>1 DEF TickOK, Idle
  <2>2. CASE left # {}
    <3>1. tick'[r].stage = "retry" /\ tick'[r].step = "send" /\ tick'[r].batch = left
      BY <1>9, <2>2
    <3>2. left \subseteq Row \X Nat /\ \A f, g \in left : f[1] = g[1] => f = g
      BY <1>1, <1>2, <1>7 DEF TickOK
    <3>3. ASSUME NEW f \in left
          PROVE  ext'[f[1]].state # "none" /\ (spent'.overlap = 0 => ext'[f[1]].state = "failed")
      <4>1. ext'[f[1]] = ext[f[1]] /\ f \in tick[r].batch
        BY <1>6, <1>8
      <4>2. QED
        BY <1>1, <1>2, <4>1 DEF TickOK
    <3>4. QED
      BY <2>2, <3>1, <3>2, <3>3 DEF TickOK
  <2>3. QED
    BY <2>1, <2>2
<1>12. SendTypeOK' /\ Marked'
  BY <1>1, <1>8, <1>10 DEF SendInv, SendTypeOK, Marked
<1>13. SendInv'
  BY <1>1, <1>8, <1>9, <1>11, <1>12, TickSends
<1>14. QED
  BY <1>13

-----------------------------------------------------------------------------
(* Ticks that begin and are cut short *)

LEMMA BeginSends == ASSUME SendInv, NEW r \in Replica, BeginTick(r) PROVE SendInv'
<1> DEFINE others == {q \in Replica \ {r} : tick[q].stage # "idle"}
<1>1. /\ tick' = [tick EXCEPT ![r] = [Idle EXCEPT !.stage = "presence", !.step = "choose"]]
      /\ spent' = [spent EXCEPT !.overlap = @ + Cardinality(others)]
      /\ UNCHANGED <<row, ext>>
  BY DEF BeginTick
<1>2. others \subseteq Replica
  OBVIOUS
<1>3. IsFiniteSet(others) /\ Cardinality(others) \in Nat /\ (Cardinality(others) = 0 => others = {})
  BY <1>2, OutboxAssumption, FS_Subset, FS_CardinalityType, FS_EmptySet
<1>4. /\ [Idle EXCEPT !.stage = "presence", !.step = "choose"] \in TickType
      /\ [Idle EXCEPT !.stage = "presence", !.step = "choose"].step = "choose"
  BY DEF Idle, TickType, Stages
<1>5. /\ tick' \in [Replica -> TickType] /\ tick'[r].step = "choose"
      /\ \A q \in Replica \ {r} : tick'[q] = tick[q]
  BY <1>1, <1>4 DEF SendInv, SendTypeOK
<1>6. /\ spent' \in [cut : Nat, lost : Nat, overlap : Nat, move : Nat]
      /\ spent'.overlap = spent.overlap + Cardinality(others)
  <2> DEFINE n == spent.overlap + Cardinality(others)
  <2>1. spent \in [cut : Nat, lost : Nat, overlap : Nat, move : Nat] /\ n \in Nat
    BY <1>3 DEF SendInv, SendTypeOK
  <2>2. spent' = [spent EXCEPT !.overlap = n]
    BY <1>1
  <2> HIDE DEF n
  <2>3. spent' \in [cut : Nat, lost : Nat, overlap : Nat, move : Nat] /\ spent'.overlap = n
    BY <2>1, <2>2
  <2>4. QED
    BY <2>3 DEF n
<1>7. spent'.overlap = 0 => spent.overlap = 0 /\ \A q \in Replica \ {r} : tick[q].stage = "idle"
  <2>1. spent.overlap \in Nat
    BY DEF SendInv, SendTypeOK
  <2>2. spent'.overlap = 0 => spent.overlap = 0 /\ others = {}
    BY <1>3, <1>6, <2>1
  <2>3. QED
    BY <2>2
<1>8. Alone'
  BY <1>5, <1>7 DEF Alone
<1>9. TickOK(r)'
  BY <1>5 DEF TickOK
<1>10. ASSUME NEW q \in Replica \ {r} PROVE TickOK(q)'
  BY <1>1, <1>5, <1>7 DEF TickOK, SendInv
<1>11. SendTypeOK' /\ Marked'
  BY <1>1, <1>5, <1>6 DEF SendInv, SendTypeOK, Marked
<1>12. QED
  BY <1>1, <1>8, <1>9, <1>10, <1>11 DEF SendInv

LEMMA SpendKeeps ==
  ASSUME SendInv, NEW what \in {"cut", "lost", "move"}, NEW limit, Spend(what, limit)
  PROVE  spent' \in [cut : Nat, lost : Nat, overlap : Nat, move : Nat] /\ spent'.overlap = spent.overlap
  BY DEF Spend, SendInv, SendTypeOK

LEMMA CutSends == ASSUME SendInv, NEW r \in Replica, TimeOut(r) \/ Crash(r) PROVE SendInv'
<1>1. Idle \in TickType /\ Idle.step = "none"
  BY DEF Idle, TickType, Stages
<1>2. tick[r].stage \in Stages /\ tick[r].stage # "idle" /\ UNCHANGED <<row, ext>>
  BY DEF TimeOut, Crash, SendInv, SendTypeOK, TickType
<1>3. spent' \in [cut : Nat, lost : Nat, overlap : Nat, move : Nat] /\ spent'.overlap = spent.overlap
  BY SpendKeeps DEF TimeOut, Crash
<1>4. Enter(r, "interrupt") \/ Enter(r, "retry") \/ tick' = [tick EXCEPT ![r] = Idle]
  BY <1>2 DEF TimeOut, Crash, Stages, Sending
<1>5. CASE Enter(r, "interrupt") \/ Enter(r, "retry")
  BY <1>2, <1>3, <1>5, EnterSends DEF Stages, Sending
<1>6. CASE tick' = [tick EXCEPT ![r] = Idle]
  <2>1. /\ tick' \in [Replica -> TickType] /\ tick'[r].step = "none"
        /\ \A q \in Replica \ {r} : tick'[q] = tick[q]
    BY <1>1, <1>6 DEF SendInv, SendTypeOK
  <2>2. QED
    BY <1>2, <1>3, <2>1, GoesOn
<1>7. QED
  BY <1>4, <1>5, <1>6

-----------------------------------------------------------------------------
(* Rows inserted, committed and aged *)

LEMMA RowsMark ==
  ASSUME OutboxInv, SendInv, (\E i \in Row : Add(i) \/ LookFor(i) \/ Commit(i) \/ Overdue(i)) \/ Later
  PROVE  MarksStay
<1>1. \A i \in Row : row[i] \in RowType
  BY DEF OutboxInv, OutboxTypeOK
<1>2. ASSUME NEW i \in Row, Add(i) \/ LookFor(i) PROVE MarksStay
  <2>1. row[i].state # "in" /\ \A j \in Row \ {i} : row'[j] = row[j]
    BY <1>2 DEF Add, LookFor, OutboxInv, OutboxTypeOK
  <2>2. QED
    BY <2>1 DEF MarksStay
<1>3. ASSUME NEW i \in Row, Commit(i) PROVE MarksStay
  <2>1. ASSUME NEW x \in RowType
        PROVE  /\ [x EXCEPT !.by = i].state = x.state /\ [x EXCEPT !.by = i].channel = x.channel
               /\ [x EXCEPT !.state = "in", !.stale = {}, !.turn = Turn].state = "in"
               /\ [x EXCEPT !.state = "in", !.stale = {}, !.turn = Turn].channel = x.channel
    BY DEF RowType
  <2>2. QED
    BY <1>1, <1>3, <2>1 DEF Commit, MarksStay
<1>4. ASSUME NEW i \in Row, Overdue(i) PROVE MarksStay
  <2>1. \A x \in RowType : [x EXCEPT !.late = TRUE].state = x.state /\ [x EXCEPT !.late = TRUE].channel = x.channel
    BY DEF RowType
  <2>2. row' = [row EXCEPT ![i] = [row[i] EXCEPT !.late = TRUE]]
    BY <1>4 DEF Overdue
  <2>3. QED
    BY <1>1, <2>1, <2>2 DEF MarksStay, OutboxInv, OutboxTypeOK
<1>5. CASE Later
  <2>1. \A x \in RowType : [x EXCEPT !.at = "before"].state = x.state /\ [x EXCEPT !.at = "before"].channel = x.channel
    BY DEF RowType
  <2>2. QED
    BY <1>1, <1>5, <2>1 DEF Later, MarksStay
<1>6. QED
  BY <1>2, <1>3, <1>4, <1>5

LEMMA SendStep == OutboxInv /\ SendInv /\ [Next]_vars => SendInv'
<1> SUFFICES ASSUME OutboxInv, SendInv, [Next]_vars PROVE SendInv'
  OBVIOUS
<1>1. OutboxTypeOK /\ spent \in [cut : Nat, lost : Nat, overlap : Nat, move : Nat]
  BY DEF OutboxInv, SendInv, SendTypeOK
<1>2. CASE (\E i \in Row : Add(i) \/ LookFor(i) \/ Commit(i) \/ Overdue(i)) \/ Later
  <2>1. UNCHANGED <<ext, tick, spent>>
    BY <1>2 DEF Add, LookFor, Commit, Overdue, Later
  <2>2. QED
    BY <1>1, <1>2, <2>1, RowsMark, AsideSends DEF MarksStay
<1>3. CASE LoseLease \/ ComeOrGo \/ LongGone \/ (\E r \in Replica : TakeLease(r)) \/ UNCHANGED vars
  <2>1. UNCHANGED <<ext, tick, row>>
    BY <1>3 DEF LoseLease, ComeOrGo, LongGone, TakeLease, vars
  <2>2. spent' \in [cut : Nat, lost : Nat, overlap : Nat, move : Nat] /\ spent'.overlap = spent.overlap
    BY <1>1, <1>3, SpendKeeps DEF LoseLease, ComeOrGo, LongGone, TakeLease, vars
  <2>3. QED
    BY <2>1, <2>2, AsideSends
<1>4. ASSUME NEW r \in Replica, BeginTick(r) \/ Stage(r) \/ TimeOut(r) \/ Crash(r)
      PROVE  SendInv'
  BY <1>1, <1>4, BeginSends, CutSends, PresenceSends, FlushSends, NoDigestSends, MarkSends, RetrySends,
     ResendSends, RecordSends DEF Stage
<1>5. QED
  BY <1>2, <1>3, <1>4 DEF Next

-----------------------------------------------------------------------------
(* A row that is shown again was paid for *)

Active == {r \in Replica : tick[r].stage # "idle"}

\* the ticks that have shown row i and not marked it yet
Holders(i) == {r \in Replica : tick[r].step = "mark" /\ tick[r].stage \in Sending /\ i \in tick[r].batch}

\* As long as a row is pending, each time it was shown is that of a tick that is to
\* mark it, or of one that was cut short.  Once it is marked it is not shown again.
Paid(i) ==
  /\ row[i].state # "in" => toasts[i] = 0
  /\ Pending(i) => toasts[i] <= spent.cut + Cardinality(Holders(i))
  /\ toasts[i] <= 1 + spent.cut + spent.overlap

\* Every tick but one began while another went on.
PaidInv ==
  /\ toasts \in [Row -> Nat]
  /\ Cardinality(Active) <= 1 + spent.overlap
  /\ \A i \in Row : Paid(i)

LEMMA TicksFinite ==
  /\ IsFiniteSet(Active) /\ Cardinality(Active) \in Nat
  /\ \A i : IsFiniteSet(Holders(i)) /\ Cardinality(Holders(i)) \in Nat
  /\ IsFiniteSet(Active') /\ Cardinality(Active') \in Nat
  /\ \A i : IsFiniteSet(Holders(i)') /\ Cardinality(Holders(i)') \in Nat
<1>1. /\ Active \in SUBSET Replica /\ \A i : Holders(i) \in SUBSET Replica
      /\ Active' \in SUBSET Replica /\ \A i : Holders(i)' \in SUBSET Replica
  BY DEF Active, Holders
<1>2. QED
  BY <1>1, OutboxAssumption, FS_Subset, FS_CardinalityType

LEMMA HoldersActive == \A i : Cardinality(Holders(i)') <= Cardinality(Active')
<1>1. \A i : Holders(i)' \in SUBSET Active'
  BY DEF Holders, Active, Sending
<1>2. QED
  BY <1>1, TicksFinite, FS_Subset

LEMMA PaidInit == Init => PaidInv
<1> SUFFICES ASSUME Init PROVE PaidInv
  OBVIOUS
<1>1. Active = {}
  BY DEF Init, Active, Idle
<1>2. /\ toasts \in [Row -> Nat] /\ \A i \in Row : toasts[i] = 0 /\ row[i].state = "none"
      /\ spent.cut = 0 /\ spent.overlap = 0
  BY DEF Init, NoRow
<1>3. Cardinality(Active) = 0
  BY <1>1, FS_EmptySet
<1>4. \A i \in Row : Paid(i)
  BY <1>2 DEF Paid, Pending
<1>5. QED
  BY <1>2, <1>3, <1>4 DEF PaidInv

\* A step that shows nothing
LEMMA QuietPays ==
  ASSUME PaidInv, SendTypeOK, SendTypeOK', UNCHANGED toasts,
         spent'.cut >= spent.cut, spent'.overlap >= spent.overlap,
         Cardinality(Active') <= 1 + spent'.overlap,
         \A i \in Row : row[i].state = "in" => row'[i].state = "in",
         \A i \in Row : Pending(i)' =>
           \/ row[i].state # "in"
           \/ Pending(i) /\ spent.cut + Cardinality(Holders(i)) <= spent'.cut + Cardinality(Holders(i)')
  PROVE  PaidInv'
<1>1. ASSUME NEW i \in Row PROVE Paid(i)'
  <2>1. /\ toasts[i] \in Nat /\ Paid(i) /\ toasts'[i] = toasts[i]
        /\ spent.cut \in Nat /\ spent.overlap \in Nat /\ spent'.cut \in Nat /\ spent'.overlap \in Nat
    BY DEF PaidInv, SendTypeOK
  <2>2. row'[i].state # "in" => toasts'[i] = 0
    BY <2>1 DEF Paid
  <2>3. toasts'[i] <= 1 + spent'.cut + spent'.overlap
    BY <2>1 DEF Paid
  <2>4. Cardinality(Holders(i)) \in Nat /\ Cardinality(Holders(i)') \in Nat
    BY TicksFinite
  <2>5. Pending(i)' => toasts'[i] <= spent'.cut + Cardinality(Holders(i)')
    BY <2>1, <2>4 DEF Paid
  <2>6. QED
    BY <2>2, <2>3, <2>5 DEF Paid
<1>2. toasts' \in [Row -> Nat]
  BY DEF PaidInv
<1>3. QED
  BY <1>1, <1>2 DEF PaidInv

\* A step that leaves the ticks alone
LEMMA RestPays ==
  ASSUME PaidInv, SendTypeOK, SendTypeOK', UNCHANGED <<toasts, tick>>,
         spent'.cut = spent.cut, spent'.overlap = spent.overlap,
         \A i \in Row : row[i].state = "in" => row'[i].state = "in",
         \A i \in Row : Pending(i)' => row[i].state # "in" \/ Pending(i)
  PROVE  PaidInv'
<1>1. Active' = Active /\ \A i : Holders(i)' = Holders(i)
  BY DEF Active, Holders
<1>2. Cardinality(Active') <= 1 + spent'.overlap
  BY <1>1 DEF PaidInv
<1>3. spent.cut \in Nat /\ spent.overlap \in Nat /\ \A i : Cardinality(Holders(i)) \in Nat
  BY TicksFinite DEF SendTypeOK
<1>4. \A i : spent.cut + Cardinality(Holders(i)) <= spent'.cut + Cardinality(Holders(i)')
  BY <1>1, <1>3
<1>5. spent'.cut >= spent.cut /\ spent'.overlap >= spent.overlap
  BY <1>3
<1>6. QED
  BY <1>2, <1>4, <1>5, QuietPays

\* What the other ticks hold stays held.
LEMMA OthersHold ==
  ASSUME NEW r \in Replica, \A q \in Replica \ {r} : tick'[q] = tick[q], tick[r].stage # "idle"
  PROVE  /\ Cardinality(Active') <= Cardinality(Active)
         /\ \A i : Cardinality(Holders(i)) <= Cardinality(Holders(i)') + 1
         /\ \A i : r \notin Holders(i) => Cardinality(Holders(i)) <= Cardinality(Holders(i)')
<1>1. Active' \in SUBSET Active
  BY DEF Active
<1>2. \A i : Holders(i) \ {r} \in SUBSET Holders(i)'
  BY DEF Holders
<1>3. \A i : Cardinality(Holders(i) \ {r}) <= Cardinality(Holders(i)')
  BY <1>2, TicksFinite, FS_Subset
<1>4. \A i : Cardinality(Holders(i) \ {r}) = IF r \in Holders(i) THEN Cardinality(Holders(i)) - 1
                                             ELSE Cardinality(Holders(i))
  BY TicksFinite, FS_RemoveElement
<1>5. ASSUME NEW i
      PROVE  /\ Cardinality(Holders(i)) <= Cardinality(Holders(i)') + 1
             /\ r \notin Holders(i) => Cardinality(Holders(i)) <= Cardinality(Holders(i)')
  <2>1. Cardinality(Holders(i)) \in Nat /\ Cardinality(Holders(i)') \in Nat
    BY TicksFinite
  <2>2. /\ Cardinality(Holders(i) \ {r}) <= Cardinality(Holders(i)')
        /\ Cardinality(Holders(i) \ {r}) = IF r \in Holders(i) THEN Cardinality(Holders(i)) - 1
                                           ELSE Cardinality(Holders(i))
    BY <1>3, <1>4
  <2>3. QED
    BY <2>1, <2>2
<1>6. Cardinality(Active') <= Cardinality(Active)
  BY <1>1, TicksFinite, FS_Subset
<1>7. QED
  BY <1>5, <1>6

\* A step of the tick of r that shows nothing, and lets go of no pending row unless
\* the tick is cut short
LEMMA TickPays ==
  ASSUME PaidInv, SendTypeOK, SendTypeOK', UNCHANGED toasts, NEW r \in Replica,
         tick[r].stage # "idle", \A q \in Replica \ {r} : tick'[q] = tick[q],
         spent'.overlap = spent.overlap,
         \A i \in Row : row[i].state = "in" => row'[i].state = "in",
         \A i \in Row : Pending(i)' => row[i].state # "in" \/ Pending(i),
         \/ spent'.cut = spent.cut + 1
         \/ spent'.cut = spent.cut /\ \A i \in Row : Pending(i)' => r \notin Holders(i)
  PROVE  PaidInv'
<1>1. spent.cut \in Nat /\ spent.overlap \in Nat /\ spent'.cut \in Nat
  BY DEF SendTypeOK
<1>2. Cardinality(Active') <= 1 + spent'.overlap
  BY <1>1, OthersHold, TicksFinite DEF PaidInv
<1>3. ASSUME NEW i \in Row, Pending(i)'
      PROVE  spent.cut + Cardinality(Holders(i)) <= spent'.cut + Cardinality(Holders(i)')
  <2>1. Cardinality(Holders(i)) \in Nat /\ Cardinality(Holders(i)') \in Nat
    BY TicksFinite
  <2>2. /\ Cardinality(Holders(i)) <= Cardinality(Holders(i)') + 1
        /\ r \notin Holders(i) => Cardinality(Holders(i)) <= Cardinality(Holders(i)')
    BY OthersHold
  <2>3. QED
    BY <1>1, <1>3, <2>1, <2>2
<1>4. spent'.cut >= spent.cut /\ spent'.overlap >= spent.overlap
  BY <1>1
<1>5. QED
  BY <1>2, <1>3, <1>4, QuietPays

-----------------------------------------------------------------------------
(* The steps, one kind after the other *)

\* A row that is in stays in; one that becomes pending was not in.
RowsPend ==
  \A i \in Row : /\ row[i].state = "in" => row'[i].state = "in"
                 /\ Pending(i)' => row[i].state # "in" \/ Pending(i)

LEMMA SameFields ==
  ASSUME \A i \in Row : row'[i].state = row[i].state /\ row'[i].channel = row[i].channel
  PROVE  RowsPend
  BY DEF RowsPend, Pending

LEMMA RowFields ==
  ASSUME NEW x \in RowType
  PROVE  /\ [x EXCEPT !.tier = 2].state = x.state /\ [x EXCEPT !.tier = 2].channel = x.channel
         /\ [x EXCEPT !.late = TRUE].state = x.state /\ [x EXCEPT !.late = TRUE].channel = x.channel
         /\ [x EXCEPT !.at = "before"].state = x.state /\ [x EXCEPT !.at = "before"].channel = x.channel
         /\ \A n : [x EXCEPT !.by = n].state = x.state /\ [x EXCEPT !.by = n].channel = x.channel
  BY DEF RowType

LEMMA DemotePends == ASSUME OutboxTypeOK, NEW rows, Demote(rows) PROVE RowsPend
<1>1. \A i \in Row : row'[i].state = row[i].state /\ row'[i].channel = row[i].channel
  BY RowFields DEF Demote, OutboxTypeOK
<1>2. QED
  BY <1>1, SameFields

LEMMA RowsPends ==
  ASSUME OutboxTypeOK, (\E i \in Row : Add(i) \/ LookFor(i) \/ Commit(i) \/ Overdue(i)) \/ Later
  PROVE  RowsPend
<1>1. \A i \in Row : row[i] \in RowType
  BY DEF OutboxTypeOK
<1>2. ASSUME NEW i \in Row, Add(i) \/ LookFor(i) PROVE RowsPend
  <2>1. row[i].state # "in" /\ \A j \in Row \ {i} : row'[j] = row[j]
    BY <1>2 DEF Add, LookFor, OutboxTypeOK
  <2>2. QED
    BY <2>1 DEF RowsPend, Pending
<1>3. ASSUME NEW i \in Row, Commit(i) PROVE RowsPend
  <2>1. row[i].state = "open"
    BY <1>3 DEF Commit
  <2>2. \A j \in Row \ {i} : row'[j].state = row[j].state /\ row'[j].channel = row[j].channel
    BY <1>1, <1>3, RowFields DEF Commit
  <2>3. QED
    BY <2>1, <2>2 DEF RowsPend, Pending
<1>4. ASSUME NEW i \in Row, Overdue(i) PROVE RowsPend
  <2>1. row' = [row EXCEPT ![i] = [row[i] EXCEPT !.late = TRUE]]
    BY <1>4 DEF Overdue
  <2>2. \A j \in Row : row'[j].state = row[j].state /\ row'[j].channel = row[j].channel
    BY <1>1, <2>1, RowFields DEF OutboxTypeOK
  <2>3. QED
    BY <2>2, SameFields
<1>5. CASE Later
  <2>1. \A j \in Row : row'[j].state = row[j].state /\ row'[j].channel = row[j].channel
    BY <1>1, <1>5, RowFields DEF Later
  <2>2. QED
    BY <2>1, SameFields
<1>6. QED
  BY <1>2, <1>3, <1>4, <1>5

\* What a stage shows it holds.
LEMMA ShownPays ==
  ASSUME PaidInv, SendTypeOK, SendTypeOK', NEW r \in Replica, tick[r].step = "choose",
         tick[r].stage \in Sending, NEW t, NEW batch \in SUBSET Queue(t), Chosen(r, batch),
         UNCHANGED spent, RowsPend
  PROVE  PaidInv'
<1> DEFINE to == tick[r].stage
<1>1. toasts' = [i \in Row |-> toasts[i] + IF i \in batch THEN 1 ELSE 0]
  BY DEF Chosen, Send
<1>2. batch # {} => tick'[r].stage = to /\ tick'[r].step = "mark" /\ tick'[r].batch = batch
  BY DEF Chosen, Send, SendTypeOK
<1>3. \A q \in Replica \ {r} : tick'[q] = tick[q]
  BY DEF Chosen, Send, SendTypeOK
<1>4. tick[r].stage # "idle" /\ \A i : r \notin Holders(i)
  BY DEF Sending, Holders
<1>5. spent.cut \in Nat /\ spent.overlap \in Nat
  BY DEF SendTypeOK
<1>6. Cardinality(Active') <= 1 + spent'.overlap
  BY <1>3, <1>4, <1>5, OthersHold, TicksFinite DEF PaidInv
<1>7. ASSUME NEW i \in Row, i \notin batch PROVE Paid(i)'
  <2>1. toasts'[i] = toasts[i] /\ toasts[i] \in Nat /\ Paid(i)
    BY <1>1, <1>7 DEF PaidInv
  <2>2. /\ Cardinality(Holders(i)) <= Cardinality(Holders(i)')
        /\ Cardinality(Holders(i)) \in Nat /\ Cardinality(Holders(i)') \in Nat
    BY <1>3, <1>4, OthersHold, TicksFinite
  <2>3. row'[i].state # "in" => row[i].state # "in"
    BY DEF RowsPend
  <2>4. Pending(i)' => row[i].state # "in" \/ Pending(i)
    BY DEF RowsPend
  <2>5. QED
    BY <1>5, <2>1, <2>2, <2>3, <2>4 DEF Paid
<1>8. ASSUME NEW i \in batch PROVE Paid(i)'
  <2>1. i \in Row /\ Pending(i) /\ row[i].state = "in"
    BY DEF Queue, Pending
  <2>2. toasts'[i] = toasts[i] + 1 /\ toasts[i] \in Nat /\ Paid(i)
    BY <1>1, <2>1 DEF PaidInv
  <2>3. Holders(i)' = Holders(i) \cup {r}
    BY <1>2, <1>3 DEF Holders
  <2>4. Cardinality(Holders(i)') = Cardinality(Holders(i)) + 1 /\ Cardinality(Holders(i)) \in Nat
    BY <1>4, <2>3, TicksFinite, FS_AddElement
  <2>5. toasts'[i] <= spent.cut + Cardinality(Holders(i)')
    BY <1>5, <2>1, <2>2, <2>4 DEF Paid
  <2>6. Cardinality(Holders(i)') <= 1 + spent.overlap
    BY <1>5, <1>6, <2>4, HoldersActive, TicksFinite
  <2>7. toasts'[i] <= 1 + spent.cut + spent.overlap
    BY <1>5, <2>2, <2>4, <2>5, <2>6
  <2>8. row'[i].state = "in"
    BY <2>1 DEF RowsPend
  <2>9. QED
    BY <2>5, <2>7, <2>8 DEF Paid
<1>9. toasts' \in [Row -> Nat]
  BY <1>1 DEF PaidInv
<1>10. QED
  BY <1>6, <1>7, <1>8, <1>9 DEF PaidInv

LEMMA FlushPays ==
  ASSUME PaidInv, OutboxTypeOK, SendTypeOK, SendTypeOK', NEW r \in Replica,
         Return(r) \/ Interrupts(r) \/ Notifies(r) \/ Digest(r)
  PROVE  PaidInv'
<1>1. CASE Return(r)
  <2>1. /\ tick[r].stage \in Sending /\ tick[r].step = "choose"
        /\ Chosen(r, Queue(1)) /\ UNCHANGED <<row, spent>>
    BY <1>1 DEF Return, At, Sending
  <2>2. QED
    BY <2>1, SameFields, ShownPays
<1>2. CASE Interrupts(r)
  <2>1. tick[r].stage \in Sending /\ tick[r].step = "choose" /\ UNCHANGED spent
    BY <1>2 DEF Interrupts, At, Sending
  <2>2. PICK batch \in SUBSET Queue(0) : Demote(Queue(0) \ batch) /\ Chosen(r, batch)
    BY <1>2 DEF Interrupts, UpTo
  <2>3. RowsPend
    BY <2>2, DemotePends
  <2>4. QED
    BY <2>1, <2>2, <2>3, ShownPays
<1>3. CASE Notifies(r)
  <2> DEFINE due == {i \in Queue(1) : presence = "active" \/ row[i].late}
  <2>1. tick[r].stage \in Sending /\ tick[r].step = "choose" /\ UNCHANGED spent
    BY <1>3 DEF Notifies, At, Sending
  <2>2. (Demote(due) /\ Chosen(r, {})) \/ (row' = row /\ Chosen(r, due))
    BY <1>3 DEF Notifies
  <2>3. due \in SUBSET Queue(1) /\ {} \in SUBSET Queue(1)
    OBVIOUS
  <2> HIDE DEF due
  <2>4. RowsPend
    BY <2>2, DemotePends, SameFields
  <2>5. QED
    BY <2>1, <2>2, <2>3, <2>4, ShownPays
<1>4. CASE Digest(r)
  <2>1. tick[r].stage \in Sending /\ tick[r].step = "choose" /\ UNCHANGED <<row, spent>>
    BY <1>4 DEF Digest, At, Sending
  <2>2. PICK some \in SUBSET {i \in Queue(2) : row[i].approval} :
          Chosen(r, (Queue(2) \ {i \in Queue(2) : row[i].approval}) \cup some)
    BY <1>4 DEF Digest, UpTo
  <2>3. (Queue(2) \ {i \in Queue(2) : row[i].approval}) \cup some \in SUBSET Queue(2)
    OBVIOUS
  <2>4. QED
    BY <2>1, <2>2, <2>3, SameFields, ShownPays
<1>5. QED
  BY <1>1, <1>2, <1>3, <1>4

\* What a tick marks is pending no more.
LEMMA MarkPays ==
  ASSUME PaidInv, OutboxTypeOK, SendInv, SendTypeOK', NEW r \in Replica, Mark(r)
  PROVE  PaidInv'
<1> DEFINE fresh == {i \in tick[r].batch : Pending(i)}
           c == Mode(tick[r].stage)
           t == Stamp
<1>1. /\ row' = [i \in Row |-> IF i \in fresh THEN [row[i] EXCEPT !.channel = c, !.at = t] ELSE row[i]]
      /\ Enter(r, After(tick[r].stage)) /\ UNCHANGED <<toasts, spent>>
  BY DEF Mark, Leave
<1>2. tick[r].stage # "idle" /\ tick[r].stage \in Sending
  BY DEF Mark, SendInv, SendTypeOK, TickOK, Sending
<1>3. c # "none"
  BY ModeTyped
<1>4. \A i : Pending(i) /\ i \notin fresh => i \notin tick[r].batch
  OBVIOUS
<1> HIDE DEF fresh, c, t
<1>5. \A i \in Row : /\ row'[i].state = row[i].state
                     /\ row'[i].channel = IF i \in fresh THEN c ELSE row[i].channel
  <2>1. \A i \in Row : [row[i] EXCEPT !.channel = c, !.at = t].state = row[i].state
                       /\ [row[i] EXCEPT !.channel = c, !.at = t].channel = c
    BY DEF OutboxTypeOK, RowType
  <2>2. QED
    BY <1>1, <2>1
<1>6. \A i \in Row : Pending(i)' => Pending(i) /\ i \notin fresh
  BY <1>3, <1>5 DEF Pending
<1>7. \A i \in Row : Pending(i)' => r \notin Holders(i)
  BY <1>4, <1>6 DEF Holders
<1>8. \A q \in Replica \ {r} : tick'[q] = tick[q]
  BY <1>1 DEF Enter, SendInv, SendTypeOK
<1>9. spent'.cut = spent.cut /\ spent'.overlap = spent.overlap
  BY <1>1
<1>10. QED
  BY <1>1, <1>2, <1>5, <1>6, <1>7, <1>8, <1>9, TickPays DEF SendInv

\* The other stages show nothing and hold nothing.
LEMMA OtherStagesPay ==
  ASSUME PaidInv, SendInv, SendTypeOK', NEW r \in Replica,
         Presence(r) \/ NoDigest(r) \/ Retry(r) \/ Resend(r) \/ Record(r)
  PROVE  PaidInv'
<1>1. UNCHANGED <<row, toasts, spent>>
  BY DEF Presence, NoDigest, Retry, Resend, Record
<1>2. tick[r].stage # "idle" /\ (tick[r].step = "choose" \/ tick[r].stage = "retry")
  BY DEF Presence, NoDigest, Retry, Resend, Record, At
<1>3. \A q \in Replica \ {r} : tick'[q] = tick[q]
  BY DEF Presence, NoDigest, Retry, Resend, Record, Enter, Leave, SendInv, SendTypeOK
<1>4. \A i \in Row : r \notin Holders(i)
  BY <1>2 DEF Holders, Sending
<1>5. RowsPend
  BY <1>1, SameFields
<1>6. spent'.cut = spent.cut /\ spent'.overlap = spent.overlap
  BY <1>1
<1>7. QED
  BY <1>1, <1>2, <1>3, <1>4, <1>5, <1>6, TickPays DEF SendInv, RowsPend

LEMMA CutPays ==
  ASSUME PaidInv, SendInv, SendTypeOK', NEW r \in Replica, TimeOut(r) \/ Crash(r)
  PROVE  PaidInv'
<1>1. tick[r].stage # "idle" /\ UNCHANGED <<row, toasts>> /\ Spend("cut", MaxCut)
  BY DEF TimeOut, Crash
<1>2. tick[r].stage \in Stages
  BY DEF SendInv, SendTypeOK, TickType
<1>3. Enter(r, "interrupt") \/ Enter(r, "retry") \/ tick' = [tick EXCEPT ![r] = Idle]
  BY <1>1, <1>2 DEF TimeOut, Crash, Stages, Sending
<1>4. \A q \in Replica \ {r} : tick'[q] = tick[q]
  BY <1>3 DEF Enter, SendInv, SendTypeOK
<1>5. spent'.cut = spent.cut + 1 /\ spent'.overlap = spent.overlap
  BY <1>1 DEF Spend, SendInv, SendTypeOK
<1>6. RowsPend
  BY <1>1, SameFields
<1>7. QED
  BY <1>1, <1>4, <1>5, <1>6, TickPays DEF SendInv, RowsPend

\* A tick that begins beside others is an overlap for each of them.
LEMMA BeginPays ==
  ASSUME PaidInv, SendInv, SendInv', NEW r \in Replica, BeginTick(r)
  PROVE  PaidInv'
<1> DEFINE others == {q \in Replica \ {r} : tick[q].stage # "idle"}
<1>1. /\ tick[r].stage = "idle" /\ UNCHANGED <<row, toasts>>
      /\ spent' = [spent EXCEPT !.overlap = @ + Cardinality(others)]
      /\ tick' = [tick EXCEPT ![r] = [Idle EXCEPT !.stage = "presence", !.step = "choose"]]
  BY DEF BeginTick
<1>2. others = Active
  BY <1>1 DEF Active
<1>3. /\ \A q \in Replica \ {r} : tick'[q] = tick[q]
      /\ tick'[r] = [Idle EXCEPT !.stage = "presence", !.step = "choose"]
  BY <1>1 DEF SendInv, SendTypeOK
<1>4. tick'[r].stage = "presence"
  BY <1>3 DEF Idle
<1>5. Active' = Active \cup {r} /\ r \notin Active
  BY <1>1, <1>3, <1>4 DEF Active
<1>6. Cardinality(Active') = Cardinality(Active) + 1
  BY <1>5, TicksFinite, FS_AddElement
<1> HIDE DEF others
<1>7. /\ spent'.cut = spent.cut /\ spent.cut \in Nat /\ spent.overlap \in Nat
      /\ spent'.overlap = spent.overlap + Cardinality(Active)
  BY <1>1, <1>2, TicksFinite DEF SendInv, SendTypeOK
<1>8. \A i : Holders(i) \in SUBSET Holders(i)'
  BY <1>1, <1>3 DEF Holders, Sending
<1>9. \A i : Cardinality(Holders(i)) <= Cardinality(Holders(i)')
  BY <1>8, TicksFinite, FS_Subset
<1>10. \A i : spent.cut + Cardinality(Holders(i)) <= spent'.cut + Cardinality(Holders(i)')
  BY <1>7, <1>9, TicksFinite
<1>11. /\ Cardinality(Active') <= 1 + spent'.overlap
       /\ spent'.cut >= spent.cut /\ spent'.overlap >= spent.overlap
  BY <1>6, <1>7, TicksFinite
<1>12. RowsPend
  BY <1>1, SameFields
<1>13. QED
  BY <1>1, <1>10, <1>11, <1>12, QuietPays DEF SendInv, RowsPend

LEMMA PaidStep == OutboxInv /\ SendInv /\ SendInv' /\ PaidInv /\ [Next]_vars => PaidInv'
<1> SUFFICES ASSUME OutboxInv, SendInv, SendInv', PaidInv, [Next]_vars PROVE PaidInv'
  OBVIOUS
<1>1. OutboxTypeOK /\ SendTypeOK /\ SendTypeOK'
  BY DEF OutboxInv, SendInv
<1>2. CASE (\E i \in Row : Add(i) \/ LookFor(i) \/ Commit(i) \/ Overdue(i)) \/ Later
  <2>1. UNCHANGED <<toasts, tick, spent>>
    BY <1>2 DEF Add, LookFor, Commit, Overdue, Later
  <2>2. RowsPend
    BY <1>1, <1>2, RowsPends
  <2>3. QED
    BY <1>1, <2>1, <2>2, RestPays DEF RowsPend
<1>3. CASE LoseLease \/ ComeOrGo \/ LongGone \/ (\E r \in Replica : TakeLease(r)) \/ UNCHANGED vars
  <2>1. UNCHANGED <<toasts, tick, row>>
    BY <1>3 DEF LoseLease, ComeOrGo, LongGone, TakeLease, vars
  <2>2. spent'.cut = spent.cut /\ spent'.overlap = spent.overlap
    BY <1>1, <1>3 DEF LoseLease, ComeOrGo, LongGone, TakeLease, vars, Spend, SendTypeOK
  <2>3. RowsPend
    BY <2>1, SameFields
  <2>4. QED
    BY <1>1, <2>1, <2>2, <2>3, RestPays DEF RowsPend
<1>4. ASSUME NEW r \in Replica, BeginTick(r) \/ Stage(r) \/ TimeOut(r) \/ Crash(r)
      PROVE  PaidInv'
  BY <1>1, <1>4, BeginPays, CutPays, FlushPays, MarkPays, OtherStagesPay DEF Stage
<1>5. QED
  BY <1>2, <1>3, <1>4 DEF Next

\* RepeatsArePaid of Outbox: the user sees a row once, and once more at most for each
\* tick that was cut short between the dispatch and its commit (_deliver_batch), and
\* for each tick of a replica that began while another's still went on (_tick).
THEOREM ShownOnceUnlessCut == Spec => []RepeatsArePaid
<1>1. PaidInv => RepeatsArePaid
  BY DEF PaidInv, Paid, RepeatsArePaid
<1>2. QED
  BY <1>1, OutboxInit, OutboxStep, SendInit, SendStep, PaidInit, PaidStep, PTL DEF Spec

-----------------------------------------------------------------------------
(* What a channel takes again was paid for *)

\* The rows of which a tick has sent something that it has still to record
Holds(x, i) ==
  x.step = "mark" /\ IF x.stage = "retry" THEN i = First(x.batch)[1] ELSE i \in x.batch

Flying(i) == \E r \in Replica : tick[r].sent = "ok" /\ Holds(tick[r], i)

\* A row that a stage holds was never tried and is not marked.
HeldOK ==
  \A r \in Replica, i \in Row :
    tick[r].stage \in Sending /\ Holds(tick[r], i) => Pending(i) /\ ext[i].state = "none"

\* Each time the channel took the row but one, a tick was cut short; that one is
\* recorded, or about to be.
TakenOK(i) == ext[i].taken <= spent.cut + (IF ext[i].state = "ok" \/ Flying(i) THEN 1 ELSE 0)

TakenInv == spent.overlap = 0 => HeldOK /\ \A i \in Row : TakenOK(i)

LEMMA TakenInit == Init => TakenInv
  BY DEF Init, Idle, TakenInv, HeldOK, Holds, TakenOK

\* One, for what is recorded as taken and for what a tick is about to record.
Has(e, x, i) == IF e.state = "ok" \/ (x.sent = "ok" /\ Holds(x, i)) THEN 1 ELSE 0

LEMMA HasIs == \A e, x, i : Has(e, x, i) \in Nat
  BY DEF Has

\* Without overlap only the tick that goes on can have anything in hand.
LEMMA OneTick ==
  ASSUME SendInv, spent.overlap = 0, NEW r \in Replica, tick[r].stage # "idle",
         NEW q \in Replica, q # r
  PROVE  tick[q].stage = "idle" /\ \A i : ~Holds(tick[q], i)
<1>1. tick[q].stage = "idle" /\ TickOK(q)
  BY DEF SendInv, Alone
<1>2. QED
  BY <1>1 DEF TickOK, Holds, Sending

\* A step of the tick of r; what it has in hand before and after decides.
LEMMA TickTakes ==
  ASSUME SendInv, SendTypeOK', TakenInv, NEW r \in Replica, tick[r].stage # "idle",
         spent.overlap = 0, spent'.overlap = 0,
         \A q \in Replica \ {r} : tick'[q] = tick[q],
         \A i \in Row : tick'[r].stage \in Sending /\ Holds(tick'[r], i) => Pending(i)' /\ ext'[i].state = "none",
         \A i \in Row :
           ext'[i].taken + Has(ext[i], tick[r], i) + spent.cut
             <= ext[i].taken + Has(ext'[i], tick'[r], i) + spent'.cut
  PROVE  TakenInv'
<1>1. \A q \in Replica : q # r => /\ tick'[q] = tick[q] /\ tick[q].stage = "idle"
                                  /\ \A i : ~Holds(tick[q], i)
  BY OneTick
<1>2. HeldOK'
  BY <1>1 DEF HeldOK
<1>3. ASSUME NEW i \in Row PROVE TakenOK(i)'
  <2>1. Flying(i) <=> tick[r].sent = "ok" /\ Holds(tick[r], i)
    BY <1>1 DEF Flying
  <2>2. Flying(i)' <=> tick'[r].sent = "ok" /\ Holds(tick'[r], i)
    BY <1>1 DEF Flying, Holds
  <2>3. TakenOK(i)
    BY DEF TakenInv
  <2>4. /\ ext[i].taken \in Nat /\ ext'[i].taken \in Nat /\ spent.cut \in Nat /\ spent'.cut \in Nat
    BY DEF SendInv, SendTypeOK, ExtType
  <2>5. TakenOK(i) => ext[i].taken <= spent.cut + Has(ext[i], tick[r], i)
    BY <2>1 DEF TakenOK, Has
  <2>6. ext'[i].taken <= spent'.cut + Has(ext'[i], tick'[r], i) => TakenOK(i)'
    BY <2>2 DEF TakenOK, Has
  <2>7. Has(ext[i], tick[r], i) \in Nat /\ Has(ext'[i], tick'[r], i) \in Nat
    BY DEF Has
  <2>8. /\ ext'[i].taken + Has(ext[i], tick[r], i) + spent.cut
             <= ext[i].taken + Has(ext'[i], tick'[r], i) + spent'.cut
    OBVIOUS
  <2>9. QED
    BY <2>3, <2>4, <2>5, <2>6, <2>7, <2>8
<1>4. QED
  BY <1>2, <1>3 DEF TakenInv

\* A row that is pending stays so while nobody marks it.
StillPending == \A i \in Row : Pending(i) => Pending(i)'

\* A step that leaves ticks and entries alone
LEMMA AsideTakes ==
  ASSUME SendInv, TakenInv, UNCHANGED <<ext, tick>>, StillPending,
         spent'.overlap = 0 => spent.overlap = 0 /\ spent'.cut = spent.cut
  PROVE  TakenInv'
<1>1. SUFFICES ASSUME spent'.overlap = 0 PROVE HeldOK' /\ \A i \in Row : TakenOK(i)'
  BY DEF TakenInv
<1>2. HeldOK /\ \A i \in Row : TakenOK(i)
  BY <1>1 DEF TakenInv
<1>3. HeldOK'
  BY <1>2 DEF HeldOK, Holds, StillPending
<1>4. \A i \in Row : Flying(i)' <=> Flying(i)
  BY DEF Flying, Holds
<1>5. QED
  BY <1>1, <1>2, <1>3, <1>4 DEF TakenOK

LEMMA SameFieldsStill ==
  ASSUME \A i \in Row : row[i].state = "in" => row'[i].state = "in" /\ row'[i].channel = row[i].channel
  PROVE  StillPending
  BY DEF StillPending, Pending

LEMMA DemoteStill == ASSUME OutboxTypeOK, NEW rows, Demote(rows) PROVE StillPending
<1>1. \A i \in Row : row'[i].state = row[i].state /\ row'[i].channel = row[i].channel
  BY RowFields DEF Demote, OutboxTypeOK
<1>2. QED
  BY <1>1, SameFieldsStill

LEMMA RowsStill ==
  ASSUME OutboxTypeOK, (\E i \in Row : Add(i) \/ LookFor(i) \/ Commit(i) \/ Overdue(i)) \/ Later
  PROVE  StillPending
<1>1. \A i \in Row : row[i] \in RowType
  BY DEF OutboxTypeOK
<1>2. ASSUME NEW i \in Row, Add(i) \/ LookFor(i) PROVE StillPending
  <2>1. row[i].state # "in" /\ \A j \in Row \ {i} : row'[j] = row[j]
    BY <1>2 DEF Add, LookFor, OutboxTypeOK
  <2>2. QED
    BY <2>1, SameFieldsStill
<1>3. ASSUME NEW i \in Row, Commit(i) PROVE StillPending
  <2>1. row[i].state = "open"
    BY <1>3 DEF Commit
  <2>2. \A j \in Row \ {i} : row'[j].state = row[j].state /\ row'[j].channel = row[j].channel
    BY <1>1, <1>3, RowFields DEF Commit
  <2>3. QED
    BY <2>1, <2>2, SameFieldsStill
<1>4. ASSUME NEW i \in Row, Overdue(i) PROVE StillPending
  <2>1. row' = [row EXCEPT ![i] = [row[i] EXCEPT !.late = TRUE]]
    BY <1>4 DEF Overdue
  <2>2. \A j \in Row : row'[j].state = row[j].state /\ row'[j].channel = row[j].channel
    BY <1>1, <2>1, RowFields DEF OutboxTypeOK
  <2>3. QED
    BY <2>2, SameFieldsStill
<1>5. CASE Later
  <2>1. \A j \in Row : row'[j].state = row[j].state /\ row'[j].channel = row[j].channel
    BY <1>1, <1>5, RowFields DEF Later
  <2>2. QED
    BY <2>1, SameFieldsStill
<1>6. QED
  BY <1>2, <1>3, <1>4, <1>5

\* What a stage sends was never tried, and is in hand if the channel took it.
LEMMA ChosenTakes ==
  ASSUME SendInv, SendInv', TakenInv, NEW r \in Replica, tick[r].stage \in Sending,
         tick[r].step = "choose", NEW t, NEW batch \in SUBSET Queue(t),
         Chosen(r, batch), UNCHANGED spent, StillPending
  PROVE  TakenInv'
<1> SUFFICES ASSUME spent.overlap = 0 PROVE TakenInv'
  BY DEF TakenInv
<1> DEFINE to == tick[r].stage
<1>1. PICK result \in {"none", "ok", "failed"} :
        /\ ext' = [i \in Row |-> IF i \in batch /\ result = "ok"
                                 THEN [ext[i] EXCEPT !.taken = @ + 1] ELSE ext[i]]
        /\ tick' = [tick EXCEPT ![r] =
             IF batch = {} THEN [Idle EXCEPT !.stage = After(to), !.step = "choose"]
             ELSE [stage |-> to, step |-> "mark", batch |-> batch, sent |-> result]]
  BY ZenonT(30) DEF Chosen, Send
<1>2. \A i \in batch : i \in Row /\ Pending(i) /\ ext[i].state = "none"
  BY QueueIsNew DEF Queue
<1>3. \A q \in Replica \ {r} : tick'[q] = tick[q]
  BY <1>1 DEF SendInv, SendTypeOK
<1>4. \A i \in Row : /\ ext'[i].state = ext[i].state /\ ext[i].taken \in Nat
                     /\ ext'[i].taken = IF i \in batch /\ result = "ok" THEN ext[i].taken + 1
                                        ELSE ext[i].taken
  BY <1>1 DEF SendInv, SendTypeOK, ExtType
<1>5. \A i \in Row : ~Holds(tick[r], i)
  BY DEF Holds
<1>6. CASE batch = {}
  <2>1. tick'[r].step = "choose"
    BY <1>1, <1>6 DEF SendInv, SendTypeOK, Idle
  <2>2. \A i \in Row : ~Holds(tick'[r], i)
    BY <2>1 DEF Holds
  <2>3. \A i \in Row : ext'[i].taken = ext[i].taken /\ ext'[i].state = ext[i].state
    BY <1>4, <1>6
  <2>4. \A i \in Row : Has(ext[i], tick[r], i) = Has(ext'[i], tick'[r], i)
    BY <1>5, <2>2, <2>3 DEF Has
  <2>5. \A i \in Row :
           ext'[i].taken + Has(ext[i], tick[r], i) + spent.cut
             <= ext[i].taken + Has(ext'[i], tick'[r], i) + spent'.cut
    BY <1>4, <2>3, <2>4, HasIs DEF SendInv, SendTypeOK
  <2>6. QED
    BY <1>3, <2>2, <2>5, TickTakes DEF SendInv, Sending
<1>7. CASE batch # {}
  <2>1. /\ tick'[r].stage = to /\ tick'[r].step = "mark" /\ tick'[r].batch = batch
        /\ tick'[r].sent = result
    BY <1>1, <1>7 DEF SendInv, SendTypeOK
  <2>2. \A i \in Row : Holds(tick'[r], i) <=> i \in batch
    BY <2>1 DEF Holds, Sending
  <2>3. \A i \in Row : i \in batch => Pending(i)' /\ ext'[i].state = "none"
    BY <1>2, <1>4 DEF StillPending
  <2>4. spent.cut \in Nat
    BY DEF SendInv, SendTypeOK
  <2>5. \A i \in Row :
           ext'[i].taken + Has(ext[i], tick[r], i) + spent.cut
             <= ext[i].taken + Has(ext'[i], tick'[r], i) + spent'.cut
    BY <1>1, <1>2, <1>4, <1>5, <2>1, <2>2, <2>4 DEF Has
  <2>6. QED
    BY <1>3, <2>2, <2>3, <2>5, TickTakes DEF SendInv, Sending
<1>8. QED
  BY <1>6, <1>7

LEMMA FlushTakes ==
  ASSUME SendInv, SendInv', TakenInv, OutboxTypeOK, NEW r \in Replica,
         Return(r) \/ Interrupts(r) \/ Notifies(r) \/ Digest(r)
  PROVE  TakenInv'
<1>1. tick[r].stage \in Sending /\ tick[r].step = "choose" /\ UNCHANGED spent
  BY DEF Return, Interrupts, Notifies, Digest, At, Sending
<1>2. CASE Return(r)
  BY <1>1, <1>2, ChosenTakes, SameFieldsStill DEF Return
<1>3. CASE Interrupts(r)
  <2>1. PICK batch \in SUBSET Queue(0) : Demote(Queue(0) \ batch) /\ Chosen(r, batch)
    BY <1>3 DEF Interrupts, UpTo
  <2>2. QED
    BY <1>1, <2>1, DemoteStill, ChosenTakes
<1>4. CASE Notifies(r)
  <2> DEFINE due == {i \in Queue(1) : presence = "active" \/ row[i].late}
  <2>1. (Demote(due) /\ Chosen(r, {})) \/ (row' = row /\ Chosen(r, due))
    BY <1>4 DEF Notifies
  <2>2. due \in SUBSET Queue(1) /\ {} \in SUBSET Queue(1)
    OBVIOUS
  <2> HIDE DEF due
  <2>3. StillPending
    BY <2>1, DemoteStill, SameFieldsStill
  <2>4. QED
    BY <1>1, <2>1, <2>2, <2>3, ChosenTakes
<1>5. CASE Digest(r)
  <2>1. PICK some \in SUBSET {i \in Queue(2) : row[i].approval} :
          Chosen(r, (Queue(2) \ {i \in Queue(2) : row[i].approval}) \cup some)
    BY <1>5 DEF Digest, UpTo
  <2>2. (Queue(2) \ {i \in Queue(2) : row[i].approval}) \cup some \in SUBSET Queue(2)
    OBVIOUS
  <2>3. StillPending
    BY <1>5, SameFieldsStill DEF Digest
  <2>4. QED
    BY <1>1, <2>1, <2>2, <2>3, ChosenTakes
<1>6. QED
  BY <1>2, <1>3, <1>4, <1>5

\* Everything in hand is still pending, and what the channel took is recorded.
LEMMA MarkTakes ==
  ASSUME SendInv, SendInv', TakenInv, OutboxTypeOK, NEW r \in Replica, Mark(r)
  PROVE  TakenInv'
<1> SUFFICES ASSUME spent.overlap = 0 PROVE TakenInv'
  BY DEF TakenInv, Mark
<1> DEFINE fresh == {i \in tick[r].batch : Pending(i)}
           sent == tick[r].sent
<1>1. /\ ext' = [i \in Row |-> IF i \in fresh /\ sent # "none" THEN Entry(i, 0, sent) ELSE ext[i]]
      /\ Enter(r, After(tick[r].stage)) /\ UNCHANGED spent
  BY DEF Mark, Leave
<1>2. /\ tick[r].stage \in Sending /\ tick[r].stage \notin {"idle", "retry"}
      /\ tick[r].step = "mark" /\ sent \in {"none", "ok", "failed"}
  BY DEF Mark, SendInv, SendTypeOK, TickOK, TickType, Sending
<1>3. \A i \in Row : Holds(tick[r], i) <=> i \in tick[r].batch
  BY <1>2 DEF Holds
<1>4. \A i \in Row : i \in tick[r].batch => i \in fresh /\ ext[i].state = "none"
  BY <1>2, <1>3 DEF TakenInv, HeldOK
<1>5. \A i \in Row : i \in fresh => i \in tick[r].batch
  OBVIOUS
<1> HIDE DEF fresh, sent
<1>6. After(tick[r].stage) \in Stages
  BY <1>2, AfterIs
<1>7. tick'[r].step = "choose" /\ \A q \in Replica \ {r} : tick'[q] = tick[q]
  BY <1>1, <1>6, Entered
<1>8. \A i \in Row : ~Holds(tick'[r], i)
  BY <1>7 DEF Holds
<1>9. ASSUME NEW i \in Row
      PROVE  ext'[i].taken + Has(ext[i], tick[r], i) + spent.cut
             <= ext[i].taken + Has(ext'[i], tick'[r], i) + spent'.cut
  <2>1. ext[i].taken \in Nat /\ spent.cut \in Nat /\ spent'.cut = spent.cut
    BY <1>1 DEF SendInv, SendTypeOK, ExtType
  <2>2. CASE i \in fresh /\ sent # "none"
    <3>1. sent \in {"ok", "failed"} /\ ext'[i] = Entry(i, 0, sent)
      BY <1>1, <1>2, <2>2
    <3>2. Entry(i, 0, sent).taken = ext[i].taken
      BY <3>1, EntryIs, OutboxAssumption
    <3>3. sent = "ok" => Entry(i, 0, sent).state = "ok"
      BY <3>1 DEF Entry, SendInv, SendTypeOK, ExtType
    <3>4. ext[i].state = "none"
      BY <1>4, <1>5, <2>2
    <3>5. QED
      BY <1>7, <1>8, <2>1, <3>1, <3>2, <3>3, <3>4 DEF Has, sent
  <2>3. CASE ~(i \in fresh /\ sent # "none")
    <3>1. ext'[i] = ext[i]
      BY <1>1, <2>3
    <3>2. ~(sent = "ok" /\ Holds(tick[r], i))
      BY <1>3, <1>4, <2>3
    <3>3. Has(ext[i], tick[r], i) <= Has(ext'[i], tick'[r], i) /\ Has(ext[i], tick[r], i) \in Nat
          /\ Has(ext'[i], tick'[r], i) \in Nat
      BY <3>1, <3>2 DEF Has, sent
    <3>4. QED
      BY <2>1, <3>1, <3>3
  <2>4. QED
    BY <2>2, <2>3
<1>10. QED
  BY <1>1, <1>2, <1>7, <1>8, <1>9, TickTakes DEF SendInv, sent

LEMMA RetryTakes ==
  ASSUME SendInv, SendInv', TakenInv, NEW r \in Replica, Retry(r)
  PROVE  TakenInv'
<1> SUFFICES ASSUME spent.overlap = 0 PROVE TakenInv'
  BY DEF TakenInv, Retry
<1>1. tick[r].stage = "retry" /\ tick[r].step = "choose" /\ UNCHANGED <<row, ext, spent>>
  BY DEF Retry, At
<1>2. tick'[r].step \in {"none", "send"} /\ \A q \in Replica \ {r} : tick'[q] = tick[q]
  BY DEF Retry, SendInv, SendTypeOK, Idle
<1>3. \A i \in Row : ~Holds(tick[r], i) /\ ~Holds(tick'[r], i)
  BY <1>1, <1>2 DEF Holds
<1>4. \A i \in Row : ext[i].taken \in Nat /\ spent.cut \in Nat
  BY DEF SendInv, SendTypeOK, ExtType
<1>5. \A i \in Row : Has(ext[i], tick[r], i) = Has(ext'[i], tick'[r], i)
  BY <1>1, <1>3 DEF Has
<1>6. \A i \in Row :
           ext'[i].taken + Has(ext[i], tick[r], i) + spent.cut
             <= ext[i].taken + Has(ext'[i], tick'[r], i) + spent'.cut
  BY <1>1, <1>4, <1>5, HasIs
<1>7. QED
  BY <1>1, <1>2, <1>3, <1>6, TickTakes DEF SendInv

\* Only what failed is sent again.
LEMMA ResendTakes ==
  ASSUME SendInv, SendInv', TakenInv, NEW r \in Replica, Resend(r)
  PROVE  TakenInv'
<1> SUFFICES ASSUME spent.overlap = 0 PROVE TakenInv'
  BY DEF TakenInv, Resend
<1> DEFINE n == First(tick[r].batch)[1]
<1>1. tick[r].stage = "retry" /\ tick[r].step = "send" /\ UNCHANGED <<row, spent>>
  BY DEF Resend
<1>2. n \in Row /\ ext[n].state = "failed"
  BY <1>1, FirstIs
<1>3. PICK result \in {"ok", "failed"} :
        /\ ext' = IF result = "ok" THEN [ext EXCEPT ![n].taken = @ + 1] ELSE ext
        /\ tick' = [tick EXCEPT ![r].step = "mark", ![r].sent = result]
  BY DEF Resend
<1>4. /\ tick'[r].stage = "retry" /\ tick'[r].step = "mark" /\ tick'[r].batch = tick[r].batch
      /\ tick'[r].sent = result /\ \A q \in Replica \ {r} : tick'[q] = tick[q]
  BY <1>1, <1>3 DEF SendInv, SendTypeOK, TickType
<1>5. \A i \in Row : ~Holds(tick[r], i) /\ (Holds(tick'[r], i) <=> i = n)
  BY <1>1, <1>4 DEF Holds
<1> HIDE DEF n
<1>6. \A i \in Row : /\ ext[i].taken \in Nat /\ spent.cut \in Nat /\ ext'[i].state = ext[i].state
                     /\ ext'[i].taken = IF i = n /\ result = "ok" THEN ext[i].taken + 1 ELSE ext[i].taken
  BY <1>2, <1>3 DEF SendInv, SendTypeOK, ExtType
<1>7. tick'[r].stage \notin Sending
  BY <1>4 DEF Sending
<1>8. \A i \in Row :
           ext'[i].taken + Has(ext[i], tick[r], i) + spent.cut
             <= ext[i].taken + Has(ext'[i], tick'[r], i) + spent'.cut
  BY <1>1, <1>2, <1>4, <1>5, <1>6 DEF Has
<1>9. QED
  BY <1>1, <1>4, <1>7, <1>8, TickTakes DEF SendInv

LEMMA RecordTakes ==
  ASSUME SendInv, SendInv', TakenInv, NEW r \in Replica, Record(r)
  PROVE  TakenInv'
<1> SUFFICES ASSUME spent.overlap = 0 PROVE TakenInv'
  BY DEF TakenInv, Record
<1> DEFINE e == First(tick[r].batch)
           new == Entry(e[1], e[2], tick[r].sent)
<1>1. tick[r].stage = "retry" /\ tick[r].step = "mark" /\ UNCHANGED <<row, spent>>
  BY DEF Record
<1>2. TickOK(r) /\ tick[r] \in TickType
  BY DEF SendInv, SendTypeOK
<1>3. e[1] \in Row /\ e[2] \in Nat /\ ext[e[1]].state = "failed"
  BY <1>1, FirstIs
<1>4. new.taken = ext[e[1]].taken /\ (tick[r].sent = "ok" => new.state = "ok")
  <2>1. tick[r].sent \in {"ok", "failed"}
    BY <1>1, <1>2 DEF TickOK
  <2>2. new.taken = ext[e[1]].taken
    BY <1>3, <2>1, EntryIs, OutboxAssumption
  <2>3. tick[r].sent = "ok" => new.state = "ok"
    BY <1>3 DEF Entry, SendInv, SendTypeOK, ExtType
  <2>4. QED
    BY <2>2, <2>3
<1>5. ext' = [ext EXCEPT ![e[1]] = new]
  BY DEF Record
<1>6. tick'[r].step \in {"none", "send"} /\ \A q \in Replica \ {r} : tick'[q] = tick[q]
  BY <1>2 DEF Record, SendInv, SendTypeOK, Idle, TickType
<1>7. \A i \in Row : (Holds(tick[r], i) <=> i = e[1]) /\ ~Holds(tick'[r], i)
  BY <1>1, <1>6 DEF Holds
<1> HIDE DEF e, new
<1>8. \A i \in Row : /\ ext[i].taken \in Nat /\ spent.cut \in Nat
                     /\ ext'[i] = IF i = e[1] THEN new ELSE ext[i]
  BY <1>3, <1>5 DEF SendInv, SendTypeOK, ExtType
<1>9. \A i \in Row :
           ext'[i].taken + Has(ext[i], tick[r], i) + spent.cut
             <= ext[i].taken + Has(ext'[i], tick'[r], i) + spent'.cut
  <2>1. ASSUME NEW i \in Row
        PROVE  ext'[i].taken + Has(ext[i], tick[r], i) <= ext[i].taken + Has(ext'[i], tick'[r], i)
    <3>1. CASE i = e[1]
      BY <1>3, <1>4, <1>7, <1>8, <3>1 DEF Has
    <3>2. CASE i # e[1]
      BY <1>7, <1>8, <3>2 DEF Has
    <3>3. QED
      BY <3>1, <3>2
  <2>2. \A i \in Row : Has(ext[i], tick[r], i) \in Nat /\ Has(ext'[i], tick'[r], i) \in Nat
    BY DEF Has
  <2>3. \A i \in Row : ext[i].taken \in Nat /\ ext'[i].taken \in Nat
    BY DEF SendInv, SendTypeOK, ExtType
  <2>4. QED
    BY <1>1, <1>8, <2>1, <2>2, <2>3
<1>10. QED
  BY <1>1, <1>6, <1>7, <1>9, TickTakes DEF SendInv

\* A cut lets go of what is in hand, and counts.
LEMMA CutTakes ==
  ASSUME SendInv, SendInv', TakenInv, NEW r \in Replica, TimeOut(r) \/ Crash(r)
  PROVE  TakenInv'
<1>1. spent'.overlap = spent.overlap /\ spent'.cut = spent.cut + 1 /\ spent.cut \in Nat
  BY DEF TimeOut, Crash, Spend, SendInv, SendTypeOK
<1> SUFFICES ASSUME spent.overlap = 0 PROVE TakenInv'
  BY <1>1 DEF TakenInv
<1>2. tick[r].stage # "idle" /\ UNCHANGED <<row, ext>> /\ tick[r].stage \in Stages
  BY DEF TimeOut, Crash, SendInv, SendTypeOK, TickType
<1>3. Enter(r, "interrupt") \/ Enter(r, "retry") \/ tick' = [tick EXCEPT ![r] = Idle]
  BY <1>2 DEF TimeOut, Crash, Stages, Sending
<1>4. tick'[r].step \in {"choose", "none"} /\ \A q \in Replica \ {r} : tick'[q] = tick[q]
  <2>1. CASE Enter(r, "interrupt") \/ Enter(r, "retry")
    BY <2>1, Entered DEF Stages, Sending
  <2>2. CASE tick' = [tick EXCEPT ![r] = Idle]
    BY <2>2 DEF Idle, SendInv, SendTypeOK
  <2>3. QED
    BY <1>3, <2>1, <2>2
<1>5. \A i \in Row : ~Holds(tick'[r], i)
  BY <1>4 DEF Holds
<1>6. \A i \in Row : ext[i].taken \in Nat
  BY DEF SendInv, SendTypeOK, ExtType
<1>7. \A i \in Row :
           ext'[i].taken + Has(ext[i], tick[r], i) + spent.cut
             <= ext[i].taken + Has(ext'[i], tick'[r], i) + spent'.cut
  BY <1>1, <1>2, <1>6 DEF Has
<1>8. QED
  BY <1>1, <1>2, <1>4, <1>5, <1>7, TickTakes DEF SendInv

\* The tick of r enters a stage, with nothing in hand before or after.
LEMMA EnterTakes ==
  ASSUME SendInv, SendInv', TakenInv, NEW r \in Replica,
         Presence(r) \/ NoDigest(r) \/ BeginTick(r)
  PROVE  TakenInv'
<1>1. /\ UNCHANGED <<row, ext>> /\ spent'.cut = spent.cut
      /\ spent'.overlap = 0 => spent.overlap = 0
  <2>1. CASE Presence(r) \/ NoDigest(r)
    BY <2>1 DEF Presence, NoDigest
  <2>2. CASE BeginTick(r)
    <3> DEFINE others == {q \in Replica \ {r} : tick[q].stage # "idle"}
    <3>1. spent' = [spent EXCEPT !.overlap = @ + Cardinality(others)] /\ UNCHANGED <<row, ext>>
      BY <2>2 DEF BeginTick
    <3>2. others \in SUBSET Replica
      OBVIOUS
    <3>3. Cardinality(others) \in Nat
      BY <3>2, OutboxAssumption, FS_Subset, FS_CardinalityType
    <3> HIDE DEF others
    <3>4. QED
      BY <3>1, <3>3 DEF SendInv, SendTypeOK
  <2>3. QED
    BY <2>1, <2>2
<1>2. /\ tick[r].step # "mark" /\ tick'[r].step # "mark"
      /\ \A q \in Replica \ {r} : tick'[q] = tick[q]
  <2>1. TickOK(r)
    BY DEF SendInv
  <2>2. tick[r].step = "choose" \/ tick[r].stage = "idle"
    BY DEF Presence, NoDigest, BeginTick, At
  <2>3. \E s : Enter(r, s)
    BY DEF Presence, NoDigest, BeginTick, Enter, Leave
  <2>4. tick'[r].step = "choose" /\ \A q \in Replica \ {r} : tick'[q] = tick[q]
    BY <2>3 DEF Enter, SendInv, SendTypeOK, Idle
  <2>5. QED
    BY <2>1, <2>2, <2>4 DEF TickOK, Sending
<1>3. \A q \in Replica, i \in Row : Holds(tick'[q], i) <=> Holds(tick[q], i) /\ tick'[q] = tick[q]
  BY <1>2 DEF Holds
<1>4. HeldOK => HeldOK'
  BY <1>1, <1>3 DEF HeldOK, Pending
<1>5. \A i \in Row : Flying(i)' <=> Flying(i)
  BY <1>2, <1>3 DEF Flying, Holds
<1>6. QED
  BY <1>1, <1>4, <1>5 DEF TakenInv, TakenOK

LEMMA TakenStep == OutboxInv /\ SendInv /\ SendInv' /\ TakenInv /\ [Next]_vars => TakenInv'
<1> SUFFICES ASSUME OutboxInv, SendInv, SendInv', TakenInv, [Next]_vars PROVE TakenInv'
  OBVIOUS
<1>1. OutboxTypeOK /\ SendTypeOK
  BY DEF OutboxInv, SendInv
<1>2. CASE (\E i \in Row : Add(i) \/ LookFor(i) \/ Commit(i) \/ Overdue(i)) \/ Later
  <2>1. UNCHANGED <<ext, tick, spent>>
    BY <1>2 DEF Add, LookFor, Commit, Overdue, Later
  <2>2. QED
    BY <1>1, <1>2, <2>1, RowsStill, AsideTakes
<1>3. CASE LoseLease \/ ComeOrGo \/ LongGone \/ (\E r \in Replica : TakeLease(r)) \/ UNCHANGED vars
  <2>1. UNCHANGED <<ext, tick, row>>
    BY <1>3 DEF LoseLease, ComeOrGo, LongGone, TakeLease, vars
  <2>2. spent'.cut = spent.cut /\ spent'.overlap = spent.overlap
    BY <1>1, <1>3 DEF LoseLease, ComeOrGo, LongGone, TakeLease, vars, Spend, SendTypeOK
  <2>3. QED
    BY <2>1, <2>2, SameFieldsStill, AsideTakes
<1>4. ASSUME NEW r \in Replica, BeginTick(r) \/ Stage(r) \/ TimeOut(r) \/ Crash(r)
      PROVE  TakenInv'
  BY <1>1, <1>4, CutTakes, FlushTakes, MarkTakes, RetryTakes, ResendTakes, RecordTakes, EnterTakes
  DEF Stage
<1>5. QED
  BY <1>2, <1>3, <1>4 DEF Next

\* SentIsSent of Outbox: while the ticks of two leaders do not overlap, the external
\* channel takes a message once, and once more at most for each tick that was cut
\* short: a flush marks what it sent before the next stage reads (_deliver_batch), and
\* a retry takes entries that failed only (retry_external_sends).
THEOREM SentStaysSent == Spec => []SentIsSent
<1>1. SendInv /\ TakenInv => SentIsSent
  BY DEF SendInv, SendTypeOK, ExtType, TakenInv, TakenOK, SentIsSent
<1>2. QED
  BY <1>1, OutboxInit, OutboxStep, SendInit, SendStep, TakenInit, TakenStep, PTL DEF Spec
=============================================================================
