-------------------------- MODULE RunStreamProofs --------------------------
(***************************************************************************)
(* What a client of RunStream is told, for every number of replicas, with  *)
(* no bound on crashes, broken connections or pauses.                      *)
(***************************************************************************)
EXTENDS RunStream, SequenceTheorems, TLAPS

\* The events that tell of no end but those in E
Kinds(E)  == {k \in Kind : EndTold(k) \in E \cup {"no"}}
Events(E) == {e \in Event : EndTold(e.kind) \in E \cup {"no"}}

\* The end that a task has committed
Committed == IF task.what = "overrun" THEN "cancelled" ELSE task.what

\* Whatever is on its way to the client, or may yet be sent, is true.
TrueInv ==
  /\ row \in Ended => row \in ends
  /\ task.pc = "say" => Committed \in (ends \cup {"paused"})
  /\ stopping # {} => "cancelled" \in ends
  /\ stream.seen \in Ended => stream.seen \in ends
  /\ bus \in [Replica -> Seq(Kinds(ends))]
  /\ stream.line \in Seq(Events(ends)) /\ stream.queue \in Seq(Events(ends))
  /\ EndIsRecorded

\* A task that has a place to go on from runs at a replica.
TaskOK == task.pc # "none" => task.at \in Replica

StreamInv == TypeOK /\ TaskOK /\ TrueInv

-----------------------------------------------------------------------------
(* Sequences of events *)

LEMMA ToldSubset ==
  ASSUME NEW E, NEW F, E \subseteq F
  PROVE  /\ Seq(Kinds(E)) \subseteq Seq(Kinds(F)) /\ Seq(Kinds(E)) \subseteq Seq(Kind)
         /\ Seq(Events(E)) \subseteq Seq(Events(F)) /\ Seq(Events(E)) \subseteq Seq(Event)
<1>1. /\ Kinds(E) \subseteq Kinds(F) /\ Kinds(E) \subseteq Kind
      /\ Events(E) \subseteq Events(F) /\ Events(E) \subseteq Event
  BY DEF Kinds, Events
<1>2. QED
  BY <1>1, SeqMonotonic

LEMMA PairIsSeq == ASSUME NEW S, NEW a \in S, NEW b \in S PROVE <<a, b>> \in Seq(S)
  OBVIOUS

LEMMA OneIsSeq == ASSUME NEW S, NEW a \in S PROVE <<a>> \in Seq(S)
  OBVIOUS

\* The events of a status tell of no other end.
LEMMA StoryTold ==
  ASSUME NEW s \in Ended \cup {"paused"}, NEW E, s \in E \/ s = "paused"
  PROVE  Story(s) \in Seq(Kinds(E))
<1>1. CASE s = "completed"
  <2>1. "completed" \in Kinds(E) /\ "done" \in Kinds(E)
    BY <1>1 DEF Kinds, Kind, EndTold
  <2>2. QED
    BY <1>1, <2>1, PairIsSeq DEF Story
<1>2. CASE s = "failed"
  <2>1. "error" \in Kinds(E) /\ "failed" \in Kinds(E)
    BY <1>2 DEF Kinds, Kind, EndTold
  <2>2. QED
    BY <1>2, <2>1, PairIsSeq DEF Story
<1>3. CASE s \in {"cancelled", "paused"}
  <2>1. s \in Kinds(E)
    BY <1>3 DEF Kinds, Kind, EndTold
  <2>2. QED
    BY <1>3, <2>1, OneIsSeq DEF Story
<1>4. QED
  BY <1>1, <1>2, <1>3 DEF Ended

LEMMA NumberedTold ==
  ASSUME NEW E, NEW kinds \in Seq(Kinds(E)), NEW after \in Nat
  PROVE  /\ Numbered(kinds, after) \in Seq(Events(E))
         /\ Len(Numbered(kinds, after)) = Len(kinds)
<1>1. Len(kinds) \in Nat /\ \A i \in 1..Len(kinds) : kinds[i] \in Kinds(E)
  OBVIOUS
<1>2. \A i \in 1..Len(kinds) : [kind |-> kinds[i], seq |-> after + i] \in Events(E)
  BY <1>1 DEF Kinds, Events, Event
<1>3. QED
  BY <1>1, <1>2 DEF Numbered

LEMMA SliceTold ==
  ASSUME NEW S, NEW s \in Seq(S), NEW m \in Nat \ {0}, NEW n \in Nat, n <= Len(s)
  PROVE  /\ SubSeq(s, m, n) \in Seq(S)
         /\ m = 1 => Len(SubSeq(s, m, n)) = n
<1>1. \A i \in m..n : s[i] \in S
  OBVIOUS
<1>2. m \in Int /\ n \in Int
  OBVIOUS
<1>3. QED
  BY <1>1, <1>2, SubSeqProperties

LEMMA HistoryTold ==
  ASSUME NEW E, bus \in [Replica -> Seq(Kinds(E))], NEW p \in Replica, NEW after \in Nat
  PROVE  History(p, after) \in Seq(Events(E))
<1>1. bus[p] \in Seq(Kinds(E)) /\ Len(bus[p]) \in Nat
  OBVIOUS
<1>2. Numbered(bus[p], 0) \in Seq(Events(E)) /\ Len(Numbered(bus[p], 0)) = Len(bus[p])
  BY <1>1, NumberedTold
<1>3. QED
  BY <1>1, <1>2, SliceTold DEF History

LEMMA FromRowTold ==
  ASSUME NEW s, NEW E, s \in Ended => s \in E, NEW after \in Nat
  PROVE  FromRow(s, after) \in Seq(Events(E))
<1>1. CASE s \in Ended \cup {"paused"}
  <2>1. Story(s) \in Seq(Kinds(E))
    BY <1>1, StoryTold
  <2>2. QED
    BY <1>1, <2>1, NumberedTold DEF FromRow
<1>2. CASE s \notin Ended \cup {"paused"}
  BY <1>2, EmptySeq DEF FromRow
<1>3. QED
  BY <1>1, <1>2

\* Emitting true events leaves a true history and a true queue, within its limit.
LEMMA EmitTold ==
  ASSUME NEW p \in Replica, NEW E, NEW kinds \in Seq(Kinds(E)), Emit(p, kinds),
         TypeOK, bus \in [Replica -> Seq(Kinds(E))], stream.queue \in Seq(Events(E))
  PROVE  /\ bus' \in [Replica -> Seq(Kinds(E))]
         /\ stream' \in Stream /\ stream'.queue \in Seq(Events(E))
         /\ Len(stream'.queue) <= QueueMax
         /\ stream'.line = stream.line /\ stream'.seen = stream.seen
         /\ missed' \in BOOLEAN /\ log' \in Seq(Kind)
<1> DEFINE listens == stream.at = p /\ stream.on
           new     == Numbered(kinds, Len(bus[p]))
           room    == QueueMax - Len(stream.queue)
           fits    == IF room < Len(new) THEN room ELSE Len(new)
           more    == SubSeq(new, 1, fits)
<1>1. bus[p] \in Seq(Kinds(E)) /\ Len(bus[p]) \in Nat
  OBVIOUS
<1>2. bus' \in [Replica -> Seq(Kinds(E))]
  <2>1. bus[p] \o kinds \in Seq(Kinds(E))
    BY <1>1, ConcatProperties
  <2>2. QED
    BY <2>1 DEF Emit
<1>3. new \in Seq(Events(E)) /\ Len(new) = Len(kinds) /\ Len(kinds) \in Nat
  BY <1>1, NumberedTold
<1>4. stream \in Stream /\ room \in Nat
  <2>1. stream \in Stream /\ Len(stream.queue) <= QueueMax
    BY DEF TypeOK
  <2>2. stream.queue \in Seq(Event)
    BY <2>1 DEF Stream
  <2>3. Len(stream.queue) \in Nat /\ QueueMax \in Nat
    BY <2>2, StreamAssumption
  <2>4. QED
    BY <2>1, <2>3
<1>5. fits \in Nat /\ fits <= Len(new) /\ fits <= room
  BY <1>3, <1>4
<1>6. more \in Seq(Events(E)) /\ Len(more) = fits
  BY <1>3, <1>5, SliceTold
<1>7. /\ stream.queue \o more \in Seq(Events(E))
      /\ Len(stream.queue \o more) <= QueueMax
  <2>1. /\ stream.queue \o more \in Seq(Events(E))
        /\ Len(stream.queue \o more) = Len(stream.queue) + fits
    BY <1>6, ConcatProperties
  <2>2. Len(stream.queue) \in Nat
    BY <1>4 DEF Stream
  <2>3. QED
    <3>1. QueueMax \in Nat /\ Len(stream.queue) <= QueueMax /\ fits <= room
      BY <1>4, <1>5, StreamAssumption
    <3>2. Len(stream.queue) + fits <= QueueMax
      <4> HIDE DEF fits, more
      <4>1. room = QueueMax - Len(stream.queue) /\ fits \in Nat
        BY <1>5
      <4> HIDE DEF room
      <4>2. QED
        BY <2>2, <3>1, <4>1
    <3>3. QED
      BY <2>1, <3>2
<1>8. stream' = IF listens THEN [stream EXCEPT !.queue = stream.queue \o more] ELSE stream
  BY DEF Emit
<1>9. stream.queue \o more \in Seq(Event)
  BY <1>7, ToldSubset
<1>10. [stream EXCEPT !.queue = stream.queue \o more] \in Stream
  BY <1>4, <1>9 DEF Stream
<1>11. Len(stream.queue) <= QueueMax /\ missed' \in BOOLEAN /\ log' \in Seq(Kind)
  <2>1. kinds \in Seq(Kind)
    BY ToldSubset
  <2>2. log \o kinds \in Seq(Kind)
    BY <2>1, ConcatProperties DEF TypeOK
  <2>3. QED
    BY <2>2 DEF TypeOK, Emit
<1>12. CASE listens
  <2>1. stream' = [stream EXCEPT !.queue = stream.queue \o more]
    BY <1>8, <1>12
  <2>2. /\ stream'.queue = stream.queue \o more
        /\ stream'.line = stream.line /\ stream'.seen = stream.seen
    BY <1>4, <2>1 DEF Stream
  <2>3. QED
    BY <1>2, <1>7, <1>10, <1>11, <2>1, <2>2
<1>13. CASE ~listens
  BY <1>2, <1>4, <1>8, <1>11, <1>13
<1>14. QED
  BY <1>12, <1>13

-----------------------------------------------------------------------------
(* The steps *)

LEMMA InitTrue == Init => StreamInv
<1> SUFFICES ASSUME Init PROVE StreamInv
  OBVIOUS
<1>1. \A S : <<>> \in Seq(S) /\ Len(<<>>) = 0
  BY EmptySeq
<1>2. NoStream \in Stream
  BY <1>1 DEF NoStream, Stream
<1>3. TypeOK
  <2>1. bus \in [Replica -> Seq(Kind)]
    BY <1>1 DEF Init
  <2>2. stream \in Stream /\ Len(stream.queue) <= QueueMax
    BY <1>1, <1>2, StreamAssumption DEF Init, NoStream
  <2>3. /\ row \in Status /\ ends \subseteq Ended /\ stopping \subseteq Replica
        /\ phase \in [Replica -> {"up", "draining", "down"}] /\ boot \in [Replica -> Nat]
        /\ missed \in BOOLEAN /\ answered \in BOOLEAN
        /\ folded \in Seq(Kind) /\ log \in Seq(Kind)
    BY <1>1 DEF Init, Status
  <2>4. spent \in [{"token", "pause", "crash", "drop"} -> Nat]
    BY DEF Init
  <2>5. QED
    BY <2>1, <2>2, <2>3, <2>4, StreamAssumption DEF Init, TypeOK
<1>4. TrueInv
  BY <1>1 DEF Init, TrueInv, Ended, NoStream, EndIsRecorded
<1>5. TaskOK
  BY StreamAssumption DEF Init, TaskOK
<1>6. QED
  BY <1>3, <1>4, <1>5 DEF StreamInv

\* A step that only adds to the ends of the row keeps what was true.
LEMMA EndsGrow ==
  ASSUME StreamInv, ends \subseteq ends', UNCHANGED <<bus, stream, client>>
  PROVE  /\ stream'.seen \in Ended => stream'.seen \in ends'
         /\ bus' \in [Replica -> Seq(Kinds(ends'))]
         /\ stream'.line \in Seq(Events(ends')) /\ stream'.queue \in Seq(Events(ends'))
         /\ EndIsRecorded'
  BY ToldSubset DEF StreamInv, TrueInv, EndIsRecorded

LEMMA WriteTrue ==
  ASSUME NEW s \in Status, Write(s), StreamInv
  PROVE  /\ row' \in Status /\ ends' \subseteq Ended /\ ends \subseteq ends'
         /\ row' = s /\ (s \in Ended => s \in ends')
  BY DEF Write, StreamInv, TypeOK

LEMMA SpendType ==
  ASSUME NEW what \in {"token", "pause", "crash", "drop"}, NEW limit, Spend(what, limit), TypeOK
  PROVE  spent' \in [{"token", "pause", "crash", "drop"} -> Nat]
<1>1. spent \in [{"token", "pause", "crash", "drop"} -> Nat]
  BY DEF TypeOK
<1>2. QED
  BY <1>1 DEF Spend

\* Emitting what the row has had.
LEMMA EmitTrue ==
  ASSUME StreamInv, NEW p \in Replica, NEW kinds \in Seq(Kinds(ends)), Emit(p, kinds),
         UNCHANGED ends
  PROVE  /\ bus' \in [Replica -> Seq(Kind)] /\ bus' \in [Replica -> Seq(Kinds(ends'))]
         /\ stream' \in Stream /\ Len(stream'.queue) <= QueueMax
         /\ stream'.line \in Seq(Events(ends')) /\ stream'.queue \in Seq(Events(ends'))
         /\ stream'.seen = stream.seen
         /\ missed' \in BOOLEAN /\ log' \in Seq(Kind)
<1>1. bus \in [Replica -> Seq(Kinds(ends))] /\ TypeOK
      /\ stream.queue \in Seq(Events(ends)) /\ stream.line \in Seq(Events(ends))
  BY DEF StreamInv, TrueInv
<1>2. /\ bus' \in [Replica -> Seq(Kinds(ends))]
      /\ stream' \in Stream /\ stream'.queue \in Seq(Events(ends))
      /\ Len(stream'.queue) <= QueueMax
      /\ stream'.line = stream.line /\ stream'.seen = stream.seen
      /\ missed' \in BOOLEAN /\ log' \in Seq(Kind)
  BY <1>1, EmitTold
<1>3. bus' \in [Replica -> Seq(Kind)]
  BY <1>2, ToldSubset
<1>4. QED
  BY <1>1, <1>2, <1>3

\* The task and the stops of the run
LEMMA RunStep ==
  ASSUME StreamInv,
         \/ Start \/ Begin \/ Token \/ Say \/ Leave
         \/ \E s \in Ended \cup {"paused", "overrun"} : Settle(s)
         \/ \E p \in Replica : Resume(p) \/ StopPaused(p) \/ SayStopped(p)
  PROVE  StreamInv'
<1> USE DEF StreamInv
<1>1. CASE Start
  <2>1. Write("running") /\ "running" \in Status
    BY <1>1 DEF Start, Status
  <2>2. /\ row' \in Status /\ ends' \subseteq Ended /\ ends \subseteq ends' /\ row' = "running"
    BY <2>1, WriteTrue
  <2>3. UNCHANGED <<bus, stream, client>>
    BY <1>1 DEF Start, hear
  <2>4. TrueInv'
    BY <1>1, <2>2, <2>3, EndsGrow DEF Start, TrueInv, Ended
  <2>5. TypeOK' /\ TaskOK'
    BY <1>1, <2>2 DEF Start, TypeOK, TaskOK, hear
  <2>6. QED
    BY <2>4, <2>5
<1>2. CASE Begin
  <2>1. <<"running">> \in Seq(Kinds(ends))
    BY OneIsSeq DEF Kinds, Kind, EndTold
  <2>2. task.at \in Replica
    BY <1>2 DEF Begin, TaskOK
  <2>3. Emit(task.at, <<"running">>) /\ UNCHANGED ends
    BY <1>2 DEF Begin
  <2>4. /\ bus' \in [Replica -> Seq(Kind)] /\ bus' \in [Replica -> Seq(Kinds(ends'))]
        /\ stream' \in Stream /\ Len(stream'.queue) <= QueueMax
        /\ stream'.line \in Seq(Events(ends')) /\ stream'.queue \in Seq(Events(ends'))
        /\ stream'.seen = stream.seen
        /\ missed' \in BOOLEAN /\ log' \in Seq(Kind)
    BY <2>1, <2>2, <2>3, EmitTrue
  <2>5. TypeOK' /\ TaskOK'
    BY <1>2, <2>4 DEF Begin, TypeOK, TaskOK, hear
  <2>6. TrueInv'
    BY <1>2, <2>4 DEF Begin, TrueInv, TypeOK, hear, EndIsRecorded
  <2>7. QED
    BY <2>5, <2>6
<1>3. CASE Token
  <2>1. <<"token">> \in Seq(Kinds(ends))
    BY OneIsSeq DEF Kinds, Kind, EndTold
  <2>2. task.at \in Replica
    BY <1>3 DEF Token, TaskOK
  <2>3. Emit(task.at, <<"token">>) /\ UNCHANGED ends
    BY <1>3 DEF Token, run
  <2>4. /\ bus' \in [Replica -> Seq(Kind)] /\ bus' \in [Replica -> Seq(Kinds(ends'))]
        /\ stream' \in Stream /\ Len(stream'.queue) <= QueueMax
        /\ stream'.line \in Seq(Events(ends')) /\ stream'.queue \in Seq(Events(ends'))
        /\ stream'.seen = stream.seen
        /\ missed' \in BOOLEAN /\ log' \in Seq(Kind)
    BY <2>1, <2>2, <2>3, EmitTrue
  <2>5. spent' \in [{"token", "pause", "crash", "drop"} -> Nat]
    BY <1>3, SpendType DEF Token
  <2>6. TypeOK' /\ TaskOK'
    BY <1>3, <2>4, <2>5 DEF Token, TypeOK, TaskOK, hear, run
  <2>7. TrueInv'
    BY <1>3, <2>4 DEF Token, TrueInv, hear, run, EndIsRecorded, Committed
  <2>8. QED
    BY <2>6, <2>7
<1>4. CASE Say
  <2>1. Story(Committed) \in Seq(Kinds(ends))
    BY <1>4, StoryTold DEF Say, TrueInv, TypeOK
  <2>2. task.at \in Replica
    BY <1>4 DEF Say, TaskOK
  <2>3. Emit(task.at, Story(Committed)) /\ UNCHANGED ends
    BY <1>4 DEF Say, Committed
  <2>4. /\ bus' \in [Replica -> Seq(Kind)] /\ bus' \in [Replica -> Seq(Kinds(ends'))]
        /\ stream' \in Stream /\ Len(stream'.queue) <= QueueMax
        /\ stream'.line \in Seq(Events(ends')) /\ stream'.queue \in Seq(Events(ends'))
        /\ stream'.seen = stream.seen
        /\ missed' \in BOOLEAN /\ log' \in Seq(Kind)
    BY <2>1, <2>2, <2>3, EmitTrue
  <2>5. TypeOK' /\ TaskOK'
    BY <1>4, <2>4 DEF Say, TypeOK, TaskOK, hear
  <2>6. TrueInv'
    BY <1>4, <2>4 DEF Say, TrueInv, TypeOK, hear, EndIsRecorded
  <2>7. QED
    BY <2>5, <2>6
<1>5. CASE Leave
  BY <1>5 DEF Leave, TypeOK, TaskOK, TrueInv, hear, NoTask, EndIsRecorded
<1>6. ASSUME NEW s \in Ended \cup {"paused", "overrun"}, Settle(s) PROVE StreamInv'
  <2> DEFINE w == IF s = "overrun" THEN "cancelled" ELSE s
  <2>1. Write(w) /\ w \in Status /\ w \in Ended \cup {"paused"}
    BY <1>6 DEF Settle, Status, Ended
  <2>2. /\ row' \in Status /\ ends' \subseteq Ended /\ ends \subseteq ends'
        /\ row' = w /\ (w \in Ended => w \in ends')
    BY <2>1, WriteTrue
  <2>3. UNCHANGED <<bus, stream, client>>
    BY <1>6 DEF Settle, hear
  <2>4. task' = [task EXCEPT !.pc = "say", !.what = s] /\ task.pc # "none"
    BY <1>6 DEF Settle, MaySettle
  <2>5. spent' \in [{"token", "pause", "crash", "drop"} -> Nat]
    BY <1>6, SpendType DEF Settle, TypeOK
  <2>6. TypeOK' /\ TaskOK'
    BY <1>6, <2>2, <2>4, <2>5 DEF Settle, TypeOK, TaskOK, hear
  <2>7. Committed' = w
    BY <2>4 DEF TypeOK, Committed
  <2>8. TrueInv'
    BY <1>6, <2>1, <2>2, <2>3, <2>7, EndsGrow DEF Settle, TrueInv
  <2>9. QED
    BY <2>6, <2>8
<1>7. ASSUME NEW p \in Replica, Resume(p) PROVE StreamInv'
  BY <1>7 DEF Resume, TypeOK, TaskOK, TrueInv, hear, NoTask, EndIsRecorded
<1>8. ASSUME NEW p \in Replica, StopPaused(p) PROVE StreamInv'
  <2>1. Write("cancelled") /\ "cancelled" \in Status /\ "cancelled" \in Ended
    BY <1>8 DEF StopPaused, Status, Ended
  <2>2. /\ row' \in Status /\ ends' \subseteq Ended /\ ends \subseteq ends'
        /\ row' = "cancelled" /\ "cancelled" \in ends'
    BY <2>1, WriteTrue
  <2>3. UNCHANGED <<bus, stream, client>>
    BY <1>8 DEF StopPaused, hear
  <2>4. TypeOK' /\ TaskOK'
    BY <1>8, <2>2 DEF StopPaused, TypeOK, TaskOK, hear
  <2>5. TrueInv'
    BY <1>8, <2>2, <2>3, EndsGrow DEF StopPaused, TrueInv, Committed
  <2>6. QED
    BY <2>4, <2>5
<1>9. ASSUME NEW p \in Replica, SayStopped(p) PROVE StreamInv'
  <2>1. Story("cancelled") \in Seq(Kinds(ends))
    BY <1>9, StoryTold DEF SayStopped, TrueInv, Ended
  <2>2. Emit(p, Story("cancelled")) /\ UNCHANGED ends
    BY <1>9 DEF SayStopped
  <2>3. /\ bus' \in [Replica -> Seq(Kind)] /\ bus' \in [Replica -> Seq(Kinds(ends'))]
        /\ stream' \in Stream /\ Len(stream'.queue) <= QueueMax
        /\ stream'.line \in Seq(Events(ends')) /\ stream'.queue \in Seq(Events(ends'))
        /\ stream'.seen = stream.seen
        /\ missed' \in BOOLEAN /\ log' \in Seq(Kind)
    BY <2>1, <2>2, EmitTrue
  <2>4. TypeOK' /\ TaskOK'
    BY <1>9, <2>3 DEF SayStopped, TypeOK, TaskOK, hear
  <2>5. TrueInv'
    BY <1>9, <2>3 DEF SayStopped, TrueInv, hear, EndIsRecorded, Committed
  <2>6. QED
    BY <2>4, <2>5
<1>10. QED
  BY <1>1, <1>2, <1>3, <1>4, <1>5, <1>6, <1>7, <1>8, <1>9

LEMMA NoStreamTrue ==
  ASSUME NEW E
  PROVE  /\ NoStream \in Stream /\ Len(NoStream.queue) <= QueueMax
         /\ NoStream.line \in Seq(Events(E)) /\ NoStream.queue \in Seq(Events(E))
         /\ NoStream.seen \notin Ended
<1>1. \A S : <<>> \in Seq(S) /\ Len(<<>>) = 0
  BY EmptySeq
<1>2. QED
  BY <1>1, StreamAssumption DEF NoStream, Stream, Ended

LEMMA DownTrue ==
  ASSUME StreamInv, NEW p \in Replica, Down(p),
         spent' \in [{"token", "pause", "crash", "drop"} -> Nat]
  PROVE  StreamInv'
<1> USE DEF StreamInv
<1>1. /\ stream' \in Stream /\ Len(stream'.queue) <= QueueMax
      /\ stream'.line \in Seq(Events(ends)) /\ stream'.queue \in Seq(Events(ends))
      /\ (stream'.seen \in Ended => stream'.seen \in ends)
  BY NoStreamTrue DEF Down, TypeOK, TrueInv
<1>2. bus' \in [Replica -> Seq(Kind)] /\ bus' \in [Replica -> Seq(Kinds(ends))]
  BY EmptySeq DEF Down, TypeOK, TrueInv
<1>3. task' = task \/ task' = NoTask
  BY DEF Down
<1>4. TypeOK' /\ TaskOK'
  BY <1>1, <1>2, <1>3 DEF Down, TypeOK, TaskOK, NoTask, hear
<1>5. TrueInv'
  BY <1>1, <1>2, <1>3 DEF Down, TrueInv, NoTask, hear, EndIsRecorded, Committed
<1>6. QED
  BY <1>4, <1>5

\* A step that writes the row, and is none of the task's
LEMMA SweepTrue ==
  ASSUME StreamInv, NEW s \in {"failed", "stalled"}, Write(s),
         phase' \in [Replica -> {"up", "draining", "down"}], boot' \in [Replica -> Nat],
         UNCHANGED <<task, stopping, bus, stream, hear, homes, missed, log, spent>>
  PROVE  StreamInv'
<1> USE DEF StreamInv
<1>1. s \in Status
  BY DEF Status, Ended
<1>2. /\ row' \in Status /\ ends' \subseteq Ended /\ ends \subseteq ends'
      /\ row' = s /\ (s \in Ended => s \in ends')
  BY <1>1, WriteTrue
<1>3. UNCHANGED <<bus, stream, client>>
  BY DEF hear
<1>4. TypeOK' /\ TaskOK'
  BY <1>2 DEF TypeOK, TaskOK, hear
<1>5. TrueInv'
  BY <1>2, <1>3, EndsGrow DEF TrueInv, Committed
<1>6. QED
  BY <1>4, <1>5

\* Processes, the reapers, and the bus that forgets
LEMMA ProcessStep ==
  ASSUME StreamInv,
         \/ \E p \in Replica : Crash(p) \/ Drain(p) \/ Exit(p) \/ Boot(p) \/ Evict(p)
         \/ ReapDeadOwner \/ ReapStalled
  PROVE  StreamInv'
<1> USE DEF StreamInv
<1>1. ASSUME NEW p \in Replica, Crash(p) PROVE StreamInv'
  BY <1>1, SpendType, DownTrue, SMTT(30) DEF Crash
<1>2. ASSUME NEW p \in Replica, Drain(p) PROVE StreamInv'
  <2>1. spent' \in [{"token", "pause", "crash", "drop"} -> Nat]
    BY <1>2, SpendType DEF Drain
  <2>2. QED
    <3>1. TypeOK' /\ TaskOK'
      BY <1>2, <2>1 DEF Drain, TypeOK, TaskOK, run, hear
    <3>2. TrueInv'
      BY <1>2 DEF Drain, TrueInv, run, hear, EndIsRecorded, Committed
    <3>3. QED
      BY <3>1, <3>2
<1>3. ASSUME NEW p \in Replica, Exit(p) PROVE StreamInv'
  <2>1. Down(p) /\ UNCHANGED spent
    BY <1>3 DEF Exit
  <2>2. spent' \in [{"token", "pause", "crash", "drop"} -> Nat]
    BY <2>1 DEF TypeOK
  <2>3. QED
    BY <2>1, <2>2, DownTrue
<1>4. ASSUME NEW p \in Replica, Boot(p) PROVE StreamInv'
  <2>1. phase' \in [Replica -> {"up", "draining", "down"}] /\ boot' \in [Replica -> Nat]
    <3>1. phase \in [Replica -> {"up", "draining", "down"}] /\ boot \in [Replica -> Nat]
      BY DEF TypeOK
    <3>2. QED
      BY <1>4, <3>1 DEF Boot
  <2>2. CASE Write("failed")
    BY <1>4, <2>1, <2>2, SweepTrue DEF Boot
  <2>3. CASE UNCHANGED <<row, ends>>
    <3>1. TypeOK' /\ TaskOK'
      BY <1>4, <2>1, <2>3 DEF Boot, TypeOK, TaskOK, hear
    <3>2. TrueInv'
      BY <1>4, <2>3 DEF Boot, TrueInv, hear, EndIsRecorded, Committed
    <3>3. QED
      BY <3>1, <3>2
  <2>4. QED
    BY <1>4, <2>2, <2>3 DEF Boot
<1>5. ASSUME NEW p \in Replica, Evict(p) PROVE StreamInv'
  <2>1. bus' \in [Replica -> Seq(Kind)] /\ bus' \in [Replica -> Seq(Kinds(ends))]
    BY <1>5, EmptySeq DEF Evict, TypeOK, TrueInv
  <2>2. /\ stream' \in Stream /\ stream'.line = stream.line /\ stream'.queue = stream.queue
        /\ stream'.seen = stream.seen
    BY <1>5 DEF Evict, TypeOK, Stream
  <2>3. QED
    <3>1. TypeOK' /\ TaskOK'
      BY <1>5, <2>1, <2>2 DEF Evict, TypeOK, TaskOK, run, hear
    <3>2. TrueInv'
      BY <1>5, <2>1, <2>2 DEF Evict, TrueInv, run, hear, EndIsRecorded, Committed
    <3>3. QED
      BY <3>1, <3>2
<1>6. CASE ReapDeadOwner
  BY <1>6, SweepTrue DEF ReapDeadOwner, TypeOK
<1>7. CASE ReapStalled
  BY <1>7, SweepTrue DEF ReapStalled, TypeOK
<1>8. QED
  BY <1>1, <1>2, <1>3, <1>4, <1>5, <1>6, <1>7

\* What the stream and the client come to hold, when the run stays as it is
StreamTrue(st) ==
  /\ st \in Stream /\ Len(st.queue) <= QueueMax
  /\ st.line \in Seq(Events(ends)) /\ st.queue \in Seq(Events(ends))
  /\ st.seen \in Ended => st.seen \in ends

ClientTrue(c) ==
  /\ c \in [ended : Ended \cup {"no", "lost"}, lastSeq : Nat, lastId : Nat, base : Nat,
            reopens : Nat]
  /\ c.ended \in ends \cup {"no", "lost"}

LEMMA HeldTrue == StreamInv => StreamTrue(stream) /\ StreamTrue(NoStream) /\ ClientTrue(client)
  BY NoStreamTrue DEF StreamInv, TypeOK, TrueInv, StreamTrue, ClientTrue, EndIsRecorded

LEMMA HeldStep ==
  ASSUME StreamInv, NEW st, StreamTrue(st), stream' = st, NEW c, ClientTrue(c), client' = c,
         folded' \in Seq(Kind), answered' \in BOOLEAN,
         spent' \in [{"token", "pause", "crash", "drop"} -> Nat],
         UNCHANGED <<run, phase, boot, bus, missed, log>>
  PROVE  StreamInv'
<1> USE DEF StreamInv
<1>1. TypeOK' /\ TaskOK'
  BY DEF TypeOK, TaskOK, StreamTrue, ClientTrue, run
<1>2. TrueInv'
  BY DEF TrueInv, StreamTrue, ClientTrue, run, EndIsRecorded, Committed
<1>3. QED
  BY <1>1, <1>2

LEMMA CursorType == TypeOK => Cursor \in Nat
  BY DEF TypeOK, Cursor

\* The client's own steps
LEMMA ClientStep ==
  ASSUME StreamInv, (\E p \in Replica : Connect(p) \/ Refused(p)) \/ Drop
  PROVE  StreamInv'
<1>1. TypeOK /\ StreamTrue(stream) /\ StreamTrue(NoStream) /\ ClientTrue(client)
  BY HeldTrue DEF StreamInv
<1>2. folded \in Seq(Kind) /\ answered \in BOOLEAN /\ spent \in [{"token", "pause", "crash", "drop"} -> Nat]
  BY <1>1 DEF TypeOK
<1>3. ASSUME NEW p \in Replica, Connect(p) PROVE StreamInv'
  <2> DEFINE line == History(p, Cursor)
             mode == IF line # <<>> THEN "live"
                     ELSE IF Done(p) THEN "closing"
                     ELSE IF bus[p] # <<>> THEN "live"
                     ELSE "reading"
             st   == [at |-> p, mode |-> mode, after |-> Cursor, line |-> line,
                      queue |-> <<>>, on |-> TRUE, seen |-> "none"]
  <2>1. Cursor \in Nat /\ bus \in [Replica -> Seq(Kinds(ends))]
    BY <1>1, CursorType DEF StreamInv, TrueInv
  <2>2. line \in Seq(Events(ends)) /\ line \in Seq(Event)
    BY <2>1, HistoryTold, ToldSubset
  <2>3. mode \in {"live", "closing", "reading"}
    OBVIOUS
  <2>4. <<>> \in Seq(Event) /\ <<>> \in Seq(Events(ends)) /\ Len(<<>>) = 0
    BY EmptySeq
  <2> HIDE DEF line, mode
  <2>5. st \in Stream
    BY <2>1, <2>2, <2>3, <2>4 DEF Stream
  <2>6. StreamTrue(st)
    BY <2>2, <2>4, <2>5, StreamAssumption DEF StreamTrue, Ended
  <2>7. stream' = st /\ UNCHANGED <<run, phase, boot, bus, missed, log, client, folded, answered, spent>>
    BY <1>3 DEF Connect, hear, line, mode
  <2> HIDE DEF st
  <2>8. QED
    BY <1>1, <1>2, <2>6, <2>7, HeldStep
<1>4. ASSUME NEW p \in Replica, Refused(p) PROVE StreamInv'
  <2>1. ClientTrue([client EXCEPT !.reopens = client.reopens + 1, !.base = client.lastSeq,
                                  !.lastId = 0])
    <3>1. client.reopens \in Nat /\ client.lastSeq \in Nat
      BY <1>1 DEF ClientTrue
    <3>2. client.reopens + 1 \in Nat
      BY <3>1
    <3>3. QED
      BY <1>1, <3>1, <3>2 DEF ClientTrue
  <2>2. ClientTrue([client EXCEPT !.ended = "lost"])
    BY <1>1 DEF ClientTrue
  <2>3. ClientTrue(client')
    BY <1>4, <2>1, <2>2 DEF Refused
  <2>4. QED
    BY <1>1, <1>2, <1>4, <2>3, HeldStep DEF Refused
<1>5. CASE Drop
  <2>1. spent' \in [{"token", "pause", "crash", "drop"} -> Nat]
    BY <1>1, <1>5, SpendType DEF Drop
  <2>2. QED
    BY <1>1, <1>2, <1>5, <2>1, HeldStep DEF Drop, hear
<1>6. QED
  BY <1>3, <1>4, <1>5

\* The client gets a true event.
LEMMA FoldTrue ==
  ASSUME StreamInv, NEW e \in Events(ends), Fold(e)
  PROVE  ClientTrue(client') /\ folded' \in Seq(Kind) /\ answered' \in BOOLEAN
<1>1. ClientTrue(client) /\ folded \in Seq(Kind) /\ answered \in BOOLEAN /\ ends \subseteq Ended
  BY HeldTrue DEF StreamInv, TypeOK
<1>2. e.seq \in Nat /\ EndTold(e.kind) \in ends \cup {"no"}
  BY DEF Events, Event
<1>3. ClientTrue([client EXCEPT !.lastId = e.seq])
  BY <1>1, <1>2 DEF ClientTrue
<1>4. ClientTrue([client EXCEPT !.lastId = e.seq, !.lastSeq = e.seq, !.ended = EndTold(e.kind)])
  BY <1>1, <1>2 DEF ClientTrue
<1>5. Append(folded, e.kind) \in Seq(Kind)
  BY <1>1, AppendProperties DEF Events, Event
<1>6. QED
  BY <1>1, <1>3, <1>4, <1>5 DEF Fold

LEMMA YieldTrue ==
  ASSUME StreamInv, NEW e \in Events(ends), NEW rest, StreamTrue(rest), Yield(e, rest)
  PROVE  StreamInv'
<1>1. ClientTrue(client') /\ folded' \in Seq(Kind) /\ answered' \in BOOLEAN
  BY FoldTrue DEF Yield
<1>2. stream' = NoStream \/ stream' = rest
  BY DEF Yield
<1>3. StreamTrue(stream')
  BY <1>2, HeldTrue
<1>4. spent' \in [{"token", "pause", "crash", "drop"} -> Nat]
  BY DEF Yield, quiet, StreamInv, TypeOK
<1>5. QED
  BY <1>1, <1>3, <1>4, HeldStep DEF Yield, quiet

\* The generator that serves the client
LEMMA ServeStep == ASSUME StreamInv, Serve PROVE StreamInv'
<1>1. TypeOK /\ TrueInv /\ StreamTrue(stream) /\ StreamTrue(NoStream) /\ ClientTrue(client)
  BY HeldTrue DEF StreamInv
<1>2. /\ folded \in Seq(Kind) /\ answered \in BOOLEAN /\ spent \in [{"token", "pause", "crash", "drop"} -> Nat]
      /\ row \in Status /\ stream.after \in Nat
  BY <1>1 DEF TypeOK, Stream
<1>3. CASE ReadRow
  <2> DEFINE st == [stream EXCEPT !.mode = "read", !.seen = row]
  <2>1. StreamTrue(st)
    BY <1>1, <1>2 DEF TrueInv, StreamTrue, Stream
  <2>2. stream' = st
    BY <1>3 DEF ReadRow
  <2> HIDE DEF st
  <2>3. QED
    BY <1>1, <1>2, <1>3, <2>1, <2>2, HeldStep DEF ReadRow, quiet, hear
<1>4. CASE Decide
  <2> DEFINE line == FromRow(stream.seen, stream.after)
             mode == AfterRead(stream.seen, Local(stream.at))
             st   == [stream EXCEPT !.mode = mode, !.line = line, !.seen = "none"]
  <2>1. line \in Seq(Events(ends)) /\ line \in Seq(Event)
    <3>1. stream.seen \in Ended => stream.seen \in ends
      BY <1>1 DEF TrueInv
    <3>2. line \in Seq(Events(ends))
      BY <1>2, <3>1, FromRowTold
    <3>3. QED
      BY <3>2, ToldSubset
  <2>2. mode \in {"closing", "live", "foreign"}
    BY DEF AfterRead
  <2> HIDE DEF line, mode
  <2>3. StreamTrue(st)
    BY <1>1, <2>1, <2>2 DEF StreamTrue, Stream, Ended
  <2>4. stream' = st
    BY <1>4 DEF Decide, line, mode
  <2> HIDE DEF st
  <2>5. QED
    BY <1>1, <1>2, <1>4, <2>3, <2>4, HeldStep DEF Decide, quiet, hear
<1>5. CASE YieldLine
  <2> DEFINE st == [stream EXCEPT !.line = Tail(stream.line)]
  <2>1. stream.line \in Seq(Events(ends)) /\ stream.line # <<>>
    BY <1>1, <1>5 DEF YieldLine, StreamTrue
  <2>2. Head(stream.line) \in Events(ends) /\ Tail(stream.line) \in Seq(Events(ends))
    BY <2>1, HeadTailProperties
  <2>3. Tail(stream.line) \in Seq(Event)
    BY <2>2, ToldSubset
  <2>4. StreamTrue(st)
    BY <1>1, <2>2, <2>3 DEF StreamTrue, Stream
  <2>5. Yield(Head(stream.line), st)
    BY <1>5 DEF YieldLine
  <2> HIDE DEF st
  <2>6. QED
    BY <2>2, <2>4, <2>5, YieldTrue
<1>6. CASE YieldQueue
  <2> DEFINE st == [stream EXCEPT !.queue = Tail(stream.queue)]
  <2>1. stream.queue \in Seq(Events(ends)) /\ stream.queue # <<>>
    BY <1>1, <1>6 DEF YieldQueue, StreamTrue
  <2>2. /\ Head(stream.queue) \in Events(ends) /\ Tail(stream.queue) \in Seq(Events(ends))
        /\ Len(Tail(stream.queue)) = Len(stream.queue) - 1
    BY <2>1, HeadTailProperties
  <2>3. Tail(stream.queue) \in Seq(Event)
    BY <2>2, ToldSubset
  <2>4. Len(Tail(stream.queue)) <= QueueMax
    <3>1. Len(stream.queue) \in Nat /\ QueueMax \in Nat /\ Len(stream.queue) <= QueueMax
      BY <1>1, <2>1, StreamAssumption DEF StreamTrue
    <3>2. QED
      BY <2>2, <3>1
  <2>5. StreamTrue(st)
    BY <1>1, <2>2, <2>3, <2>4 DEF StreamTrue, Stream
  <2>6. Yield(Head(stream.queue), st)
    BY <1>6 DEF YieldQueue
  <2> HIDE DEF st
  <2>7. QED
    BY <2>2, <2>5, <2>6, YieldTrue
<1>7. CASE Close
  BY <1>1, <1>2, <1>7, HeldStep DEF Close, quiet, hear
<1>8. CASE Reconnect
  <2>1. spent' \in [{"token", "pause", "crash", "drop"} -> Nat]
    BY <1>1, <1>8, SpendType DEF Reconnect
  <2>2. QED
    BY <1>1, <1>2, <1>8, <2>1, HeldStep DEF Reconnect, hear
<1>9. CASE Reread
  <2> DEFINE line == FromRow(row, stream.after)
             st   == [stream EXCEPT !.mode = "closing", !.line = line]
  <2>1. line \in Seq(Events(ends)) /\ line \in Seq(Event)
    <3>1. row \in Ended => row \in ends
      BY <1>1 DEF TrueInv
    <3>2. line \in Seq(Events(ends))
      BY <1>1, <1>2, <3>1, FromRowTold
    <3>3. QED
      BY <3>2, ToldSubset
  <2> HIDE DEF line
  <2>2. StreamTrue(st)
    BY <1>1, <2>1 DEF StreamTrue, Stream
  <2>3. stream' = st
    BY <1>9 DEF Reread, line
  <2> HIDE DEF st
  <2>4. QED
    BY <1>1, <1>2, <1>9, <2>2, <2>3, HeldStep DEF Reread, quiet, hear
<1>10. QED
  BY <1>3, <1>4, <1>5, <1>6, <1>7, <1>8, <1>9 DEF Serve

LEMMA StreamStep == StreamInv /\ [Next]_vars => StreamInv'
<1> SUFFICES ASSUME StreamInv, [Next]_vars PROVE StreamInv'
  OBVIOUS
<1>1. CASE UNCHANGED vars
  <2>1. UNCHANGED vars /\ UNCHANGED run /\ UNCHANGED hear
    BY <1>1 DEF vars
  <2>2. TypeOK' /\ TaskOK'
    BY <2>1 DEF vars, run, hear, StreamInv, TypeOK, TaskOK
  <2>3. TrueInv'
    BY <2>1 DEF vars, run, hear, StreamInv, TrueInv, EndIsRecorded, Committed
  <2>4. QED
    BY <2>2, <2>3 DEF StreamInv
<1>2. CASE Next
  BY <1>2, RunStep, ProcessStep, ClientStep, ServeStep DEF Next
<1>3. QED
  BY <1>1, <1>2

-----------------------------------------------------------------------------
(* The theorem *)

\* The client is never told of an end that the row has not had: not by a live
\* event, one of the history or one made from the row, whatever dies or drains,
\* however often the connection breaks (Settle and Say of _execute,
\* StopPaused and SayStopped of cancel_run, stream_run_events and streamRun).
THEOREM ToldEndIsRecorded == Spec => []EndIsRecorded
<1>1. Init => StreamInv
  BY InitTrue
<1>2. StreamInv /\ [Next]_vars => StreamInv'
  BY StreamStep
<1>3. StreamInv => EndIsRecorded
  BY DEF StreamInv, TrueInv
<1>4. QED
  BY <1>1, <1>2, <1>3, PTL DEF Spec

\* Types, and what is queued for a subscriber stays within its limit.
THEOREM StreamTyped == Spec => []TypeOK
<1>1. StreamInv => TypeOK
  BY DEF StreamInv
<1>2. QED
  BY <1>1, InitTrue, StreamStep, PTL DEF Spec

-----------------------------------------------------------------------------
(* The numbers *)

\* Events numbered one after the other, the first at most one above n
Ordered(s)    == \A i \in 1..(Len(s) - 1) : s[i + 1].seq = s[i].seq + 1
Follow(n, s)  == Ordered(s) /\ (s # <<>> => s[1].seq <= n + 1)

\* The number a client at n is at when it has got s
Reach(n, s)   == IF s = <<>> THEN n ELSE IF s[Len(s)].seq <= n THEN n ELSE s[Len(s)].seq

\* What a stream holds goes on from the client's number n, and what its process,
\* that has emitted so many events, will emit goes on from what the stream holds.
Gapless(st, n, emitted) ==
  /\ st.after <= n /\ Follow(n, st.line) /\ Follow(Reach(n, st.line), st.queue)
  /\ st.mode \in {"reading", "read"} => st.line = <<>>
  /\ st.on => IF st.queue = <<>> THEN emitted <= Reach(n, st.line)
                                 ELSE emitted = st.queue[Len(st.queue)].seq

\* NoGap is not inductive: it needs that whatever is on its way goes on from the
\* number the client is at.
GapInv ==
  /\ client.base <= client.lastSeq /\ client.lastId <= client.lastSeq
  /\ stream.on => stream.at \in Replica
  /\ ~missed => /\ Len(folded) = client.lastSeq
                /\ Gapless(stream, client.lastSeq, Len(bus[stream.at]))

LEMMA ReachIs ==
  ASSUME NEW n \in Nat, NEW s \in Seq(Event)
  PROVE  /\ Reach(n, s) \in Nat /\ n <= Reach(n, s)
         /\ s # <<>> => s[Len(s)].seq \in Nat /\ s[Len(s)].seq <= Reach(n, s)
         /\ Reach(n, s) = n \/ (s # <<>> /\ Reach(n, s) = s[Len(s)].seq)
<1>1. CASE s = <<>> BY <1>1 DEF Reach
<1>2. CASE s # <<>>
  <2>1. Len(s) \in 1..Len(s) BY <1>2
  <2>2. s[Len(s)] \in Event BY <2>1
  <2>3. s[Len(s)].seq \in Nat BY <2>2 DEF Event
  <2>4. QED BY <1>2, <2>3 DEF Reach
<1>3. QED BY <1>1, <1>2

LEMMA FollowFurther ==
  ASSUME NEW n \in Nat, NEW m \in Nat, n <= m, NEW s \in Seq(Event)
  PROVE  /\ Reach(n, s) <= Reach(m, s)
         /\ Follow(n, s) => Follow(m, s)
<1>1. s # <<>> => s[1].seq \in Nat
  <2>1. s # <<>> => s[1] \in Event OBVIOUS
  <2>2. QED BY <2>1 DEF Event
<1>2. Reach(n, s) <= Reach(m, s)
  BY ReachIs
<1>3. Follow(n, s) => Follow(m, s) BY <1>1 DEF Follow
<1>4. QED BY <1>2, <1>3

LEMMA FollowNothing == ASSUME NEW n PROVE Follow(n, <<>>) /\ Reach(n, <<>>) = n
  BY DEF Follow, Ordered, Reach

\* The rest follows, when a client has got the first.
LEMMA FollowTail ==
  ASSUME NEW n \in Nat, NEW m \in Nat, NEW s \in Seq(Event), s # <<>>, Follow(n, s),
         n <= m, Head(s).seq <= m
  PROVE  /\ Tail(s) \in Seq(Event) /\ Follow(m, Tail(s)) /\ Reach(n, s) <= Reach(m, Tail(s))
         /\ Tail(s) # <<>> => Tail(s)[Len(Tail(s))] = s[Len(s)]
         /\ Tail(s) = <<>> => s[Len(s)].seq <= m
<1> DEFINE t == Tail(s)
<1>1. /\ t \in Seq(Event) /\ Len(t) = Len(s) - 1 /\ Len(s) \in Nat /\ Len(s) >= 1
      /\ \A i \in 1..Len(t) : t[i] = s[i + 1]
  BY HeadTailProperties
<1>2. Head(s) = s[1] /\ s[1] \in Event BY <1>1
<1>3. \A i \in 1..Len(s) : s[i].seq \in Nat
  <2>1. \A i \in 1..Len(s) : s[i] \in Event OBVIOUS
  <2>2. QED BY <2>1 DEF Event
<1>4. Ordered(t)
  <2>1. ASSUME NEW i \in 1..(Len(t) - 1) PROVE t[i + 1].seq = t[i].seq + 1
    <3>1. t[i] = s[i + 1] /\ t[i + 1] = s[(i + 1) + 1] BY <1>1
    <3>2. i + 1 \in 1..(Len(s) - 1) BY <1>1
    <3>3. QED BY <3>1, <3>2 DEF Follow, Ordered
  <2>2. QED BY <2>1 DEF Ordered
<1> HIDE DEF t
<1>5. CASE t = <<>>
  <2>1. Len(s) = 1 BY <1>1, <1>5
  <2>2. s[Len(s)].seq <= m BY <1>2, <2>1
  <2>3. Reach(n, s) <= m BY <2>2, ReachIs
  <2>4. QED BY <1>1, <1>5, <2>2, <2>3, FollowNothing DEF t
<1>6. CASE t # <<>>
  <2>1. Len(t) >= 1 /\ Len(s) >= 2 BY <1>1, <1>6
  <2>2. t[1] = s[2] /\ t[Len(t)] = s[Len(s)]
    BY <1>1, <2>1
  <2>3. s[1 + 1].seq = s[1].seq + 1
    <3>1. 1 \in 1..(Len(s) - 1) BY <1>1, <2>1
    <3>2. QED BY <3>1 DEF Follow, Ordered
  <2>4. t[1].seq <= m + 1 BY <1>1, <1>2, <1>3, <2>1, <2>2, <2>3
  <2>5. Follow(m, t) BY <1>4, <2>4 DEF Follow
  <2>6. Reach(n, s) <= Reach(m, t)
    <3>1. Reach(m, t) \in Nat /\ m <= Reach(m, t) /\ t[Len(t)].seq <= Reach(m, t)
      BY <1>1, <1>6, ReachIs
    <3>2. Reach(n, s) \in Nat /\ (Reach(n, s) = n \/ Reach(n, s) = s[Len(s)].seq)
      BY ReachIs
    <3>3. QED BY <2>2, <3>1, <3>2
  <2>7. QED BY <1>1, <1>6, <2>2, <2>5, <2>6 DEF t
<1>7. QED BY <1>5, <1>6

\* The events that get the numbers after `after`, or a tail of them
LEMMA FollowNumbered ==
  ASSUME NEW K, NEW kinds \in Seq(K), K \subseteq Kind, NEW after \in Nat, NEW n \in Nat, after <= n
  PROVE  /\ Numbered(kinds, after) \in Seq(Event) /\ Len(Numbered(kinds, after)) = Len(kinds)
         /\ Follow(n, Numbered(kinds, after))
         /\ \A i \in 1..Len(kinds) : Numbered(kinds, after)[i].seq = after + i
<1> DEFINE s == Numbered(kinds, after)
<1>1. Len(kinds) \in Nat /\ \A i \in 1..Len(kinds) : kinds[i] \in Kind OBVIOUS
<1>2. s = [i \in 1..Len(kinds) |-> [kind |-> kinds[i], seq |-> after + i]] BY DEF Numbered
<1>3. \A i \in 1..Len(kinds) : [kind |-> kinds[i], seq |-> after + i] \in Event
  BY <1>1 DEF Event
<1>4. s \in Seq(Event) /\ Len(s) = Len(kinds) BY <1>1, <1>2, <1>3
<1>5. \A i \in 1..Len(kinds) : s[i].seq = after + i BY <1>2
<1> HIDE DEF s
<1>6. Ordered(s)
  <2>1. ASSUME NEW i \in 1..(Len(s) - 1) PROVE s[i + 1].seq = s[i].seq + 1
    <3>1. i \in 1..Len(kinds) /\ i + 1 \in 1..Len(kinds) BY <1>1, <1>4
    <3>2. s[i].seq = after + i /\ s[i + 1].seq = after + (i + 1) BY <1>5, <3>1
    <3>3. QED BY <3>1, <3>2
  <2>2. QED BY <2>1 DEF Ordered
<1>7. s # <<>> => s[1].seq <= n + 1
  <2>1. s # <<>> => 1 \in 1..Len(kinds) BY <1>1, <1>4
  <2>2. QED BY <1>5, <2>1
<1>8. QED BY <1>4, <1>5, <1>6, <1>7 DEF Follow, s

\* What subscribe gives goes up to the last event the process has.
LEMMA FollowHistory ==
  ASSUME NEW p \in Replica, bus \in [Replica -> Seq(Kind)], NEW after \in Nat, NEW n \in Nat, after <= n
  PROVE  /\ History(p, after) \in Seq(Event) /\ Follow(n, History(p, after))
         /\ Len(bus[p]) <= Reach(n, History(p, after))
<1> DEFINE all == Numbered(bus[p], 0)
           h   == History(p, after)
<1>1. bus[p] \in Seq(Kind) /\ Len(bus[p]) \in Nat OBVIOUS
<1>2. all \in Seq(Event) /\ Len(all) = Len(bus[p]) /\ \A i \in 1..Len(bus[p]) : all[i].seq = 0 + i
  BY <1>1, FollowNumbered
<1>3. h = SubSeq(all, after + 1, Len(bus[p])) BY DEF History
<1> HIDE DEF all, h
<1>4. CASE after >= Len(bus[p])
  <2>1. h = <<>> BY <1>1, <1>2, <1>3, <1>4, SubSeqProperties
  <2>2. Len(bus[p]) <= n BY <1>1, <1>4
  <2>3. QED BY <2>1, <2>2, FollowNothing, EmptySeq DEF h
<1>5. CASE after < Len(bus[p])
  <2> DEFINE l == Len(bus[p]) - after
  <2>1. l \in Nat /\ l >= 1 BY <1>1, <1>5
  <2>2. /\ h \in Seq(Event) /\ Len(h) = l
        /\ \A i \in 1..l : h[i] = all[after + i]
    <3>1. \A i \in (after + 1)..Len(bus[p]) : all[i] \in Event BY <1>1, <1>2
    <3>2. (after + 1) \in Int /\ Len(bus[p]) \in Int BY <1>1
    <3>3. /\ h \in Seq(Event)
          /\ Len(h) = Len(bus[p]) - (after + 1) + 1
          /\ \A i \in 1..(Len(bus[p]) - (after + 1) + 1) : h[i] = all[(after + 1) + i - 1]
      BY <1>1, <1>3, <1>5, <3>1, <3>2, SubSeqProperties
    <3>4. QED BY <1>1, <1>5, <3>3
  <2>3. \A i \in 1..l : h[i].seq = after + i
    <3>1. \A i \in 1..l : after + i \in 1..Len(bus[p]) BY <1>1, <1>5
    <3>2. QED BY <1>2, <2>2, <3>1
  <2> HIDE DEF l
  <2>4. Ordered(h)
    <3>1. ASSUME NEW i \in 1..(Len(h) - 1) PROVE h[i + 1].seq = h[i].seq + 1
      <4>1. i \in 1..l /\ i + 1 \in 1..l BY <2>1, <2>2
      <4>2. h[i].seq = after + i /\ h[i + 1].seq = after + (i + 1) BY <2>3, <4>1
      <4>3. QED BY <4>1, <4>2
    <3>2. QED BY <3>1 DEF Ordered
  <2>5. h # <<>> /\ h[1].seq <= n + 1 BY <2>1, <2>2, <2>3
  <2>6. h[Len(h)].seq = after + l BY <2>1, <2>2, <2>3
  <2>7. Len(bus[p]) <= Reach(n, h)
    <3>1. h[Len(h)].seq <= Reach(n, h) BY <2>2, <2>5, ReachIs
    <3>2. after + l = Len(bus[p]) BY <1>1 DEF l
    <3>3. QED BY <2>6, <3>1, <3>2
  <2>8. QED BY <2>2, <2>4, <2>5, <2>7 DEF Follow, h
<1>6. QED BY <1>1, <1>4, <1>5

LEMMA FollowFromRow ==
  ASSUME NEW s, NEW after \in Nat, NEW n \in Nat, after <= n
  PROVE  FromRow(s, after) \in Seq(Event) /\ Follow(n, FromRow(s, after))
<1>1. CASE s \in Ended \cup {"paused"}
  <2>1. Story(s) \in Seq(Kinds(Ended)) BY <1>1, StoryTold
  <2>2. Kinds(Ended) \subseteq Kind BY DEF Kinds
  <2>3. QED BY <1>1, <2>1, <2>2, FollowNumbered DEF FromRow
<1>2. CASE s \notin Ended \cup {"paused"}
  BY <1>2, FollowNothing, EmptySeq DEF FromRow
<1>3. QED BY <1>1, <1>2

\* What a process emits next goes on from what the subscriber's queue holds.
LEMMA FollowAppend ==
  ASSUME NEW n \in Nat, NEW b \in Nat, NEW q \in Seq(Event), NEW new \in Seq(Event),
         Follow(n, q), Ordered(new),
         IF q = <<>> THEN b <= n ELSE b = q[Len(q)].seq,
         \A i \in 1..Len(new) : new[i].seq = b + i
  PROVE  /\ Follow(n, q \o new)
         /\ IF q \o new = <<>> THEN b + Len(new) <= n
                               ELSE b + Len(new) = (q \o new)[Len(q \o new)].seq
<1> DEFINE s == q \o new
<1>1. Len(q) \in Nat /\ Len(new) \in Nat OBVIOUS
<1>2. /\ s \in Seq(Event) /\ Len(s) = Len(q) + Len(new)
      /\ \A i \in 1..Len(q) : s[i] = q[i]
      /\ \A i \in 1..Len(new) : s[Len(q) + i] = new[i]
  BY <1>1, ConcatProperties
<1> HIDE DEF s
<1>3. Ordered(s)
  <2>1. ASSUME NEW i \in 1..(Len(s) - 1) PROVE s[i + 1].seq = s[i].seq + 1
    <3>1. CASE i + 1 <= Len(q)
      <4>1. i \in 1..Len(q) /\ i + 1 \in 1..Len(q) /\ i \in 1..(Len(q) - 1) BY <1>1, <1>2, <3>1
      <4>2. q[i + 1].seq = q[i].seq + 1 BY <4>1 DEF Follow, Ordered
      <4>3. s[i] = q[i] /\ s[i + 1] = q[i + 1] BY <1>2, <4>1
      <4>4. QED BY <4>2, <4>3
    <3>2. CASE i = Len(q)
      <4>1. i \in 1..Len(q) /\ 1 \in 1..Len(new) BY <1>1, <1>2, <3>2
      <4>2. s[i] = q[Len(q)] /\ s[i + 1] = new[1] BY <1>2, <3>2, <4>1
      <4>3. q # <<>> BY <1>1, <4>1, EmptySeq
      <4>4. QED BY <4>1, <4>2, <4>3
    <3>3. CASE i > Len(q)
      <4> DEFINE j == i - Len(q)
      <4>0. Len(s) = Len(q) + Len(new) BY <1>2
      <4>1. j \in 1..Len(new) /\ j + 1 \in 1..Len(new) /\ j \in Nat BY <1>1, <3>3, <4>0
      <4>2. i = Len(q) + j /\ i + 1 = Len(q) + (j + 1) BY <1>1, <3>3
      <4> HIDE DEF j
      <4>3. s[i] = new[j] /\ s[i + 1] = new[j + 1] BY <1>2, <4>1, <4>2
      <4>4. new[j].seq = b + j /\ new[j + 1].seq = b + (j + 1) BY <4>1
      <4>5. QED BY <4>1, <4>3, <4>4
    <3>4. QED BY <1>1, <1>2, <3>1, <3>2, <3>3
  <2>2. QED BY <2>1 DEF Ordered
<1>4. CASE q = <<>>
  <2>1. Len(q) = 0 BY <1>4
  <2>2. s = <<>> => Len(new) = 0 BY <1>1, <1>2, <2>1, EmptySeq
  <2>3. ASSUME s # <<>> PROVE s[1].seq <= n + 1 /\ b + Len(new) = s[Len(s)].seq
    <3>1. Len(s) # 0 BY <1>2, <2>3
    <3>2. 1 \in 1..Len(new) /\ Len(new) \in 1..Len(new) BY <1>1, <1>2, <2>1, <3>1
    <3>3. s[1] = new[1] /\ s[Len(s)] = new[Len(new)] BY <1>1, <1>2, <2>1, <3>2
    <3>4. new[1].seq = b + 1 /\ new[Len(new)].seq = b + Len(new) BY <3>2
    <3>5. QED BY <1>4, <3>3, <3>4
  <2>4. s = <<>> => b + Len(new) <= n BY <1>4, <2>2
  <2>5. QED BY <1>3, <2>3, <2>4 DEF Follow, s
<1>5. CASE q # <<>>
  <2>1. Len(q) >= 1 /\ b = q[Len(q)].seq BY <1>1, <1>5
  <2>2. s # <<>> BY <1>1, <1>2, <2>1, EmptySeq
  <2>3. s[1] = q[1] BY <1>1, <1>2, <2>1
  <2>4. s[1].seq <= n + 1 BY <1>5, <2>3 DEF Follow
  <2>5. b + Len(new) = s[Len(s)].seq
    <3>1. CASE Len(new) = 0 BY <1>1, <1>2, <2>1, <3>1
    <3>2. CASE Len(new) # 0
      <4>1. Len(new) \in 1..Len(new) BY <1>1, <3>2
      <4>2. s[Len(s)] = new[Len(new)] BY <1>2, <4>1
      <4>3. QED BY <4>1, <4>2
    <3>3. QED BY <3>1, <3>2
  <2>6. QED BY <1>3, <2>2, <2>4, <2>5 DEF Follow, s
<1>6. QED BY <1>4, <1>5

LEMMA GaplessNothing == ASSUME NEW n \in Nat, NEW b PROVE Gapless(NoStream, n, b)
<1>1. /\ NoStream.after = 0 /\ NoStream.line = <<>> /\ NoStream.queue = <<>>
      /\ NoStream.mode = "closed" /\ NoStream.on = FALSE
  BY DEF NoStream
<1>2. QED BY <1>1, FollowNothing DEF Gapless

\* A subscriber gets what its process emits.
LEMMA GaplessEmit ==
  ASSUME NEW st \in Stream, NEW n \in Nat, NEW b \in Nat, NEW new \in Seq(Event), st.on,
         Gapless(st, n, b), Ordered(new), \A i \in 1..Len(new) : new[i].seq = b + i
  PROVE  Gapless([st EXCEPT !.queue = st.queue \o new], n, b + Len(new))
<1> DEFINE q == st.queue
           m == Reach(n, st.line)
           next == [st EXCEPT !.queue = q \o new]
<1>1. q \in Seq(Event) /\ st.line \in Seq(Event) BY DEF Stream
<1>2. m \in Nat BY <1>1, ReachIs
<1>3. /\ next.queue = q \o new /\ next.line = st.line /\ next.after = st.after
      /\ next.mode = st.mode /\ next.on = st.on
  BY DEF Stream
<1>4. /\ Follow(m, q) /\ st.after <= n /\ Follow(n, st.line)
      /\ st.mode \in {"reading", "read"} => st.line = <<>>
      /\ IF q = <<>> THEN b <= m ELSE b = q[Len(q)].seq
  BY DEF Gapless
<1> HIDE DEF q, m, next
<1>5. /\ Follow(m, q \o new)
      /\ IF q \o new = <<>> THEN b + Len(new) <= m
                            ELSE b + Len(new) = (q \o new)[Len(q \o new)].seq
  BY <1>1, <1>2, <1>4, FollowAppend
<1>6. Gapless(next, n, b + Len(new))
  BY <1>3, <1>4, <1>5 DEF Gapless, m
<1>7. QED BY <1>6 DEF next, q

\* The types that the steps below need
LEMMA GapTyped ==
  ASSUME StreamInv
  PROVE  /\ stream \in Stream /\ client.lastSeq \in Nat /\ folded \in Seq(Kind)
         /\ Len(folded) \in Nat
         /\ stream.line \in Seq(Event) /\ stream.queue \in Seq(Event) /\ stream.after \in Nat
         /\ client.base \in Nat /\ client.lastId \in Nat
         /\ bus \in [Replica -> Seq(Kind)]
  BY DEF StreamInv, TypeOK, Stream

LEMMA GapEmit ==
  ASSUME StreamInv, GapInv, NEW p \in Replica, NEW kinds \in Seq(Kind), Emit(p, kinds), UNCHANGED hear
  PROVE  GapInv'
<1> DEFINE b   == Len(bus[p])
           new == Numbered(kinds, b)
<1>1. /\ stream \in Stream /\ client.lastSeq \in Nat /\ bus \in [Replica -> Seq(Kind)]
      /\ bus[p] \in Seq(Kind) /\ b \in Nat
  BY GapTyped
<1>2. client' = client /\ folded' = folded BY DEF hear
<1>3. PICK n \in Nat : n = client.lastSeq BY <1>1
<1>4. /\ client'.lastSeq = n /\ client'.base <= n /\ client'.lastId <= n
      /\ stream.on => stream.at \in Replica
  BY <1>2, <1>3 DEF GapInv
<1>5. stream'.on => stream'.at \in Replica
  <2>1. stream'.on = stream.on /\ stream'.at = stream.at
    BY <1>1 DEF Emit, Stream
  <2>2. QED BY <1>4, <2>1
<1>6. ASSUME ~missed' PROVE Len(folded') = n /\ Gapless(stream', n, Len(bus'[stream'.at]))
  <2>1. ~missed BY <1>6 DEF Emit
  <2>2. Len(folded) = n /\ Gapless(stream, n, Len(bus[stream.at])) BY <1>3, <2>1 DEF GapInv
  <2>3. /\ new \in Seq(Event) /\ Len(new) = Len(kinds) /\ Len(kinds) \in Nat /\ Follow(b, new)
        /\ \A i \in 1..Len(kinds) : new[i].seq = b + i
    BY <1>1, FollowNumbered
  <2>4. bus' = [bus EXCEPT ![p] = bus[p] \o kinds] BY DEF Emit
  <2>5. Len(bus'[p]) = b + Len(new)
    <3>1. Len(bus[p] \o kinds) = Len(bus[p]) + Len(kinds) BY <1>1, ConcatProperties
    <3>2. bus'[p] = bus[p] \o kinds BY <1>1, <2>4
    <3>3. QED BY <2>3, <3>1, <3>2
  <2>6. CASE stream.at = p /\ stream.on
    <3>1. stream' = [stream EXCEPT !.queue = stream.queue \o SubSeq(new, 1, Len(new))]
      BY <1>6, <2>3, <2>6 DEF Emit
    <3>2. SubSeq(new, 1, Len(new)) = new BY <2>3
    <3>3. stream' = [stream EXCEPT !.queue = stream.queue \o new] BY <3>1, <3>2
    <3>4. stream'.at = p BY <1>1, <2>6, <3>3 DEF Stream
    <3>5. Ordered(new) BY <2>3 DEF Follow
    <3>6. Gapless(stream, n, b) BY <2>2, <2>6
    <3> HIDE DEF new, b
    <3>7. Gapless([stream EXCEPT !.queue = stream.queue \o new], n, b + Len(new))
      BY <1>1, <2>3, <2>6, <3>5, <3>6, GaplessEmit
    <3>8. QED BY <1>2, <2>2, <2>5, <3>3, <3>4, <3>7
  <2>7. CASE ~(stream.at = p /\ stream.on)
    <3>1. stream' = stream BY <2>7 DEF Emit
    <3>2. CASE stream.on
      <4>1. stream.at \in Replica /\ stream.at # p BY <1>4, <2>7, <3>2
      <4>2. bus'[stream.at] = bus[stream.at] BY <1>1, <2>4, <4>1
      <4>3. QED BY <1>2, <2>2, <3>1, <4>2
    <3>3. CASE ~stream.on
      <4>1. Gapless(stream, n, Len(bus'[stream.at])) BY <2>2, <3>3 DEF Gapless
      <4>2. QED BY <1>2, <2>2, <3>1, <4>1
    <3>4. QED BY <3>2, <3>3
  <2>8. QED BY <2>6, <2>7
<1>7. QED BY <1>4, <1>5, <1>6 DEF GapInv

\* A step of which neither the stream nor the client knows, or that breaks it
LEMMA GapQuiet ==
  ASSUME StreamInv, GapInv, UNCHANGED <<bus, client, folded, missed>>, stream' \in {stream, NoStream}
  PROVE  GapInv'
<1>1. CASE stream' = stream BY <1>1 DEF GapInv
<1>2. CASE stream' = NoStream
  <2>1. client.lastSeq \in Nat BY GapTyped
  <2>2. Gapless(NoStream, client.lastSeq, Len(bus[NoStream.at])) BY <2>1, GaplessNothing
  <2>3. NoStream.on = FALSE BY DEF NoStream
  <2>4. QED BY <1>2, <2>2, <2>3 DEF GapInv
<1>3. QED BY <1>1, <1>2

\* A process loses its events, and the stream it serves or the stream's place in them.
LEMMA GapForgotten ==
  ASSUME StreamInv, GapInv, NEW p \in Replica, bus' = [bus EXCEPT ![p] = <<>>],
         UNCHANGED <<client, folded, missed>>,
         \/ stream.at # p /\ stream' = stream
         \/ stream' = NoStream
         \/ stream' = [stream EXCEPT !.on = FALSE]
  PROVE  GapInv'
<1>1. stream \in Stream /\ client.lastSeq \in Nat /\ bus \in [Replica -> Seq(Kind)] BY GapTyped
<1>2. CASE stream.at # p /\ stream' = stream
  <2>1. CASE stream.on
    <3>1. bus'[stream.at] = bus[stream.at] BY <1>1, <1>2, <2>1 DEF GapInv
    <3>2. QED BY <1>2, <3>1 DEF GapInv
  <2>2. CASE ~stream.on
    <3>1. ~missed => Gapless(stream, client.lastSeq, Len(bus'[stream.at]))
      BY <2>2 DEF GapInv, Gapless
    <3>2. QED BY <1>2, <2>2, <3>1 DEF GapInv
  <2>3. QED BY <2>1, <2>2
<1>3. CASE stream' = NoStream
  <2>1. Gapless(NoStream, client.lastSeq, Len(bus'[NoStream.at])) BY <1>1, GaplessNothing
  <2>2. NoStream.on = FALSE BY DEF NoStream
  <2>3. QED BY <1>3, <2>1, <2>2 DEF GapInv
<1>4. CASE stream' = [stream EXCEPT !.on = FALSE]
  <2>1. /\ stream'.on = FALSE /\ stream'.after = stream.after /\ stream'.mode = stream.mode
        /\ stream'.line = stream.line /\ stream'.queue = stream.queue
    BY <1>1, <1>4 DEF Stream
  <2>2. ~missed => Gapless(stream', client.lastSeq, Len(bus'[stream'.at]))
    BY <2>1 DEF GapInv, Gapless
  <2>3. QED BY <2>1, <2>2 DEF GapInv
<1>5. QED BY <1>2, <1>3, <1>4

LEMMA GapRun ==
  ASSUME StreamInv, GapInv,
         \/ Start \/ Begin \/ Token \/ Say \/ Leave
         \/ \E s \in Ended \cup {"paused", "overrun"} : Settle(s)
         \/ \E p \in Replica : Resume(p) \/ StopPaused(p) \/ SayStopped(p)
  PROVE  GapInv'
<1>1. CASE Start BY <1>1, GapQuiet DEF Start, hear
<1>2. CASE Begin
  <2>1. <<"running">> \in Seq(Kind) BY OneIsSeq DEF Kind
  <2>2. task.at \in Replica /\ Emit(task.at, <<"running">>) /\ UNCHANGED hear
    BY <1>2 DEF Begin, StreamInv, TaskOK
  <2>3. QED BY <2>1, <2>2, GapEmit
<1>3. CASE Token
  <2>1. <<"token">> \in Seq(Kind) BY OneIsSeq DEF Kind
  <2>2. task.at \in Replica /\ Emit(task.at, <<"token">>) /\ UNCHANGED hear
    BY <1>3 DEF Token, StreamInv, TaskOK
  <2>3. QED BY <2>1, <2>2, GapEmit
<1>4. CASE Say
  <2>1. Committed \in Ended \cup {"paused"}
    BY <1>4 DEF Say, StreamInv, TypeOK, TrueInv
  <2>2. Story(Committed) \in Seq(Kind)
    <3>1. Story(Committed) \in Seq(Kinds(Ended)) BY <2>1, StoryTold
    <3>2. QED BY <3>1, ToldSubset
  <2>3. task.at \in Replica /\ Emit(task.at, Story(Committed)) /\ UNCHANGED hear
    BY <1>4 DEF Say, StreamInv, TaskOK, Committed
  <2>4. QED BY <2>2, <2>3, GapEmit
<1>5. CASE Leave BY <1>5, GapQuiet DEF Leave, hear
<1>6. ASSUME NEW s \in Ended \cup {"paused", "overrun"}, Settle(s) PROVE GapInv'
  <2>1. UNCHANGED <<bus, stream, hear, missed>> BY <1>6, Zenon DEF Settle
  <2>2. QED BY <2>1, GapQuiet DEF hear
<1>7. ASSUME NEW p \in Replica, Resume(p) PROVE GapInv'
  BY <1>7, GapQuiet DEF Resume, hear
<1>8. ASSUME NEW p \in Replica, StopPaused(p) PROVE GapInv'
  BY <1>8, GapQuiet DEF StopPaused, hear
<1>9. ASSUME NEW p \in Replica, SayStopped(p) PROVE GapInv'
  <2>1. Story("cancelled") \in Seq(Kind)
    <3>1. Story("cancelled") \in Seq(Kinds(Ended)) BY StoryTold DEF Ended
    <3>2. QED BY <3>1, ToldSubset
  <2>2. Emit(p, Story("cancelled")) /\ UNCHANGED hear BY <1>9 DEF SayStopped
  <2>3. QED BY <2>1, <2>2, GapEmit
<1>10. QED BY <1>1, <1>2, <1>3, <1>4, <1>5, <1>6, <1>7, <1>8, <1>9

LEMMA GapDown ==
  ASSUME StreamInv, GapInv, NEW p \in Replica, Down(p)
  PROVE  GapInv'
<1>1. stream' = NoStream \/ (stream.at # p /\ stream' = stream) BY DEF Down
<1>2. bus' = [bus EXCEPT ![p] = <<>>] /\ UNCHANGED <<client, folded, missed>> BY DEF Down, hear
<1>3. QED BY <1>1, <1>2, GapForgotten

LEMMA GapProcess ==
  ASSUME StreamInv, GapInv,
         \/ \E p \in Replica : Crash(p) \/ Drain(p) \/ Exit(p) \/ Boot(p) \/ Evict(p)
         \/ ReapDeadOwner \/ ReapStalled
  PROVE  GapInv'
<1>1. ASSUME NEW p \in Replica, Crash(p) PROVE GapInv' BY <1>1, GapDown DEF Crash
<1>2. ASSUME NEW p \in Replica, Drain(p) PROVE GapInv'
  BY <1>2, GapQuiet DEF Drain, hear
<1>3. ASSUME NEW p \in Replica, Exit(p) PROVE GapInv' BY <1>3, GapDown DEF Exit
<1>4. ASSUME NEW p \in Replica, Boot(p) PROVE GapInv'
  BY <1>4, GapQuiet DEF Boot, hear
<1>5. ASSUME NEW p \in Replica, Evict(p) PROVE GapInv'
  <2>1. (stream.at # p /\ stream' = stream) \/ stream' = [stream EXCEPT !.on = FALSE]
    BY <1>5 DEF Evict
  <2>2. bus' = [bus EXCEPT ![p] = <<>>] /\ UNCHANGED <<client, folded, missed>>
    BY <1>5 DEF Evict, hear
  <2>3. QED BY <2>1, <2>2, GapForgotten
<1>6. CASE ReapDeadOwner BY <1>6, GapQuiet DEF ReapDeadOwner, hear
<1>7. CASE ReapStalled BY <1>7, GapQuiet DEF ReapStalled, hear
<1>8. QED BY <1>1, <1>2, <1>3, <1>4, <1>5, <1>6, <1>7

LEMMA GapClient ==
  ASSUME StreamInv, GapInv, (\E p \in Replica : Connect(p) \/ Refused(p)) \/ Drop
  PROVE  GapInv'
<1>1. /\ client.lastSeq \in Nat /\ client.base \in Nat /\ client.lastId \in Nat
      /\ bus \in [Replica -> Seq(Kind)]
  BY GapTyped
<1>2. ASSUME NEW p \in Replica, Connect(p) PROVE GapInv'
  <2> DEFINE line == History(p, Cursor)
  <2>1. Cursor \in Nat /\ Cursor <= client.lastSeq BY <1>1 DEF Cursor, GapInv
  <2>2. /\ line \in Seq(Event) /\ Follow(client.lastSeq, line)
        /\ Len(bus[p]) <= Reach(client.lastSeq, line)
    BY <1>1, <2>1, FollowHistory
  <2>3. UNCHANGED <<client, folded, missed, bus>> BY <1>2 DEF Connect, hear
  <2>4. /\ stream'.at = p /\ stream'.on /\ stream'.after = Cursor /\ stream'.line = line
        /\ stream'.queue = <<>>
        /\ stream'.mode \in {"reading", "read"} => line = <<>>
    BY <1>2 DEF Connect
  <2> HIDE DEF line
  <2>5. Reach(client.lastSeq, line) \in Nat BY <1>1, <2>2, ReachIs
  <2>6. Gapless(stream', client.lastSeq, Len(bus[p]))
    BY <2>1, <2>2, <2>4, <2>5, FollowNothing DEF Gapless
  <2>7. QED BY <2>3, <2>4, <2>6 DEF GapInv
<1>3. ASSUME NEW p \in Replica, Refused(p) PROVE GapInv'
  <2>1. /\ client'.lastSeq = client.lastSeq
        /\ client'.base <= client.lastSeq /\ client'.lastId <= client.lastSeq
    <3>1. client \in [ended : Ended \cup {"no", "lost"}, lastSeq : Nat, lastId : Nat, base : Nat,
                      reopens : Nat]
      BY DEF StreamInv, TypeOK
    <3>2. CASE client' = [client EXCEPT !.reopens = client.reopens + 1, !.base = client.lastSeq,
                                        !.lastId = 0]
      BY <1>1, <3>1, <3>2
    <3>3. CASE client' = [client EXCEPT !.ended = "lost"]
      BY <3>1, <3>3 DEF GapInv
    <3>4. QED BY <1>3, <3>2, <3>3 DEF Refused
  <2>2. UNCHANGED <<folded, missed, bus, stream>> BY <1>3 DEF Refused
  <2>3. QED BY <2>1, <2>2 DEF GapInv
<1>4. CASE Drop BY <1>4, GapQuiet DEF Drop, hear
<1>5. QED BY <1>2, <1>3, <1>4

\* The stream looks at the row: what it makes of it goes on from the client's number.
LEMMA GaplessRow ==
  ASSUME NEW st \in Stream, NEW st2 \in Stream, NEW n \in Nat, NEW b \in Nat, Gapless(st, n, b),
         st.line = <<>>, st2.on = st.on, st2.queue = st.queue, st2.after = st.after,
         Follow(n, st2.line), st2.mode \notin {"reading", "read"} \/ st2.line = <<>>
  PROVE  Gapless(st2, n, b)
<1> DEFINE m == Reach(n, st2.line)
<1>1. /\ st.queue \in Seq(Event) /\ st2.line \in Seq(Event) BY DEF Stream
<1>2. m \in Nat /\ n <= m BY <1>1, ReachIs
<1>3. Reach(n, st.line) = n BY FollowNothing
<1>4. /\ st.after <= n /\ Follow(n, st.queue)
      /\ st.on => IF st.queue = <<>> THEN b <= n ELSE b = st.queue[Len(st.queue)].seq
  BY <1>3 DEF Gapless
<1>5. Follow(m, st.queue) BY <1>1, <1>2, <1>4, FollowFurther
<1> HIDE DEF m
<1>6. st.on => IF st.queue = <<>> THEN b <= m ELSE b = st.queue[Len(st.queue)].seq
  BY <1>2, <1>4
<1>7. QED BY <1>4, <1>5, <1>6 DEF Gapless, m

\* The number the client is at, when it has got the event e
After(n, e) == IF e.seq <= n THEN n ELSE e.seq

LEMMA GaplessLine ==
  ASSUME NEW st \in Stream, NEW n \in Nat, NEW b \in Nat, Gapless(st, n, b), st.line # <<>>
  PROVE  /\ Head(st.line) \in Event /\ Head(st.line).seq <= n + 1
         /\ Gapless([st EXCEPT !.line = Tail(st.line)], After(n, Head(st.line)), b)
<1> DEFINE l    == st.line
           q    == st.queue
           e    == Head(l)
           m    == After(n, e)
           next == [st EXCEPT !.line = Tail(l)]
<1>1. l \in Seq(Event) /\ l # <<>> /\ q \in Seq(Event) /\ st.after \in Nat BY DEF Stream
<1>2. e \in Event /\ e = l[1] BY <1>1
<1>3. e.seq \in Nat BY <1>2 DEF Event
<1>4. /\ st.after <= n /\ Follow(n, l) /\ Follow(Reach(n, l), q)
      /\ st.mode \notin {"reading", "read"}
      /\ st.on => IF q = <<>> THEN b <= Reach(n, l) ELSE b = q[Len(q)].seq
  BY <1>1 DEF Gapless
<1>5. e.seq <= n + 1 BY <1>1, <1>2, <1>4 DEF Follow
<1>6. m \in Nat /\ n <= m /\ e.seq <= m BY <1>3 DEF After
<1>7. /\ next.line = Tail(l) /\ next.queue = q /\ next.on = st.on /\ next.after = st.after
      /\ next.mode = st.mode
  BY DEF Stream
<1> HIDE DEF l, q, next, m
<1>8. Tail(l) \in Seq(Event) /\ Follow(m, Tail(l)) /\ Reach(n, l) <= Reach(m, Tail(l))
  BY <1>1, <1>4, <1>6, FollowTail
<1>9. Reach(n, l) \in Nat /\ Reach(m, Tail(l)) \in Nat BY <1>1, <1>6, <1>8, ReachIs
<1>10. Follow(Reach(m, Tail(l)), q) BY <1>1, <1>4, <1>8, <1>9, FollowFurther
<1>11. st.on => IF q = <<>> THEN b <= Reach(m, Tail(l)) ELSE b = q[Len(q)].seq
  BY <1>4, <1>8, <1>9
<1>12. st.after <= m BY <1>1, <1>4, <1>6
<1>13. Gapless(next, m, b) BY <1>4, <1>7, <1>8, <1>10, <1>11, <1>12 DEF Gapless
<1>14. QED BY <1>2, <1>5, <1>13 DEF l, next, m

LEMMA GaplessQueue ==
  ASSUME NEW st \in Stream, NEW n \in Nat, NEW b \in Nat, Gapless(st, n, b),
         st.line = <<>>, st.queue # <<>>
  PROVE  /\ Head(st.queue) \in Event /\ Head(st.queue).seq <= n + 1
         /\ Gapless([st EXCEPT !.queue = Tail(st.queue)], After(n, Head(st.queue)), b)
<1> DEFINE q    == st.queue
           e    == Head(q)
           m    == After(n, e)
           next == [st EXCEPT !.queue = Tail(q)]
<1>1. q \in Seq(Event) /\ q # <<>> /\ st.after \in Nat BY DEF Stream
<1>2. e \in Event /\ e = q[1] BY <1>1
<1>3. e.seq \in Nat BY <1>2 DEF Event
<1>4. st.after <= n /\ Follow(n, q) /\ (st.on => b = q[Len(q)].seq)
  BY <1>1, FollowNothing DEF Gapless
<1>5. e.seq <= n + 1 BY <1>1, <1>2, <1>4 DEF Follow
<1>6. m \in Nat /\ n <= m /\ e.seq <= m BY <1>3 DEF After
<1>7. /\ next.line = <<>> /\ next.queue = Tail(q) /\ next.on = st.on /\ next.after = st.after
  BY DEF Stream
<1> HIDE DEF q, next, m
<1>8. /\ Tail(q) \in Seq(Event) /\ Follow(m, Tail(q))
      /\ Tail(q) # <<>> => Tail(q)[Len(Tail(q))] = q[Len(q)]
      /\ Tail(q) = <<>> => q[Len(q)].seq <= m
  BY <1>1, <1>4, <1>6, FollowTail
<1>9. st.on => IF Tail(q) = <<>> THEN b <= m ELSE b = Tail(q)[Len(Tail(q))].seq
  BY <1>4, <1>8
<1>10. st.after <= m BY <1>1, <1>4, <1>6
<1>11. Gapless(next, m, b)
  BY <1>7, <1>8, <1>9, <1>10, FollowNothing DEF Gapless
<1>12. QED BY <1>2, <1>5, <1>11 DEF q, next, m

\* The client gets the event that follows.
LEMMA GapYield ==
  ASSUME StreamInv, GapInv, NEW e \in Event, NEW rest, Yield(e, rest),
         rest.on = stream.on, rest.at = stream.at,
         ~missed => /\ e.seq <= client.lastSeq + 1
                    /\ Gapless(rest, After(client.lastSeq, e), Len(bus[stream.at]))
  PROVE  GapInv'
<1>1. /\ client.lastSeq \in Nat /\ client.base \in Nat /\ client.lastId \in Nat /\ e.seq \in Nat
      /\ folded \in Seq(Kind) /\ Len(folded) \in Nat
  BY GapTyped DEF Event
<1>2. PICK m \in Nat : m = After(client.lastSeq, e) BY <1>1 DEF After
<1>3. client \in [ended : Ended \cup {"no", "lost"}, lastSeq : Nat, lastId : Nat, base : Nat,
                  reopens : Nat]
  BY DEF StreamInv, TypeOK
<1>4. /\ client'.lastSeq = m /\ client'.base = client.base /\ client'.lastId = e.seq
      /\ Len(folded') = IF e.seq <= client.lastSeq THEN Len(folded) ELSE Len(folded) + 1
  <2>1. CASE e.seq <= client.lastSeq
    <3>1. client' = [client EXCEPT !.lastId = e.seq] /\ folded' = folded
      BY <2>1 DEF Yield, Fold
    <3>2. m = client.lastSeq BY <1>2, <2>1 DEF After
    <3>3. QED BY <1>3, <2>1, <3>1, <3>2
  <2>2. CASE ~(e.seq <= client.lastSeq)
    <3>1. /\ client' = [client EXCEPT !.lastId = e.seq, !.lastSeq = e.seq, !.ended = EndTold(e.kind)]
          /\ folded' = Append(folded, e.kind)
      BY <2>2 DEF Yield, Fold
    <3>2. m = e.seq BY <1>2, <2>2 DEF After
    <3>3. QED BY <1>3, <2>2, <3>1, <3>2
  <2>3. QED BY <2>1, <2>2
<1>5. UNCHANGED <<bus, missed>> BY DEF Yield, quiet
<1>6. client'.base <= m /\ client'.lastId <= m
  BY <1>1, <1>2, <1>4 DEF GapInv, After
<1>7. stream' = NoStream \/ stream' = rest BY DEF Yield
<1>8. (stream'.on => stream'.at \in Replica) BY <1>7 DEF GapInv, NoStream
<1>9. ASSUME ~missed PROVE Len(folded') = m /\ Gapless(stream', m, Len(bus[stream'.at]))
  <2>1. Len(folded) = client.lastSeq /\ e.seq <= client.lastSeq + 1 BY <1>9 DEF GapInv
  <2>2. Len(folded') = m BY <1>1, <1>2, <1>4, <2>1 DEF After
  <2>3. CASE stream' = NoStream BY <2>2, <2>3, GaplessNothing
  <2>4. CASE stream' = rest BY <1>2, <1>9, <2>2, <2>4
  <2>5. QED BY <1>7, <2>3, <2>4
<1>10. QED BY <1>4, <1>5, <1>6, <1>8, <1>9 DEF GapInv

\* The stream looks at the row.
LEMMA GapRow ==
  ASSUME StreamInv, GapInv, StreamInv', UNCHANGED <<bus, client, folded, missed>>, stream.line = <<>>,
         stream'.on = stream.on, stream'.queue = stream.queue, stream'.after = stream.after,
         stream'.at = stream.at,
         stream'.mode \notin {"reading", "read"} \/ stream'.line = <<>>,
         NEW s, stream'.line \in {<<>>, FromRow(s, stream.after)}
  PROVE  GapInv'
<1>1. /\ stream \in Stream /\ client.lastSeq \in Nat /\ stream.after \in Nat
      /\ bus \in [Replica -> Seq(Kind)]
  BY GapTyped
<1>2. PICK n \in Nat : n = client.lastSeq BY <1>1
<1>3. PICK st \in Stream : st = stream' BY DEF StreamInv, TypeOK
<1>4. UNCHANGED <<client, folded>> OBVIOUS
<1>5. ASSUME ~missed PROVE Gapless(st, n, Len(bus[stream.at]))
  <2>1. Gapless(stream, n, Len(bus[stream.at])) /\ stream.after <= n
    BY <1>2, <1>5 DEF GapInv, Gapless
  <2>2. Follow(n, st.line) BY <1>1, <1>3, <2>1, FollowFromRow, FollowNothing
  <2>3. CASE stream.on
    <3>1. Len(bus[stream.at]) \in Nat BY <1>1, <2>3 DEF GapInv
    <3>2. QED BY <1>1, <1>3, <2>1, <2>2, <3>1, GaplessRow
  <2>4. CASE ~stream.on
    <3>1. Gapless(stream, n, 0) BY <2>1, <2>4 DEF Gapless
    <3>2. Gapless(st, n, 0) BY <1>1, <1>3, <2>2, <3>1, GaplessRow
    <3>3. ~st.on BY <1>3, <2>4
    <3>4. QED BY <3>2, <3>3 DEF Gapless
  <2>5. QED BY <2>3, <2>4
<1>6. QED BY <1>2, <1>3, <1>4, <1>5 DEF GapInv

LEMMA GapServe == ASSUME StreamInv, GapInv, StreamInv', Serve PROVE GapInv'
<1>1. /\ stream \in Stream /\ client.lastSeq \in Nat /\ stream.after \in Nat
      /\ bus \in [Replica -> Seq(Kind)] /\ stream.line \in Seq(Event) /\ stream.queue \in Seq(Event)
  BY GapTyped
<1>2. CASE ReadRow
  <2>1. stream' = [stream EXCEPT !.mode = "read", !.seen = row] BY <1>2 DEF ReadRow
  <2>2. /\ stream'.on = stream.on /\ stream'.queue = stream.queue /\ stream'.after = stream.after
        /\ stream'.at = stream.at /\ stream'.line = stream.line /\ stream'.mode = "read"
    BY <1>1, <2>1 DEF Stream
  <2>3. UNCHANGED <<bus, client, folded, missed>> BY <1>2 DEF ReadRow, quiet, hear
  <2>4. CASE missed
    <3>1. missed' BY <2>3, <2>4
    <3>2. UNCHANGED <<client, folded>> BY <2>3
    <3>3. QED BY <2>2, <3>1, <3>2 DEF GapInv
  <2>5. CASE ~missed
    <3>1. stream.line = <<>> BY <1>2, <2>5 DEF GapInv, Gapless, ReadRow
    <3>2. QED BY <2>2, <2>3, <3>1, GapRow
  <2>6. QED BY <2>4, <2>5
<1>3. CASE Decide
  <2>1. stream' = [stream EXCEPT !.mode = AfterRead(stream.seen, Local(stream.at)),
                                 !.line = FromRow(stream.seen, stream.after), !.seen = "none"]
    BY <1>3 DEF Decide
  <2>2. /\ stream'.on = stream.on /\ stream'.queue = stream.queue /\ stream'.after = stream.after
        /\ stream'.at = stream.at /\ stream'.line = FromRow(stream.seen, stream.after)
        /\ stream'.mode = AfterRead(stream.seen, Local(stream.at))
    BY <1>1, <2>1 DEF Stream
  <2>3. stream'.mode \notin {"reading", "read"} BY <2>2 DEF AfterRead
  <2>4. UNCHANGED <<bus, client, folded, missed>> BY <1>3 DEF Decide, quiet
  <2>5. CASE missed
    <3>1. missed' BY <2>4, <2>5
    <3>2. UNCHANGED <<client, folded>> BY <2>4
    <3>3. QED BY <2>2, <3>1, <3>2 DEF GapInv
  <2>6. CASE ~missed
    <3>1. stream.line = <<>> BY <1>3, <2>6 DEF GapInv, Gapless, Decide
    <3>2. QED BY <2>2, <2>3, <2>4, <3>1, GapRow
  <2>7. QED BY <2>5, <2>6
<1>4. CASE YieldLine
  <2> DEFINE rest == [stream EXCEPT !.line = Tail(stream.line)]
  <2>1. Yield(Head(stream.line), rest) /\ stream.line # <<>> BY <1>4 DEF YieldLine
  <2>2. rest.on = stream.on /\ rest.at = stream.at BY <1>1 DEF Stream
  <2>3. Head(stream.line) \in Event BY <1>1, <2>1
  <2>4. ASSUME ~missed
        PROVE  /\ Head(stream.line).seq <= client.lastSeq + 1
               /\ Gapless(rest, After(client.lastSeq, Head(stream.line)), Len(bus[stream.at]))
    <3>1. Gapless(stream, client.lastSeq, Len(bus[stream.at])) BY <2>4 DEF GapInv
    <3>2. CASE stream.on
      <4>1. Len(bus[stream.at]) \in Nat BY <1>1, <3>2 DEF GapInv
      <4>2. QED BY <1>1, <2>1, <3>1, <4>1, GaplessLine
    <3>3. CASE ~stream.on
      <4>1. Gapless(stream, client.lastSeq, 0) BY <3>1, <3>3 DEF Gapless
      <4>2. /\ Head(stream.line).seq <= client.lastSeq + 1
            /\ Gapless(rest, After(client.lastSeq, Head(stream.line)), 0)
        BY <1>1, <2>1, <4>1, GaplessLine
      <4>3. ~rest.on BY <2>2, <3>3
      <4> HIDE DEF rest
      <4>4. QED BY <4>2, <4>3 DEF Gapless
    <3>4. QED BY <3>2, <3>3
  <2> HIDE DEF rest
  <2>5. QED BY <2>1, <2>2, <2>3, <2>4, GapYield
<1>5. CASE YieldQueue
  <2> DEFINE rest == [stream EXCEPT !.queue = Tail(stream.queue)]
  <2>1. Yield(Head(stream.queue), rest) /\ stream.queue # <<>> /\ stream.line = <<>>
    BY <1>5 DEF YieldQueue, Waiting
  <2>2. rest.on = stream.on /\ rest.at = stream.at BY <1>1 DEF Stream
  <2>3. Head(stream.queue) \in Event BY <1>1, <2>1
  <2>4. ASSUME ~missed
        PROVE  /\ Head(stream.queue).seq <= client.lastSeq + 1
               /\ Gapless(rest, After(client.lastSeq, Head(stream.queue)), Len(bus[stream.at]))
    <3>1. Gapless(stream, client.lastSeq, Len(bus[stream.at])) BY <2>4 DEF GapInv
    <3>2. CASE stream.on
      <4>1. Len(bus[stream.at]) \in Nat BY <1>1, <3>2 DEF GapInv
      <4>2. QED BY <1>1, <2>1, <3>1, <4>1, GaplessQueue
    <3>3. CASE ~stream.on
      <4>1. Gapless(stream, client.lastSeq, 0) BY <3>1, <3>3 DEF Gapless
      <4>2. /\ Head(stream.queue).seq <= client.lastSeq + 1
            /\ Gapless(rest, After(client.lastSeq, Head(stream.queue)), 0)
        BY <1>1, <2>1, <4>1, GaplessQueue
      <4>3. ~rest.on BY <2>2, <3>3
      <4> HIDE DEF rest
      <4>4. QED BY <4>2, <4>3 DEF Gapless
    <3>4. QED BY <3>2, <3>3
  <2> HIDE DEF rest
  <2>5. QED BY <2>1, <2>2, <2>3, <2>4, GapYield
<1>6. CASE Close BY <1>6, GapQuiet DEF Close, quiet, hear
<1>7. CASE Reconnect BY <1>7, GapQuiet DEF Reconnect, hear
<1>8. CASE Reread
  <2>1. stream' = [stream EXCEPT !.mode = "closing", !.line = FromRow(row, stream.after)]
    BY <1>8 DEF Reread
  <2>2. /\ stream'.on = stream.on /\ stream'.queue = stream.queue /\ stream'.after = stream.after
        /\ stream'.at = stream.at /\ stream'.line = FromRow(row, stream.after)
        /\ stream'.mode = "closing"
    BY <1>1, <2>1 DEF Stream
  <2>3. UNCHANGED <<bus, client, folded, missed>> /\ stream.line = <<>> BY <1>8 DEF Reread, Waiting, quiet
  <2>4. QED BY <2>2, <2>3, GapRow
<1>9. QED BY <1>2, <1>3, <1>4, <1>5, <1>6, <1>7, <1>8 DEF Serve

-----------------------------------------------------------------------------
(* What the numbers stand for *)

\* Whoever executes the run, is to emit its stop or serves its client is a process
\* that is up, and one of those the run has met.
HomesOK ==
  /\ <<Creator, 0>> \in homes
  /\ \A p \in Replica : task.at = p \/ p \in stopping \/ stream.at = p =>
       Home(p) \in homes /\ phase[p] # "down"

\* Nobody will emit anything for the run any more.
Over == task.pc = "none" /\ stopping = {} /\ row # "paused"

SaysDone(s) == \E i \in 1..Len(s) : s[i] \in {"done", "completed", "failed", "cancelled"}

\* Once an end was emitted, the run is over, or its task is on its way out.
OverOK ==
  /\ stopping # {} => task.pc = "none" /\ row # "paused" /\ \E p \in Replica : stopping = {p}
  /\ task.pc \in {"say", "announce"} /\ task.what # "paused" => row # "paused"
  /\ SaysDone(log) => Over \/ (task.pc \in {"say", "announce"} /\ task.what # "paused")

\* The one process has all that was emitted, unless nothing more will be.
Finished  == phase[Creator] = "down" \/ boot[Creator] > 0 \/ Over
HistoryOK == OneHome => bus[Creator] = log \/ (bus[Creator] = <<>> /\ Finished)

\* An event that has the number it was emitted under
Matches(e) == e.seq \in 1..Len(log) /\ e.kind = log[e.seq]
AllMatch(s) == \A i \in 1..Len(s) : Matches(s[i])
FoldedOK == Len(folded) <= Len(log) /\ \A i \in 1..Len(folded) : folded[i] = log[i]

Plain == OneHome /\ ~missed /\ ~answered

ContentInv == Plain => AllMatch(stream.line) /\ AllMatch(stream.queue) /\ FoldedOK

\* NoGap is a matter of the process as well as of the numbers.
PastInv == HomesOK /\ OverOK /\ HistoryOK /\ ContentInv

LEMMA PastTyped ==
  ASSUME StreamInv
  PROVE  /\ bus \in [Replica -> Seq(Kind)] /\ log \in Seq(Kind) /\ folded \in Seq(Kind)
         /\ stream \in Stream /\ boot \in [Replica -> Nat]
         /\ phase \in [Replica -> {"up", "draining", "down"}]
         /\ stream.line \in Seq(Event) /\ stream.queue \in Seq(Event)
         /\ Len(log) \in Nat /\ Len(folded) \in Nat
         /\ Creator \in Replica /\ NoReplica \notin Replica
<1>1. /\ bus \in [Replica -> Seq(Kind)] /\ log \in Seq(Kind) /\ folded \in Seq(Kind)
      /\ stream \in Stream /\ boot \in [Replica -> Nat]
      /\ phase \in [Replica -> {"up", "draining", "down"}]
  BY DEF StreamInv, TypeOK
<1>2. stream.line \in Seq(Event) /\ stream.queue \in Seq(Event)
  BY <1>1 DEF Stream
<1>3. Len(log) \in Nat /\ Len(folded) \in Nat
  BY <1>1
<1>4. QED
  BY <1>1, <1>2, <1>3, StreamAssumption

\* Of the one process: it is the creator, and was never started again.
LEMMA OnlyCreator ==
  ASSUME HomesOK, OneHome, NEW p \in Replica, task.at = p \/ p \in stopping \/ stream.at = p
  PROVE  p = Creator /\ boot[Creator] = 0 /\ phase[Creator] # "down"
<1>1. Home(p) = <<Creator, 0>> /\ phase[p] # "down"
  BY DEF HomesOK, OneHome
<1>2. QED
  BY <1>1 DEF Home

LEMMA OneHomeBefore == ASSUME HomesOK, OneHome', homes \subseteq homes' PROVE OneHome
  BY DEF HomesOK, OneHome

\* What the steps that emit have in common
Emits(p, kinds) ==
  /\ Emit(p, kinds)
  /\ (task.at = p /\ task.pc # "none") \/ p \in stopping
  /\ UNCHANGED <<phase, boot, homes, hear, row>>

LEMMA RunEmits ==
  ASSUME StreamInv, Begin \/ Token \/ Say \/ \E p \in Replica : SayStopped(p)
  PROVE  \E p \in Replica, kinds \in Seq(Kind) : Emits(p, kinds)
<1>1. CASE Begin
  <2>1. <<"running">> \in Seq(Kind) /\ task.at \in Replica
    BY <1>1, OneIsSeq DEF Begin, StreamInv, TaskOK, Kind
  <2>2. Emits(task.at, <<"running">>)
    BY <1>1 DEF Begin, Emits
  <2>3. QED
    BY <2>1, <2>2
<1>2. CASE Token
  <2>1. <<"token">> \in Seq(Kind) /\ task.at \in Replica
    BY <1>2, OneIsSeq DEF Token, StreamInv, TaskOK, Kind
  <2>2. Emits(task.at, <<"token">>)
    BY <1>2 DEF Token, Emits, run
  <2>3. QED
    BY <2>1, <2>2
<1>3. CASE Say
  <2>1. Committed \in Ended \cup {"paused"} /\ task.at \in Replica
    BY <1>3 DEF Say, StreamInv, TypeOK, TaskOK, TrueInv
  <2>2. Story(Committed) \in Seq(Kind)
    BY <2>1, StoryTold, ToldSubset
  <2>3. Emits(task.at, Story(Committed))
    BY <1>3 DEF Say, Emits, Committed
  <2>4. QED
    BY <2>1, <2>2, <2>3
<1>4. ASSUME NEW p \in Replica, SayStopped(p)
      PROVE  \E q \in Replica, kinds \in Seq(Kind) : Emits(q, kinds)
  <2>1. Story("cancelled") \in Seq(Kind)
    BY StoryTold, ToldSubset DEF Ended
  <2>2. Emits(p, Story("cancelled"))
    BY <1>4 DEF SayStopped, Emits
  <2>3. QED
    BY <2>1, <2>2
<1>5. QED
  BY <1>1, <1>2, <1>3, <1>4

LEMMA EmitIs ==
  ASSUME StreamInv, NEW p \in Replica, NEW kinds \in Seq(Kind), Emit(p, kinds)
  PROVE  /\ stream'.at = stream.at /\ stream'.line = stream.line
         /\ \/ stream'.queue = stream.queue
            \/ /\ stream.at = p
               /\ \E n \in 0..Len(kinds) :
                    stream'.queue = stream.queue \o SubSeq(Numbered(kinds, Len(bus[p])), 1, n)
         /\ bus' = [bus EXCEPT ![p] = bus[p] \o kinds] /\ log' = log \o kinds
         /\ missed => missed'
<1> DEFINE new  == Numbered(kinds, Len(bus[p]))
           room == QueueMax - Len(stream.queue)
           fits == IF room < Len(new) THEN room ELSE Len(new)
<1>1. stream \in Stream /\ bus[p] \in Seq(Kind)
  BY PastTyped
<1>2. Len(bus[p]) \in Nat
  BY <1>1
<1>3. Len(new) = Len(kinds) /\ Len(kinds) \in Nat
  BY <1>2, FollowNumbered
<1>4. room \in Nat
  <2>1. QueueMax \in Nat /\ Len(stream.queue) <= QueueMax
    BY StreamAssumption DEF StreamInv, TypeOK
  <2>2. Len(stream.queue) \in Nat
    BY <1>1 DEF Stream
  <2>3. QED
    BY <2>1, <2>2
<1>5. fits \in 0..Len(kinds)
  BY <1>3, <1>4
<1>6. /\ stream' = IF stream.at = p /\ stream.on
                   THEN [stream EXCEPT !.queue = stream.queue \o SubSeq(new, 1, fits)] ELSE stream
      /\ bus' = [bus EXCEPT ![p] = bus[p] \o kinds] /\ log' = log \o kinds
      /\ missed => missed'
  BY DEF Emit
<1> HIDE DEF new, fits
<1>7. CASE stream.at = p /\ stream.on
  <2>1. stream' = [stream EXCEPT !.queue = stream.queue \o SubSeq(new, 1, fits)]
    BY <1>6, <1>7
  <2>2. /\ stream'.at = stream.at /\ stream'.line = stream.line
        /\ stream'.queue = stream.queue \o SubSeq(new, 1, fits)
    BY <1>1, <2>1 DEF Stream
  <2>3. QED
    BY <1>5, <1>6, <1>7, <2>2 DEF new
<1>8. CASE ~(stream.at = p /\ stream.on)
  BY <1>6, <1>8
<1>9. QED
  BY <1>7, <1>8

\* What the steps of a stream leave alone
LEMMA ServeLeaves ==
  ASSUME StreamInv, Serve
  PROVE  /\ UNCHANGED <<row, task, stopping, phase, boot, bus, homes, missed, log>>
         /\ stream'.at \in {stream.at, NoReplica}
         /\ answered => answered'
<1>1. stream \in Stream
  BY PastTyped
<1>2. CASE ReadRow
  BY <1>1, <1>2 DEF ReadRow, quiet, run, hear, Stream
<1>3. CASE Decide
  BY <1>1, <1>3 DEF Decide, quiet, run, Stream
<1>4. CASE YieldLine
  <2>1. UNCHANGED <<quiet, answered>>
    BY <1>4 DEF YieldLine, Yield, Fold
  <2>2. stream' \in {NoStream, [stream EXCEPT !.line = Tail(stream.line)]}
    BY <1>4 DEF YieldLine, Yield
  <2>3. QED
    BY <1>1, <2>1, <2>2 DEF quiet, run, Stream, NoStream
<1>5. CASE YieldQueue
  <2>1. UNCHANGED <<quiet, answered>>
    BY <1>5 DEF YieldQueue, Yield, Fold
  <2>2. stream' \in {NoStream, [stream EXCEPT !.queue = Tail(stream.queue)]}
    BY <1>5 DEF YieldQueue, Yield
  <2>3. QED
    BY <1>1, <2>1, <2>2 DEF quiet, run, Stream, NoStream
<1>6. CASE Close
  BY <1>6 DEF Close, quiet, run, hear, NoStream
<1>7. CASE Reconnect
  BY <1>7 DEF Reconnect, run, hear, NoStream
<1>8. CASE Reread
  BY <1>1, <1>8 DEF Reread, quiet, run, Stream
<1>9. QED
  BY <1>2, <1>3, <1>4, <1>5, <1>6, <1>7, <1>8 DEF Serve

-----------------------------------------------------------------------------
(* Each part of it *)

LEMMA HomesDown == ASSUME StreamInv, HomesOK, NEW p \in Replica, Down(p) PROVE HomesOK'
<1>1. phase' = [phase EXCEPT ![p] = "down"] /\ UNCHANGED <<boot, homes>>
  BY DEF Down
<1>2. ASSUME NEW q \in Replica, task'.at = q \/ q \in stopping' \/ stream'.at = q
      PROVE  q # p /\ (task.at = q \/ q \in stopping \/ stream.at = q)
  BY <1>2, PastTyped DEF Down, NoTask, NoStream, Local
<1>3. ASSUME NEW q \in Replica, task'.at = q \/ q \in stopping' \/ stream'.at = q
      PROVE  Home(q)' \in homes' /\ phase'[q] # "down"
  <2>1. q # p /\ Home(q) \in homes /\ phase[q] # "down"
    BY <1>2, <1>3 DEF HomesOK
  <2>2. QED
    BY <1>1, <2>1, PastTyped DEF Home
<1>4. QED
  BY <1>1, <1>3 DEF HomesOK

\* A step after which no more processes act than before, or one that is a home
LEMMA HomesGrow ==
  ASSUME StreamInv, HomesOK, homes \subseteq homes', UNCHANGED boot,
         \A q \in Replica : phase'[q] = "down" => phase[q] = "down",
         \A q \in Replica : task'.at = q \/ q \in stopping' \/ stream'.at = q =>
            \/ task.at = q \/ q \in stopping \/ stream.at = q
            \/ Home(q) \in homes' /\ phase[q] # "down"
  PROVE  HomesOK'
  BY DEF HomesOK, Home

\* The task goes on, or is over.
LEMMA TaskMoves ==
  ASSUME StreamInv, Start \/ Leave \/ \E s \in Ended \cup {"paused", "overrun"} : Settle(s)
  PROVE  /\ task'.at = task.at \/ task' = NoTask
         /\ UNCHANGED <<stopping, stream, homes, boot, phase>>
<1>1. task \in [at : Replica \cup {NoReplica},
                pc : {"none", "queued", "begin", "body", "say", "announce"},
                what : Ended \cup {"none", "paused", "overrun"}]
  BY DEF StreamInv, TypeOK
<1>2. CASE Start
  BY <1>1, <1>2 DEF Start
<1>3. CASE Leave
  BY <1>3 DEF Leave
<1>4. ASSUME NEW s \in Ended \cup {"paused", "overrun"}, Settle(s)
      PROVE  task'.at = task.at /\ UNCHANGED <<stopping, stream, homes, boot, phase>>
  BY <1>1, <1>4 DEF Settle
<1>5. QED
  BY <1>2, <1>3, <1>4

LEMMA HomesStep == ASSUME StreamInv, HomesOK, [Next]_vars PROVE HomesOK'
<1> USE PastTyped
<1>1. CASE Begin \/ Token \/ Say \/ \E p \in Replica : SayStopped(p)
  <2>1. PICK p \in Replica, kinds \in Seq(Kind) : Emits(p, kinds)
    BY <1>1, RunEmits
  <2>2. stream'.at = stream.at /\ UNCHANGED <<homes, boot, phase>>
    BY <2>1, EmitIs DEF Emits
  <2>3. (task'.at = task.at \/ task' = NoTask) /\ stopping' \subseteq stopping
    BY <1>1 DEF Begin, Token, Say, SayStopped, run, StreamInv, TypeOK
  <2>4. QED
    BY <2>2, <2>3, HomesGrow DEF NoTask
<1>2. CASE Start \/ Leave \/ \E s \in Ended \cup {"paused", "overrun"} : Settle(s)
  BY <1>2, TaskMoves, HomesGrow DEF NoTask
<1>3. ASSUME NEW p \in Replica, Resume(p) \/ StopPaused(p) \/ Connect(p) PROVE HomesOK'
  <2>1. /\ UNCHANGED <<boot, phase>> /\ homes' = homes \cup {Home(p)} /\ phase[p] # "down"
        /\ task'.at \in {task.at, p} /\ stopping' \subseteq stopping \cup {p}
        /\ stream'.at \in {stream.at, p}
    BY <1>3 DEF Resume, StopPaused, Connect, run
  <2>2. QED
    BY <2>1, HomesGrow
<1>4. ASSUME NEW p \in Replica, Crash(p) \/ Exit(p) PROVE HomesOK'
  BY <1>4, HomesDown DEF Crash, Exit
<1>5. ASSUME NEW p \in Replica, Boot(p) PROVE HomesOK'
  <2>1. /\ phase' = [phase EXCEPT ![p] = "up"] /\ boot' = [boot EXCEPT ![p] = boot[p] + 1]
        /\ UNCHANGED <<task, stopping, stream, homes>> /\ phase[p] = "down"
    BY <1>5 DEF Boot
  <2>2. ASSUME NEW q \in Replica, task'.at = q \/ q \in stopping' \/ stream'.at = q
        PROVE  Home(q)' \in homes' /\ phase'[q] # "down"
    <3>1. Home(q) \in homes /\ phase[q] # "down"
      BY <2>1, <2>2 DEF HomesOK
    <3>2. q # p
      BY <2>1, <3>1
    <3>3. QED
      BY <2>1, <3>1, <3>2 DEF Home
  <2>3. QED
    BY <2>1, <2>2 DEF HomesOK
<1>6. ASSUME NEW p \in Replica, Drain(p) \/ Evict(p) \/ Refused(p) PROVE HomesOK'
  <2>1. UNCHANGED <<task, stopping, homes, boot>> /\ stream'.at = stream.at
    BY <1>6 DEF Drain, Evict, Refused, run, Stream
  <2>2. \A q \in Replica : phase'[q] = "down" => phase[q] = "down"
    BY <1>6 DEF Drain, Evict, Refused
  <2>3. QED
    BY <2>1, <2>2, HomesGrow
<1>7. CASE ReapDeadOwner \/ ReapStalled
  <2>1. UNCHANGED <<task, stopping, stream, homes, boot, phase>>
    BY <1>7 DEF ReapDeadOwner, ReapStalled
  <2>2. QED
    BY <2>1, HomesGrow
<1>8. CASE Drop \/ Serve \/ UNCHANGED vars
  <2>1. UNCHANGED <<task, stopping, homes, boot, phase>> /\ stream'.at \in {stream.at, NoReplica}
    BY <1>8, ServeLeaves DEF Drop, run, vars, NoStream
  <2>2. QED
    BY <2>1, HomesGrow
<1>9. QED
  BY <1>1, <1>2, <1>3, <1>4, <1>5, <1>6, <1>7, <1>8 DEF Next

LEMMA SaysMore ==
  ASSUME NEW s \in Seq(Kind), NEW k \in Seq(Kind), SaysDone(s \o k)
  PROVE  SaysDone(s) \/ SaysDone(k)
<1>1. PICK i \in 1..Len(s \o k) : (s \o k)[i] \in {"done", "completed", "failed", "cancelled"}
  BY DEF SaysDone
<1>2. Len(s \o k) = Len(s) + Len(k)
  OBVIOUS
<1>3. CASE i <= Len(s)
  BY <1>1, <1>2, <1>3 DEF SaysDone
<1>4. CASE i > Len(s)
  <2>1. (s \o k)[i] = k[i - Len(s)] /\ i - Len(s) \in 1..Len(k)
    BY <1>1, <1>2, <1>4
  <2>2. QED
    BY <1>1, <2>1 DEF SaysDone
<1>5. QED
  BY <1>3, <1>4

\* A step that does not disturb the run
LEMMA OverQuiet ==
  ASSUME OverOK, UNCHANGED <<task, stopping, log>>, row' = row \/ row' # "paused"
  PROVE  OverOK'
  BY DEF OverOK, Over

LEMMA OverDown == ASSUME OverOK, NEW p \in Replica, Down(p) PROVE OverOK'
<1>1. /\ task' = IF Local(p) THEN NoTask ELSE task
      /\ stopping' = stopping \ {p} /\ UNCHANGED <<row, log>>
  BY DEF Down
<1>2. CASE Local(p)
  <2>1. task'.pc = "none"
    BY <1>1, <1>2 DEF NoTask
  <2>2. QED
    BY <1>1, <2>1 DEF OverOK, Over
<1>3. CASE ~Local(p)
  BY <1>1, <1>3 DEF OverOK, Over
<1>4. QED
  BY <1>2, <1>3

LEMMA OverStep == ASSUME StreamInv, OverOK, [Next]_vars PROVE OverOK'
<1> USE PastTyped
<1>1. task \in [at : Replica \cup {NoReplica},
                pc : {"none", "queued", "begin", "body", "say", "announce"},
                what : Ended \cup {"none", "paused", "overrun"}]
  BY DEF StreamInv, TypeOK
<1>2. CASE Start
  <2>1. task.pc = "queued" /\ task'.pc = "begin" /\ row' = "running" /\ UNCHANGED <<stopping, log>>
    BY <1>1, <1>2 DEF Start, Write
  <2>2. QED
    BY <2>1 DEF OverOK, Over
<1>3. CASE Begin
  <2>1. /\ task.pc = "begin" /\ task'.pc = "body" /\ UNCHANGED <<row, stopping>>
        /\ log' = log \o <<"running">>
    BY <1>1, <1>3 DEF Begin, Emit
  <2>2. ~SaysDone(log) /\ ~SaysDone(<<"running">>) /\ <<"running">> \in Seq(Kind)
    BY <2>1, OneIsSeq DEF OverOK, Over, SaysDone, Kind
  <2>3. QED
    BY <2>1, <2>2, SaysMore DEF OverOK, Over
<1>4. CASE Token
  <2>1. task.pc = "body" /\ UNCHANGED <<task, row, stopping>> /\ log' = log \o <<"token">>
    BY <1>4 DEF Token, Emit, run
  <2>2. ~SaysDone(log) /\ ~SaysDone(<<"token">>) /\ <<"token">> \in Seq(Kind)
    BY <2>1, OneIsSeq DEF OverOK, Over, SaysDone, Kind
  <2>3. QED
    BY <2>1, <2>2, SaysMore DEF OverOK, Over
<1>5. CASE Say
  <2>1. /\ task.pc = "say" /\ task'.pc = "announce" /\ task'.what = task.what
        /\ UNCHANGED <<row, stopping>> /\ log' = log \o Story(Committed)
    BY <1>1, <1>5 DEF Say, Emit, Committed
  <2>2. CASE task.what = "paused"
    <3>1. ~SaysDone(log)
      BY <2>1, <2>2 DEF OverOK, Over
    <3>2. Story(Committed) = <<"paused">> /\ <<"paused">> \in Seq(Kind)
      BY <2>2, OneIsSeq DEF Story, Committed, Kind
    <3>3. ~SaysDone(<<"paused">>)
      BY DEF SaysDone
    <3>4. QED
      BY <2>1, <2>2, <3>1, <3>2, <3>3, SaysMore DEF OverOK, Over
  <2>3. CASE task.what # "paused"
    BY <2>1, <2>3 DEF OverOK, Over
  <2>4. QED
    BY <2>2, <2>3
<1>6. CASE Leave
  <2>1. task.pc = "announce" /\ task'.pc = "none" /\ UNCHANGED <<row, stopping, log>>
    BY <1>6 DEF Leave, NoTask
  <2>2. QED
    BY <2>1 DEF OverOK, Over
<1>7. ASSUME NEW s \in Ended \cup {"paused", "overrun"}, Settle(s) PROVE OverOK'
  <2>1. /\ task'.pc = "say" /\ task'.what = s /\ UNCHANGED <<stopping, log>>
        /\ row' = IF s = "overrun" THEN "cancelled" ELSE s
    BY <1>1, <1>7 DEF Settle, Write
  <2>2. /\ task.pc \in {"queued", "body", "announce"}
        /\ task.pc = "announce" => s # "paused" /\ task.what # "paused"
    BY <1>7 DEF Settle, MaySettle
  <2>3. QED
    BY <2>1, <2>2 DEF OverOK, Over
<1>8. ASSUME NEW p \in Replica, Resume(p) PROVE OverOK'
  <2>1. /\ row = "paused" /\ task.pc = "none" /\ task'.pc = "queued"
        /\ UNCHANGED <<row, stopping, log>>
    BY <1>8 DEF Resume, NoTask
  <2>2. QED
    BY <2>1 DEF OverOK, Over
<1>9. ASSUME NEW p \in Replica, StopPaused(p) PROVE OverOK'
  <2>1. /\ row = "paused" /\ task.pc = "none" /\ task' = task /\ row' = "cancelled"
        /\ stopping' = stopping \cup {p} /\ log' = log
    BY <1>9 DEF StopPaused, NoTask, Write
  <2>2. QED
    BY <2>1 DEF OverOK, Over
<1>10. ASSUME NEW p \in Replica, SayStopped(p) PROVE OverOK'
  <2>1. p \in stopping /\ stopping' = stopping \ {p} /\ UNCHANGED <<row, task>>
    BY <1>10 DEF SayStopped
  <2>2. QED
    BY <2>1 DEF OverOK, Over
<1>11. ASSUME NEW p \in Replica, Crash(p) \/ Exit(p) PROVE OverOK'
  BY <1>11, OverDown DEF Crash, Exit
<1>12. ASSUME NEW p \in Replica, Drain(p) \/ Boot(p) \/ Evict(p) \/ Connect(p) \/ Refused(p)
       PROVE  OverOK'
  <2>1. UNCHANGED <<task, stopping, log>> /\ (row' = row \/ row' = "failed")
    BY <1>12 DEF Drain, Boot, Evict, Connect, Refused, run, Write
  <2>2. QED
    BY <2>1, OverQuiet
<1>13. CASE ReapDeadOwner \/ ReapStalled
  <2>1. UNCHANGED <<task, stopping, log>> /\ row' \in {"failed", "stalled"}
    BY <1>13 DEF ReapDeadOwner, ReapStalled, Write
  <2>2. QED
    BY <2>1, OverQuiet
<1>14. CASE Drop \/ Serve \/ UNCHANGED vars
  <2>1. UNCHANGED <<row, task, stopping, log>>
    BY <1>14, ServeLeaves DEF Drop, run, vars
  <2>2. QED
    BY <2>1, OverQuiet
<1>15. QED
  BY <1>2, <1>3, <1>4, <1>5, <1>6, <1>7, <1>8, <1>9, <1>10, <1>11, <1>12, <1>13, <1>14 DEF Next

LEMMA HistoryQuiet ==
  ASSUME HomesOK, HistoryOK, UNCHANGED <<bus, log, boot>>, homes \subseteq homes',
         phase[Creator] = "down" => phase'[Creator] = "down", Over => Over'
  PROVE  HistoryOK'
<1>1. OneHome' => OneHome
  BY OneHomeBefore
<1>2. QED
  BY <1>1 DEF HistoryOK, Finished

LEMMA HistoryEmits ==
  ASSUME StreamInv, HomesOK, HistoryOK, NEW p \in Replica, NEW kinds \in Seq(Kind), Emits(p, kinds)
  PROVE  OneHome' => p = Creator /\ bus[Creator] = log /\ bus'[Creator] = log'
<1> SUFFICES ASSUME OneHome' PROVE p = Creator /\ bus[Creator] = log /\ bus'[Creator] = log'
  OBVIOUS
<1>1. OneHome
  BY DEF OneHome, Emits
<1>2. p = Creator /\ boot[Creator] = 0 /\ phase[Creator] # "down"
  BY <1>1, OnlyCreator DEF Emits
<1>3. ~Over
  BY DEF Emits, Over
<1>4. bus[Creator] = log
  BY <1>1, <1>2, <1>3 DEF HistoryOK, Finished
<1>5. bus' = [bus EXCEPT ![p] = bus[p] \o kinds] /\ log' = log \o kinds
  BY EmitIs DEF Emits
<1>6. bus'[Creator] = log'
  BY <1>2, <1>4, <1>5, PastTyped
<1>7. QED
  BY <1>2, <1>4, <1>6

LEMMA HistoryDown == ASSUME StreamInv, HistoryOK, NEW p \in Replica, Down(p) PROVE HistoryOK'
<1>1. /\ phase' = [phase EXCEPT ![p] = "down"] /\ bus' = [bus EXCEPT ![p] = <<>>]
      /\ task' = (IF Local(p) THEN NoTask ELSE task) /\ stopping' = stopping \ {p}
      /\ UNCHANGED <<row, boot, homes, log>>
  BY DEF Down
<1>2. CASE p = Creator
  BY <1>1, <1>2, PastTyped DEF HistoryOK, Finished
<1>3. CASE p # Creator
  <2>1. bus'[Creator] = bus[Creator] /\ phase'[Creator] = phase[Creator]
    BY <1>1, <1>3, PastTyped
  <2>2. Over => Over'
    BY <1>1 DEF Over, NoTask
  <2>3. QED
    BY <1>1, <2>1, <2>2 DEF HistoryOK, Finished, OneHome
<1>4. QED
  BY <1>2, <1>3

LEMMA HistoryEvict ==
  ASSUME StreamInv, HomesOK, OverOK, HistoryOK, NEW p \in Replica, Evict(p)
  PROVE  HistoryOK'
<1>1. /\ bus' = [bus EXCEPT ![p] = <<>>] /\ Done(p) /\ ~Local(p)
      /\ UNCHANGED <<row, task, stopping, phase, boot, homes, log>>
  BY DEF Evict, Forgettable, run
<1>2. CASE p # Creator
  <2>1. bus'[Creator] = bus[Creator]
    BY <1>1, <1>2, PastTyped
  <2>2. QED
    BY <1>1, <2>1 DEF HistoryOK, Finished, Over, OneHome
<1>3. CASE p = Creator
  <2> SUFFICES ASSUME OneHome PROVE bus'[Creator] = <<>> /\ Finished'
    BY <1>1 DEF HistoryOK, OneHome
  <2>1. bus'[Creator] = <<>>
    BY <1>1, <1>3, PastTyped
  <2>2. bus[Creator] = log => SaysDone(log)
    BY <1>1, <1>3 DEF Done, SaysDone
  <2>3. CASE bus[Creator] = log
    <3>1. task.pc # "none" => task.at = Creator
      BY OnlyCreator DEF StreamInv, TaskOK
    <3>2. task.pc = "none"
      <4>1. ASSUME task.pc # "none" PROVE FALSE
        BY <1>1, <1>3, <3>1, <4>1 DEF Local
      <4>2. QED
        BY <4>1
    <3>3. Over
      BY <2>2, <2>3, <3>2 DEF OverOK
    <3>4. QED
      BY <1>1, <2>1, <3>3 DEF Finished, Over
  <2>4. CASE bus[Creator] # log
    <3>1. Finished
      BY <2>4 DEF HistoryOK
    <3>2. QED
      BY <1>1, <2>1, <3>1 DEF Finished, Over
  <2>5. QED
    BY <2>3, <2>4
<1>4. QED
  BY <1>2, <1>3

LEMMA HistoryStep == ASSUME StreamInv, HomesOK, OverOK, HistoryOK, [Next]_vars PROVE HistoryOK'
<1>1. CASE Begin \/ Token \/ Say \/ \E p \in Replica : SayStopped(p)
  <2>1. PICK p \in Replica, kinds \in Seq(Kind) : Emits(p, kinds)
    BY <1>1, RunEmits
  <2>2. QED
    BY <2>1, HistoryEmits DEF HistoryOK
<1>2. CASE Start \/ Leave \/ \E s \in Ended \cup {"paused", "overrun"} : Settle(s)
  <2>1. UNCHANGED <<bus, log, boot, homes, phase>>
    BY <1>2 DEF Start, Leave, Settle
  <2>2. ~Over
    BY <1>2 DEF Start, Leave, Settle, MaySettle, Over
  <2>3. QED
    BY <2>1, <2>2, HistoryQuiet
<1>3. ASSUME NEW p \in Replica, Resume(p) \/ StopPaused(p) PROVE HistoryOK'
  <2>1. UNCHANGED <<bus, log, boot, phase>> /\ homes \subseteq homes' /\ ~Over
    BY <1>3 DEF Resume, StopPaused, Over
  <2>2. QED
    BY <2>1, HistoryQuiet
<1>4. ASSUME NEW p \in Replica, Crash(p) \/ Exit(p) PROVE HistoryOK'
  BY <1>4, HistoryDown DEF Crash, Exit
<1>5. ASSUME NEW p \in Replica, Boot(p) PROVE HistoryOK'
  <2>1. /\ boot' = [boot EXCEPT ![p] = boot[p] + 1] /\ phase' = [phase EXCEPT ![p] = "up"]
        /\ UNCHANGED <<bus, log, homes, task, stopping>> /\ (row' = row \/ row' = "failed")
    BY <1>5 DEF Boot, Write
  <2>2. Over => Over'
    BY <2>1 DEF Over
  <2>3. boot[Creator] > 0 => boot'[Creator] > 0
    BY <2>1, PastTyped
  <2>4. phase[Creator] = "down" => phase'[Creator] = "down" \/ boot'[Creator] > 0
    BY <2>1, PastTyped
  <2>5. QED
    BY <2>1, <2>2, <2>3, <2>4 DEF HistoryOK, Finished, OneHome
<1>6. ASSUME NEW p \in Replica, Evict(p) PROVE HistoryOK'
  BY <1>6, HistoryEvict
<1>7. ASSUME NEW p \in Replica, Drain(p) PROVE HistoryOK'
  <2>1. /\ phase[p] = "up" /\ phase' = [phase EXCEPT ![p] = "draining"]
        /\ UNCHANGED <<bus, log, boot, homes, row, task, stopping>>
    BY <1>7 DEF Drain, run
  <2>2. phase[Creator] = "down" => phase'[Creator] = "down"
    BY <2>1, PastTyped
  <2>3. Over => Over'
    BY <2>1 DEF Over
  <2>4. QED
    BY <2>1, <2>2, <2>3, HistoryQuiet
<1>8. ASSUME NEW p \in Replica, Connect(p) \/ Refused(p) PROVE HistoryOK'
  <2>1. UNCHANGED <<bus, log, boot, phase, row, task, stopping>> /\ homes \subseteq homes'
    BY <1>8 DEF Connect, Refused, run
  <2>2. Over => Over'
    BY <2>1 DEF Over
  <2>3. QED
    BY <2>1, <2>2, HistoryQuiet
<1>9. CASE ReapDeadOwner \/ ReapStalled
  <2>1. UNCHANGED <<bus, log, boot, phase, homes, task, stopping>> /\ row' \in {"failed", "stalled"}
    BY <1>9 DEF ReapDeadOwner, ReapStalled, Write
  <2>2. Over => Over'
    BY <2>1 DEF Over
  <2>3. QED
    BY <2>1, <2>2, HistoryQuiet
<1>10. CASE Drop \/ Serve \/ UNCHANGED vars
  <2>1. UNCHANGED <<bus, log, boot, phase, homes, row, task, stopping>>
    BY <1>10, ServeLeaves DEF Drop, run, vars
  <2>2. Over => Over'
    BY <2>1 DEF Over
  <2>3. QED
    BY <2>1, <2>2, HistoryQuiet
<1>11. QED
  BY <1>1, <1>2, <1>3, <1>4, <1>5, <1>6, <1>7, <1>8, <1>9, <1>10 DEF Next

\* A step that brings nothing new to the client
LEMMA ContentQuiet ==
  ASSUME ContentInv, UNCHANGED <<log, folded>>, Plain' => Plain,
         stream'.line \in {stream.line, <<>>}, stream'.queue \in {stream.queue, <<>>}
  PROVE  ContentInv'
<1>1. AllMatch(<<>>)
  BY DEF AllMatch
<1>2. ASSUME Plain' PROVE AllMatch(stream'.line) /\ AllMatch(stream'.queue) /\ FoldedOK
  BY <1>1, <1>2 DEF ContentInv
<1>3. QED
  BY <1>2 DEF ContentInv, AllMatch, Matches, FoldedOK

\* What was emitted keeps its number.
LEMMA LogGrows ==
  ASSUME NEW K, NEW s \in Seq(K), NEW k \in Seq(K)
  PROVE  /\ Len(s \o k) = Len(s) + Len(k) /\ Len(s) \in Nat /\ Len(k) \in Nat
         /\ \A i \in 1..Len(s) : (s \o k)[i] = s[i]
         /\ \A i \in 1..Len(k) : (s \o k)[Len(s) + i] = k[i]
  BY ConcatProperties

LEMMA ContentEmits ==
  ASSUME StreamInv, HomesOK, HistoryOK, ContentInv,
         NEW p \in Replica, NEW kinds \in Seq(Kind), Emits(p, kinds)
  PROVE  ContentInv'
<1> SUFFICES ASSUME Plain' PROVE AllMatch(stream.line)' /\ AllMatch(stream.queue)' /\ FoldedOK'
  BY DEF ContentInv
<1>1. /\ stream'.line = stream.line /\ UNCHANGED <<homes, folded, answered>>
      /\ log' = log \o kinds /\ (missed => missed')
      /\ \/ stream'.queue = stream.queue
         \/ \E n \in 0..Len(kinds) :
              stream'.queue = stream.queue \o SubSeq(Numbered(kinds, Len(bus[p])), 1, n)
  BY EmitIs DEF Emits, hear
<1>2. Plain
  BY <1>1 DEF Plain, OneHome
<1>3. bus[p] = log
  BY HistoryEmits DEF Plain
<1>4. /\ Len(log') = Len(log) + Len(kinds) /\ Len(log) \in Nat /\ Len(kinds) \in Nat
      /\ \A i \in 1..Len(log) : log'[i] = log[i]
      /\ \A i \in 1..Len(kinds) : log'[Len(log) + i] = kinds[i]
  BY <1>1, LogGrows, PastTyped
<1>5. AllMatch(stream.line) /\ AllMatch(stream.queue) /\ FoldedOK
  BY <1>2 DEF ContentInv
<1>6. ASSUME NEW e, Matches(e) PROVE e.seq \in 1..Len(log') /\ e.kind = log'[e.seq]
  BY <1>4, <1>6 DEF Matches
<1>7. AllMatch(stream.line)'
  BY <1>1, <1>5, <1>6 DEF AllMatch, Matches
<1>8. FoldedOK'
  <2>1. UNCHANGED folded /\ Len(folded) \in Nat
    BY <1>1, PastTyped
  <2>2. QED
    BY <1>4, <1>5, <2>1 DEF FoldedOK
<1>9. AllMatch(stream.queue)'
  <2>1. CASE stream'.queue = stream.queue
    BY <1>5, <1>6, <2>1 DEF AllMatch, Matches
  <2>2. ASSUME NEW n \in 0..Len(kinds),
               stream'.queue = stream.queue \o SubSeq(Numbered(kinds, Len(log)), 1, n)
        PROVE  AllMatch(stream.queue)'
    <3> DEFINE new == Numbered(kinds, Len(log))
               few == SubSeq(new, 1, n)
    <3>1. new \in Seq(Event) /\ Len(new) = Len(kinds)
      BY <1>4, FollowNumbered
    <3>2. \A i \in 1..Len(kinds) : new[i] = [kind |-> kinds[i], seq |-> Len(log) + i]
      BY DEF Numbered
    <3> HIDE DEF new
    <3>3. few \in Seq(Event) /\ Len(few) = n /\ \A i \in 1..n : few[i] = new[i]
      BY <1>4, <3>1, SubSeqProperties
    <3> HIDE DEF few
    <3>4. PICK q \in Seq(Event) : q = stream.queue
      BY PastTyped
    <3>5. /\ Len(q \o few) = Len(q) + n /\ Len(q) \in Nat
          /\ \A i \in 1..Len(q) : (q \o few)[i] = q[i]
          /\ \A i \in 1..n : (q \o few)[Len(q) + i] = few[i]
      <4>1. few \in Seq(Event) /\ Len(few) = n
        BY <3>3
      <4>2. PICK f \in Seq(Event) : f = few
        BY <4>1
      <4>3. /\ Len(q \o f) = Len(q) + Len(f) /\ Len(q) \in Nat
            /\ \A i \in 1..Len(q) : (q \o f)[i] = q[i]
            /\ \A i \in 1..Len(f) : (q \o f)[Len(q) + i] = f[i]
        BY LogGrows
      <4>4. QED
        BY <4>1, <4>2, <4>3
    <3>6. ASSUME NEW i \in 1..Len(q \o few)
          PROVE  (q \o few)[i].seq \in 1..Len(log') /\ (q \o few)[i].kind = log'[(q \o few)[i].seq]
      <4>1. CASE i <= Len(q)
        BY <1>5, <1>6, <3>4, <3>5, <4>1 DEF AllMatch
      <4>2. CASE i > Len(q)
        <5>1. PICK j \in 1..n : i = Len(q) + j
          <6>1. i - Len(q) \in 1..n /\ i = Len(q) + (i - Len(q))
            BY <3>5, <4>2
          <6>2. QED
            BY <6>1
        <5>2. j \in 1..Len(kinds)
          BY <1>4
        <5>3. (q \o few)[i] = [kind |-> kinds[j], seq |-> Len(log) + j]
          BY <3>2, <3>3, <3>5, <5>1, <5>2
        <5>4. Len(log) + j \in 1..Len(log') /\ log'[Len(log) + j] = kinds[j]
          BY <1>4, <5>2
        <5>5. QED
          BY <5>3, <5>4
      <4>3. QED
        BY <3>5, <4>1, <4>2
    <3>7. stream'.queue = q \o few
      BY <2>2, <3>4 DEF few, new
    <3>8. QED
      BY <3>6, <3>7 DEF AllMatch, Matches
  <2>3. QED
    BY <1>1, <1>3, <2>1, <2>2
<1>10. QED
  BY <1>7, <1>8, <1>9

\* subscribe gives events under the numbers they were emitted under.
LEMMA ContentConnect ==
  ASSUME StreamInv, HomesOK, HistoryOK, ContentInv, NEW p \in Replica, Connect(p)
  PROVE  ContentInv'
<1> SUFFICES ASSUME Plain' PROVE AllMatch(stream.line)' /\ AllMatch(stream.queue)' /\ FoldedOK'
  BY DEF ContentInv
<1>1. /\ homes' = homes \cup {Home(p)} /\ UNCHANGED <<log, folded, answered, missed>>
      /\ stream'.line = History(p, Cursor) /\ stream'.queue = <<>>
  BY DEF Connect, hear
<1>2. OneHome /\ p = Creator
  <2>1. homes' = {<<Creator, 0>>} /\ homes \subseteq homes'
    BY <1>1 DEF Plain, OneHome
  <2>2. <<p, boot[p]>> = <<Creator, 0>>
    BY <1>1, <2>1 DEF Home
  <2>3. QED
    BY <2>1, <2>2, OneHomeBefore DEF Plain
<1>3. FoldedOK
  BY <1>1, <1>2 DEF Plain, ContentInv
<1> DEFINE all == Numbered(bus[p], 0)
           h   == SubSeq(all, Cursor + 1, Len(bus[p]))
<1>4. PICK s \in Seq(Kind) : s = bus[p]
  BY PastTyped
<1>5. Len(s) \in Nat /\ Len(s) <= Len(log) /\ \A i \in 1..Len(s) : s[i] = log[i]
  <2>1. s = log \/ s = <<>>
    BY <1>2, <1>4 DEF HistoryOK
  <2>2. QED
    BY <2>1, PastTyped
<1>6. all \in Seq(Event) /\ Len(all) = Len(s)
  BY <1>4, <1>5, FollowNumbered
<1>7. \A i \in 1..Len(s) : all[i] = [kind |-> s[i], seq |-> 0 + i]
  BY <1>4 DEF Numbered
<1> HIDE DEF all
<1>8. Cursor \in Nat
  BY CursorType DEF StreamInv
<1>9. \A i \in 1..Len(h) : \E j \in 1..Len(s) : h[i] = all[j]
  <2>1. CASE Cursor + 1 > Len(s)
    <3>1. h = <<>>
      BY <1>4, <1>5, <1>6, <1>8, <2>1, SubSeqProperties
    <3> HIDE DEF h
    <3>2. QED
      BY <3>1
  <2>2. CASE Cursor + 1 <= Len(s)
    <3>1. \A i \in (Cursor + 1)..Len(s) : all[i] \in Event
      BY <1>6, <1>8
    <3>2. /\ Len(h) = Len(s) - (Cursor + 1) + 1
          /\ \A i \in 1..(Len(s) - (Cursor + 1) + 1) : h[i] = all[(Cursor + 1) + i - 1]
      BY <1>4, <1>5, <1>6, <1>8, <2>2, <3>1, SubSeqProperties
    <3> HIDE DEF h
    <3>3. ASSUME NEW i \in 1..Len(h) PROVE \E j \in 1..Len(s) : h[i] = all[j]
      <4>1. (Cursor + 1) + i - 1 \in 1..Len(s)
        BY <1>5, <1>8, <2>2, <3>2
      <4>2. h[i] = all[(Cursor + 1) + i - 1]
        BY <3>2
      <4>3. QED
        BY <4>1, <4>2
    <3>4. QED
      BY <3>3
  <2>3. QED
    BY <1>5, <1>8, <2>1, <2>2
<1>10. stream'.line = h
  BY <1>1 DEF History, all
<1> HIDE DEF h
<1>11. ASSUME NEW i \in 1..Len(h) PROVE h[i].seq \in 1..Len(log) /\ h[i].kind = log[h[i].seq]
  <2>1. PICK j \in 1..Len(s) : h[i] = all[j]
    BY <1>9
  <2>2. h[i] = [kind |-> s[j], seq |-> j] /\ j \in 1..Len(log) /\ s[j] = log[j]
    BY <1>5, <1>7, <2>1, PastTyped
  <2>3. QED
    BY <2>2
<1>12. AllMatch(stream.line)'
  BY <1>1, <1>10, <1>11 DEF AllMatch, Matches
<1>13. AllMatch(stream.queue)'
  BY <1>1 DEF AllMatch
<1>14. FoldedOK'
  BY <1>1, <1>3 DEF FoldedOK
<1>15. QED
  BY <1>12, <1>13, <1>14

\* The client folds the event after the last one it has, or drops it.
LEMMA ContentYield ==
  ASSUME StreamInv, GapInv, ContentInv, NEW e \in Event, NEW rest, Yield(e, rest),
         Plain => e.seq <= client.lastSeq + 1 /\ Matches(e),
         Plain => AllMatch(rest.line) /\ AllMatch(rest.queue)
  PROVE  ContentInv'
<1> SUFFICES ASSUME Plain' PROVE AllMatch(stream.line)' /\ AllMatch(stream.queue)' /\ FoldedOK'
  BY DEF ContentInv
<1>1. UNCHANGED <<log, homes, missed, answered>> /\ (stream' = NoStream \/ stream' = rest)
  BY DEF Yield, Fold, quiet
<1>2. Plain
  BY <1>1 DEF Plain, OneHome
<1>3. e.seq <= client.lastSeq + 1 /\ Matches(e) /\ FoldedOK /\ Len(folded) = client.lastSeq
  BY <1>2 DEF ContentInv, GapInv, Plain
<1>4. /\ client.lastSeq \in Nat /\ e.seq \in Nat /\ Len(log) \in Nat
      /\ folded \in Seq(Kind) /\ e.kind \in Kind
  BY GapTyped, PastTyped DEF Event
<1>5. FoldedOK'
  <2>1. CASE e.seq <= client.lastSeq
    <3>1. UNCHANGED folded
      BY <2>1 DEF Yield, Fold
    <3>2. QED
      BY <1>1, <1>3, <3>1 DEF FoldedOK
  <2>2. CASE ~(e.seq <= client.lastSeq)
    <3>1. folded' = Append(folded, e.kind)
      BY <2>2 DEF Yield, Fold
    <3>2. e.seq = Len(folded) + 1
      BY <1>3, <1>4, <2>2
    <3>3. /\ Len(folded') = Len(folded) + 1 /\ folded'[Len(folded) + 1] = e.kind
          /\ \A i \in 1..Len(folded) : folded'[i] = folded[i]
      BY <1>4, <3>1, AppendProperties
    <3>4. Len(folded) + 1 <= Len(log) /\ e.kind = log[Len(folded) + 1]
      BY <1>3, <3>2 DEF Matches
    <3>5. \A i \in 1..(Len(folded) + 1) : folded'[i] = log[i]
      BY <1>3, <1>4, <3>3, <3>4 DEF FoldedOK
    <3>6. QED
      BY <1>1, <3>3, <3>4, <3>5 DEF FoldedOK
  <2>3. QED
    BY <2>1, <2>2
<1>6. AllMatch(stream'.line) /\ AllMatch(stream'.queue)
  BY <1>1, <1>2 DEF NoStream, AllMatch
<1>7. QED
  BY <1>1, <1>5, <1>6 DEF AllMatch, Matches

LEMMA MatchTail ==
  ASSUME NEW s \in Seq(Event), s # <<>>, AllMatch(s)
  PROVE  Head(s) \in Event /\ Matches(Head(s)) /\ AllMatch(Tail(s)) /\ Head(s) = s[1]
<1>1. /\ Len(Tail(s)) = Len(s) - 1 /\ Len(s) \in Nat /\ Len(s) >= 1
      /\ \A i \in 1..Len(Tail(s)) : Tail(s)[i] = s[i + 1]
  BY HeadTailProperties
<1>2. Head(s) = s[1] /\ s[1] \in Event
  BY <1>1
<1>3. \A i \in 1..Len(Tail(s)) : i + 1 \in 1..Len(s)
  BY <1>1
<1>4. QED
  BY <1>1, <1>2, <1>3 DEF AllMatch

LEMMA ContentServe == ASSUME StreamInv, GapInv, ContentInv, Serve PROVE ContentInv'
<1>1. /\ stream \in Stream /\ stream.line \in Seq(Event) /\ stream.queue \in Seq(Event)
      /\ client.lastSeq \in Nat
  BY PastTyped, GapTyped
<1>2. Plain' => Plain
  BY ServeLeaves DEF Plain, OneHome
<1>3. CASE ReadRow
  <2>1. /\ stream'.line = stream.line /\ stream'.queue = stream.queue
        /\ UNCHANGED <<log, folded>>
    BY <1>1, <1>3 DEF ReadRow, quiet, hear, Stream
  <2>2. QED
    BY <1>2, <2>1, ContentQuiet
<1>4. CASE Decide
  <2>1. /\ stream'.queue = stream.queue /\ UNCHANGED <<log, folded>>
        /\ answered' = (answered \/ stream'.line # <<>>)
    BY <1>1, <1>4 DEF Decide, quiet, Stream
  <2>2. CASE stream'.line = <<>>
    BY <1>2, <2>1, <2>2, ContentQuiet
  <2>3. CASE stream'.line # <<>>
    BY <2>1, <2>3 DEF ContentInv, Plain
  <2>4. QED
    BY <2>2, <2>3
<1>5. CASE YieldLine
  <2> DEFINE rest == [stream EXCEPT !.line = Tail(stream.line)]
  <2>1. Yield(Head(stream.line), rest) /\ stream.line # <<>>
    BY <1>5 DEF YieldLine
  <2>2. rest.line = Tail(stream.line) /\ rest.queue = stream.queue
    BY <1>1 DEF Stream
  <2> HIDE DEF rest
  <2>3. Head(stream.line) \in Event /\ Head(stream.line) = stream.line[1]
    BY <1>1, <2>1
  <2>4. Plain => /\ Head(stream.line).seq <= client.lastSeq + 1 /\ Matches(Head(stream.line))
                 /\ AllMatch(rest.line) /\ AllMatch(rest.queue)
    <3>1. Plain => Matches(Head(stream.line)) /\ AllMatch(rest.line) /\ AllMatch(rest.queue)
      BY <1>1, <2>1, <2>2, MatchTail DEF ContentInv
    <3>2. ~missed => Head(stream.line).seq <= client.lastSeq + 1
      BY <2>1, <2>3 DEF GapInv, Gapless, Follow
    <3>3. QED
      BY <3>1, <3>2 DEF Plain
  <2>5. QED
    BY <2>1, <2>3, <2>4, ContentYield
<1>6. CASE YieldQueue
  <2> DEFINE rest == [stream EXCEPT !.queue = Tail(stream.queue)]
  <2>1. Yield(Head(stream.queue), rest) /\ stream.queue # <<>> /\ stream.line = <<>>
    BY <1>6 DEF YieldQueue, Waiting
  <2>2. rest.line = stream.line /\ rest.queue = Tail(stream.queue)
    BY <1>1 DEF Stream
  <2> HIDE DEF rest
  <2>3. Head(stream.queue) \in Event /\ Head(stream.queue) = stream.queue[1]
    BY <1>1, <2>1
  <2>4. Plain => /\ Head(stream.queue).seq <= client.lastSeq + 1 /\ Matches(Head(stream.queue))
                 /\ AllMatch(rest.line) /\ AllMatch(rest.queue)
    <3>1. Plain => Matches(Head(stream.queue)) /\ AllMatch(rest.line) /\ AllMatch(rest.queue)
      BY <1>1, <2>1, <2>2, MatchTail DEF ContentInv
    <3>2. ~missed => Head(stream.queue).seq <= client.lastSeq + 1
      <4>1. Reach(client.lastSeq, stream.line) = client.lastSeq
        BY <2>1, FollowNothing
      <4>2. QED
        BY <2>1, <2>3, <4>1 DEF GapInv, Gapless, Follow
    <3>3. QED
      BY <3>1, <3>2 DEF Plain
  <2>5. QED
    BY <2>1, <2>3, <2>4, ContentYield
<1>7. CASE Close \/ Reconnect
  <2>1. UNCHANGED <<log, folded>> /\ stream'.line = <<>> /\ stream'.queue = <<>>
    BY <1>7 DEF Close, Reconnect, quiet, hear, NoStream
  <2>2. QED
    BY <1>2, <2>1, ContentQuiet
<1>8. CASE Reread
  BY <1>8 DEF Reread, ContentInv, Plain
<1>9. QED
  BY <1>3, <1>4, <1>5, <1>6, <1>7, <1>8 DEF Serve

LEMMA ContentStep ==
  ASSUME StreamInv, GapInv, HomesOK, HistoryOK, ContentInv, [Next]_vars
  PROVE  ContentInv'
<1>1. stream \in Stream
  BY PastTyped
<1>2. CASE Begin \/ Token \/ Say \/ \E p \in Replica : SayStopped(p)
  <2>1. PICK p \in Replica, kinds \in Seq(Kind) : Emits(p, kinds)
    BY <1>2, RunEmits
  <2>2. QED
    BY <2>1, ContentEmits
<1>3. CASE Start \/ Leave \/ \E s \in Ended \cup {"paused", "overrun"} : Settle(s)
  <2>1. UNCHANGED <<log, hear, stream, homes, missed>>
    BY <1>3 DEF Start, Leave, Settle
  <2>2. UNCHANGED <<log, folded>> /\ (Plain' => Plain)
    BY <2>1 DEF hear, Plain, OneHome
  <2>3. QED
    BY <2>1, <2>2, ContentQuiet
<1>4. ASSUME NEW p \in Replica, Resume(p) \/ StopPaused(p) PROVE ContentInv'
  <2>1. UNCHANGED <<log, hear, stream, missed>> /\ homes \subseteq homes'
    BY <1>4 DEF Resume, StopPaused
  <2>2. UNCHANGED <<log, folded>> /\ (Plain' => Plain)
    BY <2>1, OneHomeBefore DEF hear, Plain
  <2>3. QED
    BY <2>1, <2>2, ContentQuiet
<1>5. ASSUME NEW p \in Replica, Crash(p) \/ Exit(p) PROVE ContentInv'
  <2>1. UNCHANGED <<log, hear, homes, missed>> /\ (stream' = NoStream \/ stream' = stream)
    BY <1>5 DEF Crash, Exit, Down
  <2>2. UNCHANGED <<log, folded>> /\ (Plain' => Plain)
    BY <2>1 DEF hear, Plain, OneHome
  <2>3. QED
    BY <2>1, <2>2, ContentQuiet DEF NoStream
<1>6. ASSUME NEW p \in Replica, Drain(p) \/ Boot(p) \/ Evict(p) PROVE ContentInv'
  <2>1. /\ UNCHANGED <<log, hear, homes, missed>>
        /\ stream'.line = stream.line /\ stream'.queue = stream.queue
    BY <1>1, <1>6 DEF Drain, Boot, Evict, Stream
  <2>2. UNCHANGED <<log, folded>> /\ (Plain' => Plain)
    BY <2>1 DEF hear, Plain, OneHome
  <2>3. QED
    BY <2>1, <2>2, ContentQuiet
<1>7. ASSUME NEW p \in Replica, Connect(p) PROVE ContentInv'
  BY <1>7, ContentConnect
<1>8. ASSUME NEW p \in Replica, Refused(p) PROVE ContentInv'
  <2>1. UNCHANGED <<log, folded, answered, homes, missed, stream>>
    BY <1>8 DEF Refused
  <2>2. Plain' => Plain
    BY <2>1 DEF Plain, OneHome
  <2>3. QED
    BY <2>1, <2>2, ContentQuiet
<1>9. CASE ReapDeadOwner \/ ReapStalled \/ Drop \/ UNCHANGED vars
  <2>1. UNCHANGED <<log, hear, homes, missed>> /\ (stream' = NoStream \/ stream' = stream)
    BY <1>9 DEF ReapDeadOwner, ReapStalled, Drop, vars
  <2>2. UNCHANGED <<log, folded>> /\ (Plain' => Plain)
    BY <2>1 DEF hear, Plain, OneHome
  <2>3. QED
    BY <2>1, <2>2, ContentQuiet DEF NoStream
<1>10. CASE Serve
  BY <1>10, ContentServe
<1>11. QED
  BY <1>2, <1>3, <1>4, <1>5, <1>6, <1>7, <1>8, <1>9, <1>10 DEF Next

LEMMA GapStep == ASSUME StreamInv, StreamInv', GapInv, [Next]_vars PROVE GapInv'
<1>1. CASE UNCHANGED vars
  <2>1. UNCHANGED <<bus, client, folded, missed, stream>>
    BY <1>1 DEF vars, hear
  <2>2. QED
    BY <2>1, GapQuiet
<1>2. CASE Next
  BY <1>2, GapRun, GapProcess, GapClient, GapServe DEF Next
<1>3. QED
  BY <1>1, <1>2

LEMMA PastInit == Init => GapInv /\ PastInv
<1> SUFFICES ASSUME Init PROVE GapInv /\ PastInv
  OBVIOUS
<1>1. /\ client.base = 0 /\ client.lastId = 0 /\ client.lastSeq = 0 /\ folded = <<>>
      /\ stream = NoStream /\ log = <<>> /\ homes = {<<Creator, 0>>} /\ stopping = {}
      /\ task = [at |-> Creator, pc |-> "queued", what |-> "none"]
      /\ boot = [p \in Replica |-> 0] /\ phase = [p \in Replica |-> "up"]
      /\ bus = [p \in Replica |-> <<>>]
  BY DEF Init
<1>2. NoStream.on = FALSE /\ NoStream.at = NoReplica /\ NoStream.line = <<>> /\ NoStream.queue = <<>>
  BY DEF NoStream
<1>3. Creator \in Replica /\ NoReplica \notin Replica
  BY StreamAssumption
<1>4. GapInv
  BY <1>1, <1>2, GaplessNothing DEF GapInv
<1>5. HomesOK
  BY <1>1, <1>2, <1>3 DEF HomesOK, Home
<1>6. OverOK
  BY <1>1 DEF OverOK, SaysDone
<1>7. HistoryOK
  BY <1>1, <1>3 DEF HistoryOK
<1>8. ContentInv
  BY <1>1, <1>2 DEF ContentInv, AllMatch, FoldedOK
<1>9. QED
  BY <1>4, <1>5, <1>6, <1>7, <1>8 DEF PastInv

\* While one process has the run and its client, no queue was full and no stream
\* was answered from the row, the client has folded what was emitted, from the
\* first event on, each once and in order (RunEventBus.subscribe and emit,
\* stream_run_events, streamRun): across broken connections, reopens, pauses,
\* crashes and evictions.
THEOREM NothingSkipped == Spec => []NoGap
<1>1. Init => StreamInv /\ GapInv /\ PastInv
  BY InitTrue, PastInit
<1>2. StreamInv /\ GapInv /\ PastInv /\ [Next]_vars => (StreamInv /\ GapInv /\ PastInv)'
  <2> SUFFICES ASSUME StreamInv, GapInv, PastInv, [Next]_vars
               PROVE  StreamInv' /\ GapInv' /\ PastInv'
    OBVIOUS
  <2>1. StreamInv'
    BY StreamStep
  <2>2. GapInv'
    BY <2>1, GapStep
  <2>3. HomesOK' /\ OverOK'
    BY HomesStep, OverStep DEF PastInv
  <2>4. HistoryOK' /\ ContentInv'
    BY HistoryStep, ContentStep DEF PastInv
  <2>5. QED
    BY <2>1, <2>2, <2>3, <2>4 DEF PastInv
<1>3. StreamInv /\ PastInv => NoGap
  <2> SUFFICES ASSUME StreamInv, PastInv, OneHome, ~missed, ~answered
               PROVE  Len(folded) <= Len(log) /\ folded = SubSeq(log, 1, Len(folded))
    BY DEF NoGap
  <2>1. FoldedOK
    BY DEF PastInv, ContentInv, Plain
  <2>2. folded \in Seq(Kind) /\ log \in Seq(Kind) /\ Len(folded) \in Nat /\ Len(log) \in Nat
    BY PastTyped
  <2>3. \A i \in 1..Len(folded) : log[i] \in Kind
    BY <2>1, <2>2 DEF FoldedOK
  <2>4. /\ SubSeq(log, 1, Len(folded)) \in Seq(Kind) /\ Len(SubSeq(log, 1, Len(folded))) = Len(folded)
        /\ \A i \in 1..Len(folded) : SubSeq(log, 1, Len(folded))[i] = log[i]
    BY <2>1, <2>2, <2>3 DEF FoldedOK
  <2>5. folded = SubSeq(log, 1, Len(folded))
    BY <2>1, <2>2, <2>4 DEF FoldedOK
  <2>6. QED
    BY <2>1, <2>5 DEF FoldedOK
<1>4. QED
  BY <1>1, <1>2, <1>3, PTL DEF Spec

=============================================================================
