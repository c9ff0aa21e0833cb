--------------------------- MODULE BookFeed_proofs ---------------------------
(***************************************************************************)
(* For any set of price levels and any channel capacity: the reconstructed *)
(* book is exact unless a diff was applied over a missing change, which    *)
(* happens only while lastSeq is 0; and the feed with its aggregator       *)
(* implements LatestRegister.                                              *)
(***************************************************************************)
EXTENDS BookFeed, SequenceTheorems, TLAPS

\* What a depth event says is true of every level not touched since.
EventTrue(e) ==
    /\ e.first <= e.last
    /\ e.last <= seq
    /\ \A l \in Levels : touched[l] <= e.last =>
          e.diff[l] = IF touched[l] >= e.first THEN qty[l] ELSE Untouched

QueueTrue == \A i \in 1..Len(queue) : EventTrue(queue[i])

\* The same of a snapshot that has not been applied yet.
SnapTrue ==
    pc \in {"first_apply", "refresh_apply"} =>
        /\ snap.at <= seq
        /\ \A l \in Levels :
              IF l \in snap.view THEN touched[l] <= snap.at => snap.book[l] = Amount(qty[l])
                                ELSE snap.book[l] = 0

Bounds ==
    /\ flushed <= seq /\ covered <= seq
    /\ \A l \in Levels : touched[l] <= seq

\* lastSeq is 0 while a snapshot is fetched; otherwise the book reaches as far
\* as lastSeq says.
Sequenced ==
    /\ pc \notin {"dial", "reading"} => lastSeq = 0
    /\ lastSeq # 0 => covered = lastSeq

BookInv == TypeOK /\ Bounds /\ QueueTrue /\ SnapTrue /\ Sequenced /\ ExactUnlessHole

\* The channel holds updates in the order they were emitted, all of them newer
\* than the one the aggregator shows.
ChannelInv ==
    /\ latest <= emits
    /\ \A i \in 1..Len(out) : latest < out[i] /\ out[i] <= emits
    /\ \A i, j \in 1..Len(out) : i < j => out[i] < out[j]

\* The empty book and the empty snapshot have their types.
LEMMA EmptyBook ==
    /\ Empty \in [Levels -> Nat] /\ Empty \in [Levels -> Quantities]
    /\ NoSnap \in [at : Nat, book : [Levels -> Nat], view : SUBSET Levels]
  BY DEF Empty, NoSnap, Quantities

\* Types hold when the feed starts.
LEMMA InitTypeOK == Init => TypeOK
<1> SUFFICES ASSUME Init PROVE TypeOK
  OBVIOUS
<1>1. queue \in Seq(DepthEvents) /\ out \in Seq(Nat \ {0}) /\ Len(out) = 0
  BY EmptySeq DEF Init
<1>2. Len(out) <= Cap
  BY <1>1, CapAssumption
<1>3. /\ qty \in [Levels -> Quantities] /\ touched \in [Levels -> Nat] /\ book \in [Levels -> Quantities]
      /\ snap \in [at : Nat, book : [Levels -> Nat], view : SUBSET Levels]
  BY EmptyBook DEF Init
<1> QED BY <1>1, <1>2, <1>3 DEF Init, TypeOK

\* Every conversion of the feed keeps its type: the depth events and the merged book.
LEMMA EventType == TypeOK /\ seq > flushed => DepthEvent \in DepthEvents
  BY DEF TypeOK, DepthEvent, DepthEvents

\* Applying a diff to a book gives a book.
LEMMA MergeType ==
    ASSUME NEW b \in [Levels -> Quantities], NEW d \in [Levels -> Quantities \cup {Untouched}]
    PROVE  Merge(b, d) \in [Levels -> Quantities]
  BY DEF Merge, Untouched

\* A top of book sent to the channel, or dropped, keeps the channel within Cap.
LEMMA EmitType ==
    ASSUME TypeOK, NEW b, EmitUpdate(b)
    PROVE  /\ out' \in Seq(Nat \ {0}) /\ Len(out') <= Cap
           /\ emits' \in Nat /\ latest' \in Nat
<1>1. out \in Seq(Nat \ {0}) /\ emits + 1 \in Nat \ {0} /\ Len(out) <= Cap
  BY DEF TypeOK
<1>2. Append(out, emits + 1) \in Seq(Nat \ {0}) /\ Len(Append(out, emits + 1)) = Len(out) + 1
  BY <1>1, AppendProperties
<1>3. out' \in Seq(Nat \ {0}) /\ Len(out') <= Cap
  <2>1. CASE out' = out
    BY <2>1, <1>1
  <2>2. CASE Len(out) < Cap /\ out' = Append(out, emits + 1)
    BY <2>2, <1>1, <1>2, CapAssumption, LenProperties
  <2> QED BY <2>1, <2>2 DEF EmitUpdate
<1> QED BY <1>3 DEF TypeOK, EmitUpdate

\* Reading an event from a typed queue.
LEMMA HeadType ==
    ASSUME TypeOK, Reading
    PROVE  Head(queue) \in DepthEvents /\ queue' \in Seq(DepthEvents)
  BY HeadTailProperties DEF TypeOK, Reading

\* The parts of the snapshot under way.
LEMMA SnapParts ==
    ASSUME TypeOK
    PROVE  /\ snap.at \in Nat /\ snap.view \subseteq Levels
           /\ snap.book \in [Levels -> Nat] /\ snap.book \in [Levels -> Quantities]
  BY DEF TypeOK, Quantities

\* A quantity of a snapshot is its own amount.
LEMMA AmountOfNat == ASSUME NEW q \in Nat PROVE Amount(q) = q
  BY DEF Amount, Zero

\* Every step of venue, feed and reader keeps the types.
LEMMA StepTypeOK == TypeOK /\ [Next]_vars => TypeOK'
<1> SUFFICES ASSUME TypeOK, [Next]_vars PROVE TypeOK'
  OBVIOUS
<1>1. ASSUME NEW l \in Levels, Change(l) PROVE TypeOK'
  BY <1>1 DEF Change, TypeOK, Quantities, reconVars, outVars
<1>2. CASE Flush
  BY <1>2, EventType DEF Flush, TypeOK, reconVars, outVars
<1>3. CASE Cut
  BY <1>3 DEF Cut, TypeOK, venueVars, reconVars, outVars
<1>4. CASE SnapshotServed
  <2>1. snap' \in [at : Nat, book : [Levels -> Nat], view : SUBSET Levels]
    <3>1. /\ [l \in Levels |-> IF l \in InView THEN Amount(qty[l]) ELSE 0] \in [Levels -> Nat]
          /\ InView \subseteq Levels /\ seq \in Nat
      BY DEF TypeOK, Quantities, Amount, InView
    <3> QED BY <1>4, <3>1 DEF SnapshotServed
  <2> QED BY <1>4, <2>1 DEF SnapshotServed, TypeOK, venueVars, reconVars, outVars
<1>5. CASE SnapshotFails
  BY <1>5 DEF SnapshotFails, TypeOK, venueVars, reconVars, outVars
<1>6. CASE FirstSnapshot
  <2>1. EmitUpdate(snap.book) /\ NoSnap \in [at : Nat, book : [Levels -> Nat], view : SUBSET Levels]
    BY <1>6, EmptyBook DEF FirstSnapshot
  <2>2. snap.book \in [Levels -> Quantities] /\ snap.at \in Nat /\ snap.view \subseteq Levels
    BY SnapParts
  <2>3. out' \in Seq(Nat \ {0}) /\ Len(out') <= Cap /\ emits' \in Nat /\ latest' \in Nat
    BY <2>1, EmitType
  <2> QED BY <1>6, <2>1, <2>2, <2>3 DEF FirstSnapshot, ApplySnapshot, TypeOK, venueVars
<1>7. CASE RefreshedSnapshot
  <2>1. NoSnap \in [at : Nat, book : [Levels -> Nat], view : SUBSET Levels]
    BY EmptyBook
  <2>2. snap.book \in [Levels -> Quantities] /\ snap.at \in Nat /\ snap.view \subseteq Levels
    BY SnapParts
  <2> QED BY <1>7, <2>1, <2>2 DEF RefreshedSnapshot, ApplySnapshot, TypeOK, venueVars, outVars
<1>8. CASE Dial
  BY <1>8 DEF Dial, TypeOK, reconVars, outVars
<1>9. CASE ReadError
  BY <1>9 DEF ReadError, TypeOK, venueVars, reconVars, outVars
<1>10. CASE DropStale
  BY <1>10, HeadType DEF DropStale, TypeOK, venueVars, reconVars, outVars
<1>11. CASE DetectGap
  BY <1>11, HeadType DEF DetectGap, TypeOK, venueVars, outVars
<1>12. CASE ApplyDiff
  <2> DEFINE e == Head(queue)
  <2>1. e \in DepthEvents /\ queue' \in Seq(DepthEvents)
    BY <1>12, HeadType DEF ApplyDiff
  <2>2. book' = Merge(book, e.diff) /\ lastSeq' = e.last /\ covered' = e.last /\ EmitUpdate(book')
    BY <1>12 DEF ApplyDiff
  <2>3. e.diff \in [Levels -> Quantities \cup {Untouched}] /\ e.last \in Nat
    BY <2>1 DEF DepthEvents
  <2>4. book' \in [Levels -> Quantities]
    BY <2>2, <2>3, MergeType DEF TypeOK
  <2>5. hole' \in BOOLEAN /\ seen' \subseteq Levels
    BY <1>12 DEF ApplyDiff, TypeOK
  <2>6. /\ out' \in Seq(Nat \ {0}) /\ Len(out') <= Cap /\ emits' \in Nat /\ latest' \in Nat
    BY <2>2, EmitType
  <2>7. UNCHANGED <<venueVars, conn, pc, snap>>
    BY <1>12 DEF ApplyDiff
  <2> QED BY <2>1, <2>2, <2>3, <2>4, <2>5, <2>6, <2>7 DEF TypeOK, venueVars
<1>13. CASE Consume
  <2>1. /\ Head(out) \in Nat \ {0} /\ Tail(out) \in Seq(Nat \ {0})
        /\ Len(Tail(out)) = Len(out) - 1 /\ Len(out) \in Nat
    BY <1>13, HeadTailProperties, LenProperties DEF Consume, TypeOK
  <2>2. Len(Tail(out)) <= Cap
    BY <2>1, CapAssumption DEF TypeOK
  <2> QED BY <1>13, <2>1, <2>2 DEF Consume, TypeOK, venueVars, reconVars
<1>14. CASE UNCHANGED vars
  BY <1>14 DEF vars, TypeOK, venueVars, reconVars, outVars
<1> QED
  BY <1>1, <1>2, <1>3, <1>4, <1>5, <1>6, <1>7, <1>8, <1>9, <1>10, <1>11, <1>12, <1>13, <1>14
  DEF Next

-----------------------------------------------------------------------------
\* Any queued depth event is a depth event.
LEMMA QueueItem ==
    ASSUME TypeOK, NEW i \in 1..Len(queue)
    PROVE  /\ queue[i].first \in Nat /\ queue[i].last \in Nat \ {0}
           /\ queue[i].diff \in [Levels -> Quantities \cup {Untouched}]
<1>1. queue[i] \in DepthEvents
  BY LenProperties DEF TypeOK
<1> QED BY <1>1 DEF DepthEvents

\* The inductive invariant holds of the empty book.
LEMMA InitBookInv == Init => BookInv
<1> SUFFICES ASSUME Init PROVE BookInv
  OBVIOUS
<1>1. TypeOK
  BY InitTypeOK
<1>2. QueueTrue
  BY EmptySeq DEF Init, QueueTrue
<1>3. SnapTrue /\ Sequenced
  BY DEF Init, SnapTrue, Sequenced
<1>4. Bounds /\ ExactUnlessHole
  BY DEF Init, Bounds, ExactUnlessHole, Empty
<1> QED BY <1>1, <1>2, <1>3, <1>4 DEF BookInv

\* What was said of a level stays true while the venue does not touch it, and a
\* change is newer than everything said so far.
LEMMA ChangeKeeps ==
    ASSUME BookInv, NEW l \in Levels, Change(l)
    PROVE  Bounds' /\ QueueTrue' /\ SnapTrue' /\ Sequenced' /\ ExactUnlessHole'
<1>0. TypeOK /\ Bounds /\ QueueTrue /\ SnapTrue /\ Sequenced /\ ExactUnlessHole
  BY DEF BookInv
<1>1. /\ seq' = seq + 1 /\ touched' = [touched EXCEPT ![l] = seq + 1]
      /\ \A k \in Levels : k # l => qty'[k] = qty[k]
      /\ UNCHANGED <<flushed, queue, pc, snap, book, lastSeq, seen, covered, hole>>
  BY <1>0 DEF Change, TypeOK, reconVars
<1>2. /\ seq \in Nat /\ touched \in [Levels -> Nat] /\ covered \in Nat /\ flushed \in Nat
      /\ snap.at \in Nat
  BY <1>0, SnapParts DEF TypeOK
<1>3. Bounds' /\ Sequenced'
  BY <1>0, <1>1, <1>2 DEF Bounds, Sequenced
<1>4. QueueTrue'
  <2> SUFFICES ASSUME NEW i \in 1..Len(queue) PROVE EventTrue(queue[i])'
    BY <1>1 DEF QueueTrue
  <2>1. EventTrue(queue[i]) /\ queue[i].last \in Nat /\ queue[i].first \in Nat
    BY <1>0, QueueItem DEF QueueTrue
  <2> QED BY <1>1, <1>2, <2>1 DEF EventTrue
<1>5. SnapTrue' /\ ExactUnlessHole'
  BY <1>0, <1>1, <1>2 DEF SnapTrue, ExactUnlessHole, Bounds
<1> QED BY <1>3, <1>4, <1>5

\* The venue sends a depth event: it carries the levels touched since the last.
LEMMA FlushKeeps ==
    ASSUME BookInv, Flush
    PROVE  Bounds' /\ QueueTrue' /\ SnapTrue' /\ Sequenced' /\ ExactUnlessHole'
<1>0. TypeOK /\ Bounds /\ QueueTrue /\ SnapTrue /\ Sequenced /\ ExactUnlessHole
  BY DEF BookInv
<1>1. /\ UNCHANGED <<seq, qty, touched, pc, snap, book, lastSeq, seen, covered, hole>>
      /\ flushed' = seq /\ seq > flushed
      /\ queue' \in {queue, Append(queue, DepthEvent)}
  BY DEF Flush, reconVars
<1>2. EventTrue(DepthEvent)
  BY <1>0, <1>1 DEF TypeOK, Bounds, EventTrue, DepthEvent
<1>3. DepthEvent \in DepthEvents
  BY <1>0, <1>1, EventType
<1>4. QueueTrue'
  <2> SUFFICES ASSUME NEW i \in 1..Len(queue') PROVE EventTrue(queue'[i])
    BY <1>1 DEF QueueTrue, EventTrue
  <2>1. CASE queue' = queue
    BY <2>1, <1>0 DEF QueueTrue
  <2>2. CASE queue' = Append(queue, DepthEvent)
    <3>1. /\ Len(queue) \in Nat /\ Len(queue') = Len(queue) + 1
          /\ \A j \in 1..Len(queue) : queue'[j] = queue[j]
          /\ queue'[Len(queue) + 1] = DepthEvent
      BY <2>2, <1>0, <1>3, AppendProperties, LenProperties DEF TypeOK
    <3>2. CASE i = Len(queue) + 1
      BY <3>1, <3>2, <1>2
    <3>3. CASE i # Len(queue) + 1
      BY <3>1, <3>3, <1>0 DEF QueueTrue
    <3> QED BY <3>2, <3>3
  <2> QED BY <1>1, <2>1, <2>2
<1>5. Bounds' /\ SnapTrue' /\ Sequenced' /\ ExactUnlessHole'
  BY <1>0, <1>1 DEF Bounds, SnapTrue, Sequenced, ExactUnlessHole, TypeOK
<1> QED BY <1>4, <1>5

\* Removing the head of the queue, or all of it, leaves true events.
LEMMA PopKeeps ==
    ASSUME TypeOK, QueueTrue, queue # <<>>, queue' = Tail(queue), UNCHANGED <<seq, qty, touched>>
    PROVE  QueueTrue' /\ EventTrue(Head(queue))
<1>1. /\ Len(queue) \in Nat /\ Len(queue') = Len(queue) - 1 /\ Len(queue) > 0
      /\ \A i \in 1..Len(queue') : queue'[i] = queue[i + 1]
  BY HeadTailProperties, LenProperties, EmptySeq DEF TypeOK
<1>2. \A i \in 1..Len(queue') : EventTrue(queue'[i])
  BY <1>1 DEF QueueTrue
<1>3. Head(queue) = queue[1]
  BY DEF TypeOK
<1> QED BY <1>1, <1>2, <1>3 DEF QueueTrue, EventTrue

\* A snapshot replaces the book and is exact up to the change it was taken at.
LEMMA SnapshotKeeps ==
    ASSUME BookInv, ApplySnapshot, pc \in {"first_apply", "refresh_apply"},
           pc' \in {"dial", "reading"}, UNCHANGED <<venueVars, queue>>
    PROVE  Bounds' /\ QueueTrue' /\ SnapTrue' /\ Sequenced' /\ ExactUnlessHole'
<1>0. TypeOK /\ Bounds /\ QueueTrue /\ SnapTrue /\ Sequenced
  BY DEF BookInv
<1>1. snap.at \in Nat /\ \A l \in Levels : Amount(snap.book[l]) = snap.book[l]
  BY <1>0, SnapParts, AmountOfNat
<1>2. ExactUnlessHole'
  BY <1>0, <1>1 DEF ApplySnapshot, venueVars, SnapTrue, ExactUnlessHole
<1> QED
  BY <1>0, <1>1, <1>2 DEF ApplySnapshot, venueVars, Bounds, QueueTrue, EventTrue, SnapTrue, Sequenced

\* The heart of the matter: an event whose first change is not beyond what the
\* book has reached brings the book, exactly, to the event's last change, even
\* when the book was ahead of it.
LEMMA DiffKeeps ==
    ASSUME BookInv, ApplyDiff
    PROVE  Bounds' /\ QueueTrue' /\ SnapTrue' /\ Sequenced' /\ ExactUnlessHole'
<1> DEFINE e == Head(queue)
<1>0. TypeOK /\ Bounds /\ QueueTrue /\ SnapTrue /\ Sequenced /\ ExactUnlessHole
  BY DEF BookInv
<1>1. /\ pc = "reading" /\ queue # <<>> /\ queue' = Tail(queue)
      /\ book' = Merge(book, e.diff) /\ lastSeq' = e.last /\ covered' = e.last
      /\ seen' = seen \cup {l \in Levels : e.diff[l] # Untouched}
      /\ hole' = (hole \/ e.first > covered + 1)
      /\ UNCHANGED <<seq, qty, touched, flushed, pc, snap>>
  BY DEF ApplyDiff, Reading, venueVars
<1>2. QueueTrue' /\ EventTrue(e)
  BY <1>0, <1>1, PopKeeps
<1>3. e \in DepthEvents
  BY <1>0, <1>1, HeadTailProperties DEF TypeOK
<1>4. e.first \in Nat /\ e.last \in Nat
  BY <1>3 DEF DepthEvents
<1>5. Bounds' /\ SnapTrue' /\ Sequenced'
  BY <1>0, <1>1, <1>2, <1>4 DEF Bounds, SnapTrue, Sequenced, EventTrue
<1>6. ExactUnlessHole'
  <2> SUFFICES ASSUME ~ hole', NEW l \in Levels
               PROVE  IF l \in seen' THEN touched[l] <= e.last => Amount(book'[l]) = Amount(qty[l])
                                     ELSE book'[l] = 0
    BY <1>1 DEF ExactUnlessHole
  <2>1. ~ hole /\ ~ (e.first > covered + 1)
    BY <1>1
  <2>2. touched[l] \in Nat /\ covered \in Nat /\ qty[l] # Untouched
    BY <1>0 DEF TypeOK, Quantities, Untouched, Zero
  <2>3. touched[l] <= e.last => e.diff[l] = IF touched[l] >= e.first THEN qty[l] ELSE Untouched
    BY <1>2 DEF EventTrue
  <2>4. book'[l] = IF e.diff[l] = Untouched THEN book[l] ELSE e.diff[l]
    BY <1>1 DEF Merge
  <2>5. CASE e.diff[l] # Untouched
    <3>1. l \in seen' /\ book'[l] = e.diff[l]
      BY <1>1, <2>4, <2>5
    <3> QED BY <3>1, <2>3, <2>5
  <2>6. CASE e.diff[l] = Untouched
    <3>1. book'[l] = book[l] /\ (l \in seen' <=> l \in seen)
      BY <1>1, <2>4, <2>6
    <3>2. ASSUME touched[l] <= e.last PROVE touched[l] <= covered
      BY <3>2, <1>4, <2>1, <2>2, <2>3, <2>6
    <3> QED BY <3>1, <3>2, <2>1, <1>0 DEF ExactUnlessHole
  <2> QED BY <2>5, <2>6
<1> QED BY <1>2, <1>5, <1>6

\* Every step keeps the inductive invariant.
LEMMA StepBookInv == BookInv /\ [Next]_vars => BookInv'
<1> SUFFICES ASSUME BookInv, [Next]_vars PROVE BookInv'
  OBVIOUS
<1>0. TypeOK /\ Bounds /\ QueueTrue /\ SnapTrue /\ Sequenced /\ ExactUnlessHole
  BY DEF BookInv
<1>t. TypeOK'
  BY <1>0, StepTypeOK
<1> DEFINE Rest == Bounds /\ QueueTrue /\ SnapTrue /\ Sequenced /\ ExactUnlessHole
<1> SUFFICES Rest'
  BY <1>t DEF BookInv
<1>1. ASSUME NEW l \in Levels, Change(l) PROVE Rest'
  BY <1>1, ChangeKeeps
<1>2. CASE Flush
  BY <1>2, FlushKeeps
<1>3. CASE Cut \/ Consume \/ UNCHANGED vars
  BY <1>3, <1>0 DEF Cut, Consume, vars, venueVars, reconVars, Bounds, QueueTrue, EventTrue, SnapTrue,
        Sequenced, ExactUnlessHole
<1>4. CASE SnapshotServed
  <2>1. /\ UNCHANGED <<seq, qty, touched, flushed, queue, book, lastSeq, seen, covered, hole>>
        /\ snap'.at = seq /\ snap'.view = InView /\ lastSeq = 0
        /\ snap'.book = [l \in Levels |-> IF l \in InView THEN Amount(qty[l]) ELSE 0]
    BY <1>4, <1>0 DEF SnapshotServed, venueVars, reconVars, Sequenced
  <2>2. Bounds' /\ Sequenced' /\ ExactUnlessHole'
    BY <2>1, <1>0 DEF Bounds, Sequenced, ExactUnlessHole
  <2>3. QueueTrue'
    BY <2>1, <1>0 DEF QueueTrue, EventTrue
  <2>4. SnapTrue'
    <3>1. seq \in Nat
      BY <1>0 DEF TypeOK
    <3> QED BY <2>1, <3>1 DEF SnapTrue
  <2> QED BY <2>2, <2>3, <2>4
<1>5. CASE SnapshotFails
  BY <1>5, <1>0 DEF SnapshotFails, venueVars, reconVars, Bounds, QueueTrue, EventTrue, SnapTrue,
        Sequenced, ExactUnlessHole
<1>6. CASE FirstSnapshot \/ RefreshedSnapshot
  BY <1>6, SnapshotKeeps DEF FirstSnapshot, RefreshedSnapshot
<1>7. CASE Dial \/ ReadError
  <2>1. /\ UNCHANGED <<seq, qty, touched, book, lastSeq, seen, covered, hole>>
        /\ queue' = <<>> /\ flushed' \in 0..flushed /\ pc' \in {"dial", "reading"}
    BY <1>7, <1>0 DEF Dial, ReadError, venueVars, reconVars, TypeOK
  <2>2. QueueTrue'
    BY <2>1, EmptySeq DEF QueueTrue
  <2> QED BY <2>1, <2>2, <1>0 DEF Bounds, SnapTrue, Sequenced, ExactUnlessHole, TypeOK
<1>8. CASE DropStale \/ DetectGap
  <2>1. /\ UNCHANGED <<seq, qty, touched, flushed, snap, book, seen, covered, hole>>
        /\ queue # <<>> /\ queue' = Tail(queue) /\ pc = "reading"
        /\ (lastSeq' = lastSeq /\ pc' = pc) \/ (lastSeq' = 0 /\ pc' = "refresh")
    BY <1>8 DEF DropStale, DetectGap, Reading, venueVars, reconVars
  <2>2. QueueTrue'
    BY <2>1, <1>0, PopKeeps
  <2> QED BY <2>1, <2>2, <1>0 DEF Bounds, SnapTrue, Sequenced, ExactUnlessHole
<1>9. CASE ApplyDiff
  BY <1>9, DiffKeeps
<1> QED
  BY <1>1, <1>2, <1>3, <1>4, <1>5, <1>6, <1>7, <1>8, <1>9 DEF Next

\* The inductive invariant holds in every behaviour of the feed.
LEMMA BookInductive == Spec => []BookInv
  BY InitBookInv, StepBookInv, PTL DEF Spec

\* Type correctness of the feed, the reconstructor and the aggregator.
THEOREM TypeCorrect == Spec => []TypeOK
  BY BookInductive, PTL DEF BookInv

\* BookReconstructor keeps an exact book, whatever the socket and the snapshot
\* calls do, until a diff is applied over a missing change.
THEOREM Exact == Spec => []ExactUnlessHole
  BY BookInductive, PTL DEF BookInv

\* ... and while lastSeq is not 0 no diff is: gap detection is complete.
THEOREM GapDetection == Spec => HoleOnlyUnsequenced
<1>1. ASSUME BookInv, [Next]_vars, hole', ~ hole PROVE lastSeq = 0
  <2>0. TypeOK /\ QueueTrue /\ Sequenced
    BY <1>1 DEF BookInv
  <2>1. CASE ApplyDiff
    <3> DEFINE e == Head(queue)
    <3>1. /\ queue # <<>> /\ queue' = Tail(queue) /\ UNCHANGED <<seq, qty, touched>>
          /\ ~ IsGap(e) /\ hole' = (hole \/ e.first > covered + 1)
      BY <2>1 DEF ApplyDiff, Reading, venueVars
    <3>2. EventTrue(e) /\ e \in DepthEvents
      BY <2>0, <3>1, PopKeeps, HeadTailProperties DEF TypeOK
    <3>3. e.first \in Nat /\ e.last \in Nat /\ e.first <= e.last /\ e.first > covered + 1
      BY <3>1, <3>2, <1>1 DEF DepthEvents, EventTrue
    <3> QED BY <3>1, <3>3, <2>0 DEF IsGap, Sequenced, TypeOK
  <2>2. CASE ~ ApplyDiff
    BY <2>2, <1>1 DEF Next, vars, Change, Flush, Cut, SnapshotServed, SnapshotFails, FirstSnapshot,
          RefreshedSnapshot, ApplySnapshot, Dial, ReadError, DropStale, DetectGap, Consume, reconVars
  <2> QED BY <2>1, <2>2
<1>2. BookInv /\ [Next]_vars => [hole' /\ ~ hole => lastSeq = 0]_vars
  BY <1>1
<1> QED BY <1>2, BookInductive, PTL DEF Spec, HoleOnlyUnsequenced

-----------------------------------------------------------------------------
\* Emitting appends a newer update, or drops it.
LEMMA EmitKeeps ==
    ASSUME TypeOK, ChannelInv, NEW b, EmitUpdate(b)
    PROVE  ChannelInv' /\ emits' \in {emits, emits + 1} /\ latest' = latest
<1>0. out \in Seq(Nat) /\ emits \in Nat /\ latest \in Nat /\ Len(out) \in Nat
  <2>1. out \in Seq(Nat \ {0})
    BY DEF TypeOK
  <2> QED BY <2>1, LenProperties DEF TypeOK
<1>1. \A i \in 1..Len(out) : out[i] \in Nat
  BY <1>0, LenProperties
<1>2. CASE out' = out
  BY <1>0, <1>1, <1>2 DEF ChannelInv, EmitUpdate
<1>3. CASE out' = Append(out, emits + 1) /\ emits' = emits + 1
  <2>1. /\ Len(out') = Len(out) + 1
        /\ \A i \in 1..Len(out) : out'[i] = out[i]
        /\ out'[Len(out) + 1] = emits + 1
    <3>1. emits + 1 \in Nat
      BY <1>0
    <3>2. /\ Len(Append(out, emits + 1)) = Len(out) + 1
          /\ \A i \in 1..Len(out) : Append(out, emits + 1)[i] = out[i]
          /\ Append(out, emits + 1)[Len(out) + 1] = emits + 1
      BY <1>0, <3>1, AppendProperties
    <3> QED BY <3>2, <1>3
  <2>2. latest' = latest
    BY DEF EmitUpdate
  <2>3. \A i \in 1..Len(out') : latest' < out'[i] /\ out'[i] <= emits'
    BY <1>0, <1>1, <1>3, <2>1, <2>2 DEF ChannelInv
  <2>4. \A i, j \in 1..Len(out') : i < j => out'[i] < out'[j]
    <3> SUFFICES ASSUME NEW i \in 1..Len(out'), NEW j \in 1..Len(out'), i < j
                 PROVE  out'[i] < out'[j]
      OBVIOUS
    <3>1. i \in 1..Len(out) /\ out'[i] = out[i]
      BY <1>0, <2>1
    <3>2. CASE j = Len(out) + 1
      BY <1>0, <1>1, <2>1, <3>1, <3>2 DEF ChannelInv
    <3>3. CASE j # Len(out) + 1
      <4>1. j \in 1..Len(out) /\ out'[j] = out[j]
        BY <1>0, <2>1, <3>3
      <4> QED BY <3>1, <4>1 DEF ChannelInv
    <3> QED BY <3>2, <3>3
  <2> QED BY <1>0, <1>3, <2>2, <2>3, <2>4 DEF ChannelInv
<1> QED BY <1>2, <1>3 DEF EmitUpdate

\* Consuming shows the oldest update of the channel, newer than the one shown.
LEMMA ConsumeKeeps ==
    ASSUME TypeOK, ChannelInv, Consume
    PROVE  ChannelInv' /\ emits' = emits /\ latest' \in (latest + 1)..emits
<1>0. out \in Seq(Nat) /\ emits \in Nat /\ latest \in Nat
  <2>1. out \in Seq(Nat \ {0})
    BY DEF TypeOK
  <2> QED BY <2>1 DEF TypeOK
<1>1. /\ out # <<>> /\ out' = Tail(out) /\ latest' = Head(out) /\ emits' = emits
  BY DEF Consume
<1>2. /\ Len(out) \in Nat /\ Len(out) > 0 /\ Len(out') = Len(out) - 1
      /\ \A i \in 1..Len(out') : out'[i] = out[i + 1]
  BY <1>0, <1>1, HeadTailProperties, LenProperties, EmptySeq
<1>3. Head(out) = out[1]
  BY <1>0
<1>4. \A i \in 1..Len(out) : out[i] \in Nat
  BY <1>0, LenProperties
<1>5. ChannelInv'
  BY <1>0, <1>1, <1>2, <1>3, <1>4 DEF ChannelInv
<1> QED BY <1>0, <1>1, <1>2, <1>3, <1>4, <1>5 DEF ChannelInv

\* Every step keeps the channel increasing, between what is shown and what was emitted.
LEMMA StepChannel ==
    ASSUME TypeOK, ChannelInv, [Next]_vars
    PROVE  ChannelInv' /\ [Register!Next]_<<emits, latest>>
<1>1. CASE Consume
  BY <1>1, ConsumeKeeps DEF Register!Next, Register!Show
<1>2. ASSUME NEW b, EmitUpdate(b) PROVE ChannelInv' /\ [Register!Next]_<<emits, latest>>
  BY <1>2, EmitKeeps DEF Register!Next, Register!Produce
<1>3. CASE UNCHANGED outVars
  BY <1>3 DEF outVars, ChannelInv
<1>4. Consume \/ UNCHANGED outVars \/ EmitUpdate(snap.book) \/ EmitUpdate(book')
  BY DEF Next, vars, Change, Flush, Cut, SnapshotServed, SnapshotFails, FirstSnapshot, RefreshedSnapshot,
        Dial, ReadError, DropStale, DetectGap, ApplyDiff
<1> QED BY <1>1, <1>2, <1>3, <1>4

\* GET /v1/book: the feed, its channel and the aggregator implement the register.
THEOREM Refinement == Spec => RegisterSpec
<1>1. Init => ChannelInv /\ Register!Init
  BY EmptySeq DEF Init, ChannelInv, Register!Init
<1>2. TypeOK /\ ChannelInv /\ [Next]_vars => ChannelInv' /\ [Register!Next]_<<emits, latest>>
  BY StepChannel
<1> QED BY <1>1, <1>2, TypeCorrect, PTL DEF Spec, RegisterSpec, Register!Spec
=============================================================================
