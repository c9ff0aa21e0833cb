------------------------------ MODULE BookFeed ------------------------------
(***************************************************************************)
(* The Binance order book feed of one pair: the goroutine of SubscribeBook *)
(* (first snapshot, then ws.Client.Run calling the diff handler), the      *)
(* BookReconstructor it maintains, the bounded channel of updates and the  *)
(* BookAggregator goroutine that keeps the latest one.                     *)
(*                                                                         *)
(* Binance (external) numbers the changes of its book; a depth event       *)
(* carries, for every level touched since the event before, its quantity,  *)
(* and the number of the last change.  A quantity is named by the number   *)
(* of the change that set it, 0 meaning the level is absent.  A removal is *)
(* written in one of two ways: as 0, the texts "0" and "" that ApplyDiff   *)
(* takes for a deletion, or as Zero, a text such as "0.00000000" that it   *)
(* stores as it stores any quantity, so that the level stays in the map.   *)
(***************************************************************************)
EXTENDS Integers, Sequences, FiniteSets

CONSTANTS
    Bids, Asks,     \* the price levels of the two sides
    Depth,          \* levels of each side in a snapshot (limit=100)
    Cap,            \* capacity of the update channel (64)
    MaxChanges      \* bound on the venue's changes

Levels == Bids \cup Asks
ASSUME SidesAssumption ==
    Bids \subseteq Int /\ Asks \subseteq Int /\ Bids \cap Asks = {} /\ Bids # {} /\ Asks # {}
ASSUME CapAssumption == Cap \in Nat \ {0} /\ Depth \in Nat \ {0} /\ MaxChanges \in Nat

VARIABLES
    seq, qty, touched,  \* venue: last change, quantity of and last change to each level
    flushed,            \* venue: last change already put in a depth event
    conn,               \* the web socket: "down", "up", or "broken" (cut, not yet noticed)
    queue,              \* depth events sent and not yet read
    pc,                 \* the feed goroutine
    snap,               \* book in the snapshot answer, its change number, the levels in its view
    book, lastSeq,      \* BookReconstructor.bids/asks and lastSeq
    seen,               \* history: levels the last snapshot, or a diff since, speaks of
    covered,            \* history: the book has every change up to here
    hole,               \* history: a diff went over a missing change, no snapshot since
    out,                \* the channel of updates
    emits,              \* updates emitted so far
    latest              \* BookAggregator.latest: the number of its update, 0 for none

venueVars == <<seq, qty, touched, flushed>>
reconVars == <<book, lastSeq, seen, covered, hole>>
outVars == <<out, emits, latest>>
vars == <<venueVars, conn, queue, pc, snap, reconVars, outVars>>

Empty == [l \in Levels |-> 0]
NoSnap == [at |-> 0, book |-> Empty, view |-> {}]
Untouched == -1
Zero == -2
Amount(q) == IF q = Zero THEN 0 ELSE q

Init ==
    /\ seq = 0 /\ qty = Empty /\ touched = Empty /\ flushed = 0
    /\ conn = "down" /\ queue = <<>>
    /\ pc = "first_snapshot" /\ snap = NoSnap
    /\ book = Empty /\ lastSeq = 0 /\ seen = Levels /\ covered = 0
    /\ hole = FALSE
    /\ out = <<>> /\ emits = 0 /\ latest = 0
-----------------------------------------------------------------------------
(* Binance and the socket (external) *)

Change(l) ==
    /\ seq < MaxChanges
    /\ seq' = seq + 1
    /\ \E q \in {0, Zero, seq + 1} : qty' = [qty EXCEPT ![l] = q]
    /\ touched' = [touched EXCEPT ![l] = seq + 1]
    /\ UNCHANGED <<flushed, conn, queue, pc, snap, reconVars, outVars>>

DepthEvent ==
    [first |-> flushed + 1, last |-> seq,
     diff |-> [l \in Levels |-> IF touched[l] > flushed THEN qty[l] ELSE Untouched]]

\* A depth event leaves Binance; on a cut connection it is lost.
Flush ==
    /\ seq > flushed
    /\ flushed' = seq
    /\ queue' = IF conn = "up" THEN Append(queue, DepthEvent) ELSE queue
    /\ UNCHANGED <<seq, qty, touched, conn, pc, snap, reconVars, outVars>>

Cut ==
    /\ conn = "up"
    /\ conn' = "broken"
    /\ UNCHANGED <<venueVars, queue, pc, snap, reconVars, outVars>>
-----------------------------------------------------------------------------
(* The feed goroutine *)

\* A level stored with a zero quantity counts as one.
TwoSided(b) == (\E l \in Bids : b[l] # 0) /\ (\E l \in Asks : b[l] # 0)

\* Mutated form of EmitUpdate: the capacity is not looked at.
EmitUpdateUnbounded(b) ==
    /\ emits' = IF TwoSided(b) THEN emits + 1 ELSE emits
    /\ out' = IF TwoSided(b) THEN Append(out, emits + 1) ELSE out
    /\ latest' = latest

\* emitUpdate: nothing for a one-sided book, and a full channel loses the update.
EmitUpdate(b) ==
    /\ emits' = IF TwoSided(b) THEN emits + 1 ELSE emits
    /\ out' = IF TwoSided(b) /\ Len(out) < Cap THEN Append(out, emits + 1) ELSE out
    /\ latest' = latest

\* limit=100: the answer speaks of a level when fewer than Depth levels of its
\* side are better, and of no other (external).
Better(l) == IF l \in Bids THEN {k \in Bids : k > l} ELSE {k \in Asks : k < l}
InView == {l \in Levels : Cardinality({k \in Better(l) : Amount(qty[k]) # 0}) < Depth}

\* refreshSnapshot, the REST call: the answer shows the best levels of the book
\* of some instant between request and answer, and reaches the feed later.
SnapshotServed ==
    /\ pc \in {"first_snapshot", "refresh"}
    /\ snap' = [at |-> seq, view |-> InView,
                book |-> [l \in Levels |-> IF l \in InView THEN Amount(qty[l]) ELSE 0]]
    /\ pc' = IF pc = "refresh" THEN "refresh_apply" ELSE "first_apply"
    /\ UNCHANGED <<venueVars, conn, queue, reconVars, outVars>>

\* ... or the call fails: the first time the pair is left without a snapshot, and
\* after a gap the book is left as it was, with lastSeq reset.
SnapshotFails ==
    /\ pc \in {"first_snapshot", "refresh"}
    /\ pc' = IF pc = "refresh" THEN "reading" ELSE "dial"
    /\ UNCHANGED <<venueVars, conn, queue, snap, reconVars, outVars>>

\* BookReconstructor.ApplySnapshot: both maps are made anew, lastSeq is not set.
ApplySnapshot ==
    /\ book' = snap.book
    /\ seen' = snap.view
    /\ covered' = snap.at
    /\ hole' = FALSE
    /\ snap' = NoSnap
    /\ UNCHANGED lastSeq

FirstSnapshot ==
    /\ pc = "first_apply"
    /\ ApplySnapshot
    /\ EmitUpdate(snap.book)
    /\ pc' = "dial"
    /\ UNCHANGED <<venueVars, conn, queue>>

RefreshedSnapshot ==
    /\ pc = "refresh_apply"
    /\ ApplySnapshot
    /\ pc' = "reading"
    /\ UNCHANGED <<venueVars, conn, queue, outVars>>

\* ws.Client.Run: connect.  The node that answers may be behind the last one.
Dial ==
    /\ pc = "dial"
    /\ conn' = "up"
    /\ queue' = <<>>
    /\ flushed' \in 0..flushed
    /\ pc' = "reading"
    /\ UNCHANGED <<seq, qty, touched, snap, reconVars, outVars>>

\* readLoop ends with an error at any point; Run drops the connection.
ReadError ==
    /\ pc = "reading"
    /\ conn' = "down"
    /\ queue' = <<>>
    /\ pc' = "dial"
    /\ UNCHANGED <<venueVars, snap, reconVars, outVars>>

\* The handler, ApplyDiff's three outcomes.
IsStale(e) == lastSeq # 0 /\ e.last <= lastSeq
\* Mutated form of IsGap: off by one.
IsGapOffByOne(e) == lastSeq # 0 /\ e.last > lastSeq + 2
IsGap(e) == lastSeq # 0 /\ e.last > lastSeq + 1

\* Mutated form of Merge: the asks' branch deletes from the bids.
MergeDeletesBid(b, diff) ==
    [l \in Levels |-> IF diff[l] = Untouched \/ (l \in Asks /\ diff[l] = 0) THEN b[l] ELSE diff[l]]

\* The two loops of ApplyDiff: 0 deletes the level, Zero is stored in it.
Merge(b, diff) == [l \in Levels |-> IF diff[l] = Untouched THEN b[l] ELSE diff[l]]

Reading == pc = "reading" /\ queue # <<>> /\ queue' = Tail(queue)

DropStale ==
    /\ Reading
    /\ IsStale(Head(queue))
    /\ UNCHANGED <<venueVars, conn, pc, snap, reconVars, outVars>>

\* A gap: MarkGap, then refreshSnapshot; the diff itself is not applied.
DetectGap ==
    /\ Reading
    /\ IsGap(Head(queue))
    /\ lastSeq' = 0
    /\ pc' = "refresh"
    /\ UNCHANGED <<venueVars, conn, snap, book, seen, covered, hole, outVars>>

ApplyDiff ==
    /\ Reading
    /\ LET e == Head(queue) IN
         /\ ~ IsStale(e) /\ ~ IsGap(e)
         /\ book' = Merge(book, e.diff)
         /\ lastSeq' = e.last
         /\ seen' = seen \cup {l \in Levels : e.diff[l] # Untouched}
         /\ covered' = e.last
         /\ hole' = (hole \/ e.first > covered + 1)
         /\ EmitUpdate(book')
    /\ UNCHANGED <<venueVars, conn, pc, snap>>

\* Mutated form of Consume: the newest update is taken first.
ConsumeNewest ==
    /\ out # <<>>
    /\ latest' = out[Len(out)]
    /\ out' = SubSeq(out, 1, Len(out) - 1)
    /\ UNCHANGED <<venueVars, conn, queue, pc, snap, reconVars, emits>>

\* BookAggregator.consume, one update.
Consume ==
    /\ out # <<>>
    /\ latest' = Head(out)
    /\ out' = Tail(out)
    /\ UNCHANGED <<venueVars, conn, queue, pc, snap, reconVars, emits>>

Next ==
    \/ (\E l \in Levels : Change(l)) \/ Flush \/ Cut
    \/ SnapshotServed \/ SnapshotFails \/ FirstSnapshot \/ RefreshedSnapshot
    \/ Dial \/ ReadError
    \/ DropStale \/ DetectGap \/ ApplyDiff
    \/ Consume

Spec == Init /\ [][Next]_vars
-----------------------------------------------------------------------------
Quantities == Nat \cup {Zero}
DepthEvents ==
    [first : Nat \ {0}, last : Nat \ {0}, diff : [Levels -> Quantities \cup {Untouched}]]

TypeOK ==
    /\ seq \in Nat /\ flushed \in Nat
    /\ qty \in [Levels -> Quantities] /\ touched \in [Levels -> Nat]
    /\ conn \in {"down", "up", "broken"}
    /\ queue \in Seq(DepthEvents)
    /\ pc \in {"first_snapshot", "first_apply", "dial", "reading", "refresh", "refresh_apply"}
    /\ snap \in [at : Nat, book : [Levels -> Nat], view : SUBSET Levels]
    /\ book \in [Levels -> Quantities] /\ seen \subseteq Levels
    /\ lastSeq \in Nat /\ covered \in Nat /\ hole \in BOOLEAN
    /\ out \in Seq(Nat \ {0}) /\ Len(out) <= Cap
    /\ emits \in Nat /\ latest \in Nat

\* Unless a diff was applied over a missing change, the book holds for every
\* level it was told of what the venue last set it to, up to the change the book
\* has reached: across cuts, reconnections, batched events, snapshots of limited
\* depth that are ahead of the diffs still queued, and diffs applied again.  A
\* removed level may be left in the map with a zero quantity (ws.go:207,214), and
\* a level it was not told of, deeper than the snapshot (book.go:92), is absent.
ExactUnlessHole ==
    ~ hole => \A l \in Levels :
        IF l \in seen THEN touched[l] <= covered => Amount(book[l]) = Amount(qty[l])
                      ELSE book[l] = 0

\* Sequence checking works once it is on: a diff is applied over a missing
\* change only when lastSeq is 0, after start-up or a detected gap (ws.go:200-205).
HoleOnlyUnsequenced == [][hole' /\ ~ hole => lastSeq = 0]_vars

\* The aggregator's view, as a register that may skip updates but never shows
\* an older one after a newer one, nor one that was not emitted.
Register == INSTANCE LatestRegister WITH produced <- emits, shown <- latest
RegisterSpec == Register!Spec
=============================================================================
