----------------------------- MODULE KrakenFeed -----------------------------
(***************************************************************************)
(* The Kraken order book feed of one pair: SubscribeBook's goroutine over  *)
(* the web socket client, the message handler, the BookReconstructor and   *)
(* emitUpdate with the sorted levels of TopN.                              *)
(*                                                                         *)
(* Kraken (external) holds a book, a set of prices on each side, and sends *)
(* it, as deep as was asked for, whole or by the levels that change.  It   *)
(* sends to the sockets that subscribed or, as the servers of the tests    *)
(* do, to every socket.  A level that goes is sent with a quantity of      *)
(* zero, as "0" or "", which ApplyDiff deletes, or in a text such as       *)
(* "0.00000000", which it stores.                                          *)
(***************************************************************************)
EXTENDS WsClient, Integers, FiniteSets, SequencesExt

CONSTANTS
    Bids, Asks,     \* prices of the two sides, each the sequence of its characters
    Starts,         \* books Kraken may hold when the feed starts
    Decimals,       \* digits Kraken prints after the decimal point
    Depth,          \* levels of an update (20)
    BookDepth,      \* levels subscribed to (100)
    MaxPushes       \* bound on the messages Kraken sends

\* Digits and the decimal point, which as a character comes before all of them.
Point == -1
Prices == {p \in Seq(0..9 \cup {Point}) :
              /\ Len(p) > Decimals
              /\ \A i \in 1..Len(p) : p[i] = Point <=> Decimals > 0 /\ i = Len(p) - Decimals}

Book == [bids : SUBSET Bids, asks : SUBSET Asks]

ASSUME KrakenAssumption == /\ Decimals \in Nat
                           /\ Bids \subseteq Prices /\ IsFiniteSet(Bids)
                           /\ Asks \subseteq Prices /\ IsFiniteSet(Asks)
                           /\ Starts \subseteq Book
                           /\ Depth \in Nat \ {0} /\ BookDepth \in Nat \ {0}
                           /\ MaxPushes \in Nat

VARIABLES
    unasked,    \* Kraken sends without a subscription
    venue,      \* Kraken's book
    pushes,     \* messages sent
    book,       \* BookReconstructor.bids and asks, the prices
    zero,       \* those of them stored with a quantity of zero
    lastSeq,    \* "zero" or "set"
    top,        \* the last update sent on the channel
    at,         \* history: number of the last message handled,
    want,       \*   Kraken's book at that message, as deep as it sends it,
    fell,       \*   levels that fell below that depth since the last full book,
    missed      \*   something was lost or mistaken since the last full book

bookVars == <<book, zero, lastSeq, top, at, want, fell, missed>>
feedVars == <<wsVars, unasked, venue, pushes, bookVars>>

Empty == [bids |-> {}, asks |-> {}]
NoUpdate == [bids |-> <<>>, asks |-> <<>>, of |-> Empty]

FeedInit ==
    /\ WsInit
    /\ unasked \in BOOLEAN
    /\ venue \in Starts
    /\ pushes = 0
    /\ book = Empty /\ zero = Empty /\ lastSeq = "zero" /\ top = NoUpdate
    /\ at = 0 /\ want = Empty /\ fell = Empty /\ missed = TRUE
-----------------------------------------------------------------------------
(* Kraken.  A message lists levels of each side, off those of quantity zero, gone
   those of them in a text that ApplyDiff deletes. *)

\* The number that the first i characters of p are, the point left out, for each i.
Shift(v, c) == IF c = Point THEN v ELSE 10 * v + c
Values(p) == LET v[i \in 0..Len(p)] == IF i = 0 THEN 0 ELSE Shift(v[i - 1], p[i]) IN v
Value(p) == Values(p)[Len(p)]

\* The best levels of a book, as many as were subscribed to.
Scope(b) ==
    [bids |-> {p \in b.bids : Cardinality({q \in b.bids : Value(q) > Value(p)}) < BookDepth},
     asks |-> {p \in b.asks : Cardinality({q \in b.asks : Value(q) < Value(p)}) < BookDepth}]

\* The message reaches the client if conn is fed and not broken.
Push(m) ==
    /\ pushes < MaxPushes
    /\ pushes' = pushes + 1
    /\ inbox' = IF Live /\ (unasked \/ conn \in subscribed)
                THEN Append(inbox, m) ELSE inbox
    /\ UNCHANGED <<wsPc, conn, msg, wsBackoff, closeVars, dials, open, broken, subscribed,
                   unasked, bookVars>>

Message(kind, bids, asks, off, gone, after) ==
    [kind |-> kind, bids |-> bids, asks |-> asks, off |-> off, gone |-> gone,
     n |-> pushes + 1, after |-> after]

PushFull ==
    /\ Push(Message("full", Scope(venue).bids, Scope(venue).asks, Empty, Empty, Scope(venue)))
    /\ UNCHANGED venue

\* One level of one side or of both comes or goes, as long as a message may tell.
Flip(side, ps) == (side \ ps) \cup (ps \ side)
Change ==
    /\ pushes < MaxPushes
    /\ \E bs \in SUBSET Bids, as \in SUBSET Asks :
         /\ Cardinality(bs) <= 1 /\ Cardinality(as) <= 1 /\ bs \cup as # {}
         /\ venue' = [bids |-> Flip(venue.bids, bs), asks |-> Flip(venue.asks, as)]

\* From one scope to the next: levels that go, and levels that come, also one that
\* takes the place of a level that goes.  A level that another one pushes below the
\* depth is not mentioned.
Off(old, b) == [bids |-> old.bids \ b.bids, asks |-> old.asks \ b.asks]
PushChange ==
    /\ Change
    /\ LET old == Scope(venue)
           new == Scope(venue')
           off == Off(old, venue')
       IN /\ new # old
          /\ \E gone \in {off, Empty} :
                Push(Message("change", off.bids \cup (new.bids \ old.bids),
                             off.asks \cup (new.asks \ old.asks), off, gone, new))

\* A level below the depth comes or goes: Kraken does not send it.
ChangeBelow ==
    /\ Change
    /\ Scope(venue') = Scope(venue)
    /\ UNCHANGED <<wsVars, unasked, pushes, bookVars>>
-----------------------------------------------------------------------------
(* TopN.  Prices are compared as strings, character by character. *)

StringLess(p, q) ==
    \/ Len(p) < Len(q) /\ SubSeq(q, 1, Len(p)) = p
    \/ \E i \in 1..Len(p) :
         /\ i <= Len(q) /\ p[i] < q[i]
         /\ \A j \in 1..i - 1 : p[j] = q[j]

Less(descending, p, q) == IF descending THEN StringLess(q, p) ELSE StringLess(p, q)

\* The inner loop of sortLevels: s[i] is moved down past all that is not less.
Sink(s, i, descending) ==
    LET to == CHOOSE k \in 1..i :
                /\ k > 1 => Less(descending, s[k - 1], s[i])
                /\ \A j \in k..(i - 1) : ~ Less(descending, s[j], s[i])
    IN InsertAt(RemoveAt(s, i), to, s[i])

\* The outer loop: s once its first i levels have been through the inner one.
Sorting(s, descending) ==
    LET after[i \in 0..Len(s)] ==
            IF i = 0 THEN s ELSE Sink(after[i - 1], i, descending)
    IN after

\* Mutated form of SortLevels: the last level is left where it is.
SortLevelsButLast(s, descending) == Sorting(s, descending)[Len(s) - 1]

SortLevels(s, descending) == Sorting(s, descending)[Len(s)]

\* collectLevels: the map is ranged over in any order.
CollectLevels(levels, descending) ==
    {LET t == SortLevels(s, descending)
     IN IF Len(t) > Depth THEN SubSeq(t, 1, Depth) ELSE t : s \in SetToSeqs(levels)}

\* emitUpdate: nothing for a one-sided book; a full channel loses the update.
EmitUpdate(b) ==
    \/ UNCHANGED top
    \/ /\ b.bids # {} /\ b.asks # {}
       /\ \E bs \in CollectLevels(b.bids, TRUE), as \in CollectLevels(b.asks, FALSE) :
            top' = [bids |-> bs, asks |-> as, of |-> b]
-----------------------------------------------------------------------------
(* The handler *)

\* Mutated form of ApplySnapshot: the old levels are kept.
ApplySnapshotMerges(m) ==
    /\ book' = [bids |-> book.bids \cup m.bids, asks |-> book.asks \cup m.asks]
    /\ zero' = m.off
    /\ fell' = Empty
    /\ missed' = (m.kind # "full")
    /\ UNCHANGED lastSeq

\* ApplySnapshot: every listed level, also one of quantity zero in any text.
ApplySnapshot(m) ==
    /\ book' = [bids |-> m.bids, asks |-> m.asks]
    /\ zero' = m.off
    /\ fell' = Empty
    /\ missed' = (m.kind # "full")
    /\ UNCHANGED lastSeq

\* The two loops of ApplyDiff: a level is deleted, or stored with what m says.
Diffed(m) ==
    [bids |-> (book.bids \cup m.bids) \ m.gone.bids,
     asks |-> (book.asks \cup m.asks) \ m.gone.asks]
Zeroed(m) ==
    [bids |-> (zero.bids \ m.bids) \cup (m.off.bids \ m.gone.bids),
     asks |-> (zero.asks \ m.asks) \cup (m.off.asks \ m.gone.asks)]

\* A level leaves Kraken's scope and m does not list it; one that is listed is back.
Fallen(m) ==
    [bids |-> (fell.bids \cup (want.bids \ m.after.bids)) \ m.bids,
     asks |-> (fell.asks \cup (want.asks \ m.after.asks)) \ m.asks]

\* ApplyDiff with the clock as sequence number: elapsed is the time since the
\* one before, in nanoseconds, 2 for more.  Only the next nanosecond will do.
ApplyDiff(m, elapsed) ==
    LET ok == lastSeq = "zero" \/ elapsed = 1
    IN /\ book' = IF ok THEN Diffed(m) ELSE book
       /\ zero' = IF ok THEN Zeroed(m) ELSE zero
       /\ lastSeq' = IF ok THEN "set" ELSE lastSeq
       /\ fell' = Fallen(m)
       /\ missed' = (missed \/ ~ ok \/ m.kind = "full" \/ m.n # at + 1)

\* A message with both sides is a snapshot, one with one side is a diff, and one
\* with neither changes nothing.
Apply(m) ==
    \/ m.bids # {} /\ m.asks # {} /\ ApplySnapshot(m)
    \/ (m.bids = {}) # (m.asks = {}) /\ \E elapsed \in 0..2 : ApplyDiff(m, elapsed)
    \/ /\ m.bids = {} /\ m.asks = {}
       /\ missed' = TRUE
       /\ UNCHANGED <<book, zero, lastSeq, fell>>

Handle ==
    /\ wsPc = "handle"
    /\ LET m == msg[1]
       IN /\ Apply(m)
          /\ EmitUpdate(book')
          /\ at' = m.n /\ want' = m.after
    /\ msg' = <<>>
    /\ wsPc' = "read"
    /\ UNCHANGED <<conn, wsBackoff, closeVars, socketVars, unasked, venue, pushes>>
-----------------------------------------------------------------------------
feed == <<unasked, venue, pushes, bookVars>>

Step == (WsStep /\ UNCHANGED feed) \/ Handle
FeedNext ==
    \/ Step
    \/ WsEnvironment /\ UNCHANGED feed
    \/ PushFull \/ PushChange \/ ChangeBelow

FeedSpec == FeedInit /\ [][FeedNext]_feedVars

\* The goroutines run, timers fire, a dial answers.
FairFeedSpec == FeedSpec /\ WF_feedVars(Step) /\ WF_feedVars(CloseConn /\ UNCHANGED feed)
-----------------------------------------------------------------------------
FeedTypeOK ==
    /\ WsTypeOK
    /\ unasked \in BOOLEAN /\ venue \in Book /\ pushes \in 0..MaxPushes
    /\ book \in Book /\ zero \in Book /\ lastSeq \in {"zero", "set"}
    /\ top.bids \in Seq(Bids) /\ top.asks \in Seq(Asks) /\ top.of \in Book
    /\ at \in 0..MaxPushes /\ want \in Book /\ fell \in Book /\ missed \in BOOLEAN

\* The levels the reconstructed book holds with a quantity.
Quoted == [bids |-> book.bids \ zero.bids, asks |-> book.asks \ zero.asks]

\* The reconstructed book has every level that Kraken has, as of the last message
\* handled and to the depth subscribed to, and no other but such as fell below that
\* depth without a word (kraken/book.go:43) or are kept with a quantity of zero
\* (ws.go:207,214): from a full book of two sides until the first thing that the
\* feed loses or mistakes and never repairs, which is a diff after the first one
\* (kraken/book.go:71-76), a change of both sides taken as a full book, a full book
\* of one side taken as a diff (kraken/book.go:68-70), or messages missed while the
\* client dialled again.
ExactUnlessMissed ==
    ~ missed => /\ want.bids \subseteq Quoted.bids /\ Quoted.bids \subseteq want.bids \cup fell.bids
                /\ want.asks \subseteq Quoted.asks /\ Quoted.asks \subseteq want.asks \cup fell.asks

SameWidth(ps) == \A p, q \in ps : Len(p) = Len(q)

\* t holds the first levels of ps in the order of descending, each once.
FirstOf(t, ps, descending) ==
    /\ Len(t) = IF Cardinality(ps) > Depth THEN Depth ELSE Cardinality(ps)
    /\ ToSet(t) \subseteq ps
    /\ \A i, j \in 1..Len(t) : i < j => Less(descending, t[i], t[j])
    /\ \A i \in 1..Len(t), p \in ps \ ToSet(t) : Less(descending, t[i], p)

\* An update lists the first Depth levels of each side, whatever order the map
\* gives them in (ws.go:249-276), levels kept with a quantity of zero among them; the
\* first is the best price, provided all prices of the side, which have as many
\* decimals, have as many digits before the point too, for they are compared as
\* strings (ws.go:266).
TopBest ==
    /\ FirstOf(top.bids, top.of.bids, TRUE)
    /\ FirstOf(top.asks, top.of.asks, FALSE)
    /\ top # NoUpdate /\ SameWidth(top.of.bids) =>
          \A p \in top.of.bids : Value(p) <= Value(top.bids[1])
    /\ top # NoUpdate /\ SameWidth(top.of.asks) =>
          \A p \in top.of.asks : Value(p) >= Value(top.asks[1])

\* README.md:69-71, "resubscribe to book + private channels after reconnect": the
\* socket that is read has been subscribed (kraken/book.go:82-86, ws.go:86-100).
Resubscribed == wsPc = "recv" /\ Live => conn \in subscribed
=============================================================================
