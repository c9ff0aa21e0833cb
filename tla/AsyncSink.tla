------------------------------ MODULE AsyncSink ------------------------------
(***************************************************************************)
(* The asynchronous audit sink of internal/audit: callers of Emit, the     *)
(* bounded queue, the loop goroutine that hands events to the delegate     *)
(* sink, and Close, which may run while all of them do.  A send on the     *)
(* closed queue panics in the goroutine of the caller.                     *)
(***************************************************************************)
EXTENDS Naturals, Sequences, FiniteSets, SequencesExt

CONSTANTS
    Emitters,   \* goroutines calling Emit
    Closers,    \* goroutines calling Close
    Cap,        \* queueSize of NewAsyncSink, at least one
    MaxEvents   \* bound on the events of one emitter

ASSUME SinkAssumption == /\ IsFiniteSet(Emitters) /\ IsFiniteSet(Closers)
                         /\ Emitters \cap Closers = {}
                         /\ Cap \in Nat \ {0} /\ MaxEvents \in Nat

VARIABLES
    pc,             \* where each emitter and each closer is
    sent,           \* sent[e]: events e has passed to Emit so far
    queue,          \* AsyncSink.queue
    chan,           \* "open" or "closed": the state of that channel
    closed,         \* AsyncSink.closed, guarded by mu
    dropped,        \* AsyncSink.dropped, guarded by mu
    loop,           \* the loop goroutine: "receive", "deliver" or "ended"
    hand,           \* the event the loop is handing to the delegate, or none
    delivered,      \* what the delegate has taken
    lost            \* history: events turned away by a full queue or a panic

vars == <<pc, sent, queue, chan, closed, dropped, loop, hand, delivered, lost>>

\* An event is its emitter and its number; hand is a sequence of at most one.
Events == Emitters \X (1..MaxEvents)
Event(e) == <<e, sent[e]>>

Init ==
    /\ pc = [x \in Emitters \cup Closers |-> "idle"]
    /\ sent = [e \in Emitters |-> 0]
    /\ queue = <<>> /\ chan = "open" /\ closed = FALSE /\ dropped = 0
    /\ loop = "receive" /\ hand = <<>> /\ delivered = <<>>
    /\ lost = {}

Goto(x, w) == pc' = [pc EXCEPT ![x] = w]
-----------------------------------------------------------------------------
(* Emit *)

\* A caller has an event to emit.
Call(e) ==
    /\ pc[e] = "idle"
    /\ sent[e] < MaxEvents
    /\ sent' = [sent EXCEPT ![e] = @ + 1]
    /\ Goto(e, "select")
    /\ UNCHANGED <<queue, chan, closed, dropped, loop, hand, delivered, lost>>

Room == Len(queue) < Cap

\* Mutated forms of Enqueue: the newest event goes first; the event is also
\* taken when the queue is full.
EnqueueFirst(e) ==
    /\ pc[e] = "select"
    /\ chan = "open" /\ Room
    /\ queue' = <<Event(e)>> \o queue
    /\ Goto(e, "idle")
    /\ UNCHANGED <<sent, chan, closed, dropped, loop, hand, delivered, lost>>
EnqueueUnbounded(e) ==
    /\ pc[e] = "select"
    /\ chan = "open"
    /\ queue' = Append(queue, Event(e))
    /\ Goto(e, "idle")
    /\ UNCHANGED <<sent, chan, closed, dropped, loop, hand, delivered, lost>>

\* The select of Emit: the queue has room ...
Enqueue(e) ==
    /\ pc[e] = "select"
    /\ chan = "open" /\ Room
    /\ queue' = Append(queue, Event(e))
    /\ Goto(e, "idle")
    /\ UNCHANGED <<sent, chan, closed, dropped, loop, hand, delivered, lost>>

\* Mutated form of Overflow: Emit waits for room.
OverflowWaits(e) ==
    /\ pc[e] = "select"
    /\ chan = "open" /\ ~ Room
    /\ UNCHANGED vars

\* ... or it is full ...
Overflow(e) ==
    /\ pc[e] = "select"
    /\ chan = "open" /\ ~ Room
    /\ lost' = lost \cup {Event(e)}
    /\ Goto(e, "count")
    /\ UNCHANGED <<sent, queue, chan, closed, dropped, loop, hand, delivered>>

\* Mutated form of CountDrop: an Emit that finds the sink closed returns without
\* counting its event.
CountDropOpen(e) ==
    /\ pc[e] = "count"
    /\ dropped' = IF closed THEN dropped ELSE dropped + 1
    /\ Goto(e, "idle")
    /\ UNCHANGED <<sent, queue, chan, closed, loop, hand, delivered, lost>>

\* ... and the drop is counted under the lock.
CountDrop(e) ==
    /\ pc[e] = "count"
    /\ dropped' = dropped + 1
    /\ Goto(e, "idle")
    /\ UNCHANGED <<sent, queue, chan, closed, loop, hand, delivered, lost>>

\* The queue is closed: the send panics, and the drop is not counted.
Panic(e) ==
    /\ pc[e] = "select"
    /\ chan = "closed"
    /\ lost' = lost \cup {Event(e)}
    /\ Goto(e, "panicked")
    /\ UNCHANGED <<sent, queue, chan, closed, dropped, loop, hand, delivered>>
-----------------------------------------------------------------------------
(* loop *)

Receive ==
    /\ loop = "receive"
    /\ queue # <<>>
    /\ hand' = <<Head(queue)>>
    /\ queue' = Tail(queue)
    /\ loop' = "deliver"
    /\ UNCHANGED <<pc, sent, chan, closed, dropped, delivered, lost>>

\* delegate.Emit returns.
Deliver ==
    /\ loop = "deliver"
    /\ delivered' = delivered \o hand
    /\ hand' = <<>>
    /\ loop' = "receive"
    /\ UNCHANGED <<pc, sent, queue, chan, closed, dropped, lost>>

\* Mutated form of Finish: the loop ends as soon as the queue is closed.
FinishUndrained ==
    /\ loop = "receive"
    /\ chan = "closed"
    /\ loop' = "ended"
    /\ UNCHANGED <<pc, sent, queue, chan, closed, dropped, hand, delivered, lost>>

\* The range over the queue ends when it is closed and empty.
Finish ==
    /\ loop = "receive"
    /\ chan = "closed" /\ queue = <<>>
    /\ loop' = "ended"
    /\ UNCHANGED <<pc, sent, queue, chan, closed, dropped, hand, delivered, lost>>
-----------------------------------------------------------------------------
(* Close: the flag under the lock, the channel after it *)

\* Mutated form of CloseFlag: a second Close goes on as well.
CloseFlagTwice(c) ==
    /\ pc[c] = "idle"
    /\ closed' = TRUE
    /\ Goto(c, "close")
    /\ UNCHANGED <<sent, queue, chan, dropped, loop, hand, delivered, lost>>

CloseFlag(c) ==
    /\ pc[c] = "idle"
    /\ closed' = TRUE
    /\ Goto(c, IF closed THEN "done" ELSE "close")
    /\ UNCHANGED <<sent, queue, chan, dropped, loop, hand, delivered, lost>>

\* close(s.queue): closing a closed channel panics.
CloseChan(c) ==
    /\ pc[c] = "close"
    /\ Goto(c, IF chan = "closed" THEN "panicked" ELSE "done")
    /\ chan' = "closed"
    /\ UNCHANGED <<sent, queue, closed, dropped, loop, hand, delivered, lost>>
-----------------------------------------------------------------------------
EmitStep(e) == Enqueue(e) \/ Overflow(e) \/ CountDrop(e) \/ Panic(e)
CloseStep(c) == CloseFlag(c) \/ CloseChan(c)

Next ==
    \/ \E e \in Emitters : Call(e) \/ EmitStep(e)
    \/ \E c \in Closers : CloseStep(c)
    \/ Receive \/ Deliver \/ Finish

Spec == Init /\ [][Next]_vars

\* Goroutines that can move do.  Nothing is assumed of the delegate, which may
\* block for ever, nor of who calls Emit and Close.
FairSpec ==
    /\ Spec
    /\ \A e \in Emitters : WF_vars(EmitStep(e))
    /\ \A c \in Closers : WF_vars(CloseChan(c))
    /\ WF_vars(Receive \/ Finish)
-----------------------------------------------------------------------------
TypeOK ==
    /\ pc \in [Emitters \cup Closers ->
                 {"idle", "select", "count", "panicked", "close", "done"}]
    /\ sent \in [Emitters -> 0..MaxEvents]
    /\ queue \in Seq(Events) /\ Len(queue) <= Cap
    /\ chan \in {"open", "closed"} /\ closed \in BOOLEAN /\ dropped \in Nat
    /\ loop \in {"receive", "deliver", "ended"}
    /\ hand \in Seq(Events) /\ delivered \in Seq(Events) /\ lost \subseteq Events

\* Close (async.go:82-91) may be called by several goroutines and at any time:
\* closing twice never panics, and only an Emit that meets a closed sink does.
ClosesOnce ==
    /\ \A c \in Closers : pc[c] # "panicked"
    /\ (\E e \in Emitters : pc[e] = "panicked") => closed

\* Dropped() (async.go:76-80) is what an operator sees of the losses: it counts
\* every event the sink turned away, but for the drops about to be counted and
\* the events whose caller panicked (async.go:53-65).
DropsCounted ==
    dropped + Cardinality({e \in Emitters : pc[e] \in {"count", "panicked"}})
        = Cardinality(lost)

Log == INSTANCE LossyLog WITH
    accepted <- delivered \o hand \o queue, written <- delivered

\* The sink implements the lossy log: an event is taken or lost, once, and the
\* delegate receives exactly what was taken, in that order, whatever Emit, loop
\* and Close do to each other (async.go:53-91).
LogSpec == Log!Spec

\* PROJECT_PLAN.md:172, audit failures do not block the transaction path: a call
\* of Emit ends although the delegate may never return (async.go:57-64).
EmitEnds == \A e \in Emitters : pc[e] = "select" ~> pc[e] \in {"idle", "panicked"}

\* What was taken before or while the sink was closed is delivered, provided the
\* delegate keeps returning (async.go:67-74).
TakenDelivered ==
    ([]<>(loop # "deliver")) =>
        \A ev \in Events : ev \in ToSet(queue) ~> ev \in ToSet(delivered)
=============================================================================
