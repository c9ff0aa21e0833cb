-------------------------- MODULE AsyncSink_proofs --------------------------
(***************************************************************************)
(* For any emitters, closers, queue size and number of events: the sink    *)
(* closes once, counts its drops, and implements the lossy log.            *)
(***************************************************************************)
EXTENDS AsyncSink, FiniteSetTheorems, SequenceTheorems, TLAPS

\* Emitters and closers keep to their own code; one closer at most is about to
\* close the channel, which is open until then; a caller panics on a closed one.
Control ==
    /\ \A e \in Emitters : pc[e] \in {"idle", "select", "count", "panicked"}
    /\ \A c \in Closers : pc[c] \in {"idle", "close", "done"}
    /\ \A c \in Closers : pc[c] = "close" => closed /\ chan = "open"
    /\ \A c, d \in Closers : pc[c] = "close" /\ pc[d] = "close" => c = d
    /\ chan = "closed" => closed
    /\ \A e \in Emitters : pc[e] = "panicked" => chan = "closed"
    /\ \A e \in Emitters : pc[e] = "select" => sent[e] \in 1..MaxEvents

\* The loop holds an event exactly while it delivers it.
Hand == IF loop = "deliver" THEN Len(hand) = 1 ELSE hand = <<>>

\* What the sink has taken so far, in order.
Taken == delivered \o hand \o queue

\* An event that the select of Emit is done with.
Old(ev) == /\ ev[2] <= sent[ev[1]]
           /\ pc[ev[1]] = "select" => ev[2] < sent[ev[1]]

\* The select of Emit is done with whatever was taken or lost, so that an event
\* still in it is neither.
Decided ==
    /\ \A i \in 1..Len(Taken) : Old(Taken[i])
    /\ \A ev \in lost : Old(ev)

IInv == TypeOK /\ Control /\ Hand /\ Decided /\ DropsCounted
-----------------------------------------------------------------------------
\* There are finitely many events to lose.
LEMMA FiniteEvents ==
    /\ IsFiniteSet(Events)
    /\ \A S \in SUBSET Events : IsFiniteSet(S) /\ Cardinality(S) \in Nat
    /\ \A S \in SUBSET Emitters : IsFiniteSet(S) /\ Cardinality(S) \in Nat
<1>1. IsFiniteSet(1..MaxEvents)
  BY SinkAssumption, FS_Interval
<1>2. IsFiniteSet(Events)
  BY <1>1, SinkAssumption, FS_Product DEF Events
<1> QED
  BY <1>2, SinkAssumption, FS_Subset, FS_CardinalityType

\* What was delivered, is in hand and is queued are sequences of events.
LEMMA TakenType ==
    ASSUME TypeOK
    PROVE  /\ delivered \in Seq(Events) /\ hand \in Seq(Events) /\ queue \in Seq(Events)
           /\ delivered \o hand \in Seq(Events) /\ Taken \in Seq(Events)
           /\ Len(Taken) = Len(delivered) + Len(hand) + Len(queue)
<1>1. delivered \in Seq(Events) /\ hand \in Seq(Events) /\ queue \in Seq(Events)
  BY DEF TypeOK
<1>2. delivered \o hand \in Seq(Events) /\ Len(delivered \o hand) = Len(delivered) + Len(hand)
  BY <1>1, ConcatProperties
<1>3. Taken \in Seq(Events) /\ Len(Taken) = Len(delivered \o hand) + Len(queue)
  BY <1>1, <1>2, ConcatProperties DEF Taken
<1> QED
  BY <1>1, <1>2, <1>3

\* An event that enters the queue is taken last of all.
LEMMA EnqueueTaken ==
    ASSUME TypeOK, NEW ev \in Events, queue' = Append(queue, ev),
           UNCHANGED <<hand, delivered>>
    PROVE  Taken' = Append(Taken, ev)
<1>1. /\ delivered \o hand \in Seq(Events) /\ queue \in Seq(Events) /\ Taken \in Seq(Events)
      /\ <<ev>> \in Seq(Events)
  BY TakenType
<1>2. Append(queue, ev) = queue \o <<ev>> /\ Append(Taken, ev) = Taken \o <<ev>>
  BY <1>1, AppendIsConcat
<1>3. (delivered \o hand) \o (queue \o <<ev>>) = ((delivered \o hand) \o queue) \o <<ev>>
  BY <1>1, ConcatAssociative
<1> QED
  BY <1>2, <1>3 DEF Taken

\* The loop takes the oldest event in hand: the order stays.
LEMMA ReceiveTaken ==
    ASSUME TypeOK, Hand, Receive
    PROVE  Taken' = Taken
<1>1. /\ delivered \in Seq(Events) /\ queue \in Seq(Events) /\ queue # <<>> /\ hand = <<>>
      /\ hand' = <<Head(queue)>> /\ queue' = Tail(queue) /\ delivered' = delivered
  BY DEF TypeOK, Hand, Receive
<1>2. Head(queue) \in Events /\ Tail(queue) \in Seq(Events)
  BY <1>1, HeadTailProperties
<1>3. queue = <<Head(queue)>> \o Tail(queue)
  BY <1>1, <1>2
<1>4. delivered \o <<>> = delivered
  BY <1>1, ConcatEmptySeq
<1>5. (delivered \o <<Head(queue)>>) \o Tail(queue) = delivered \o (<<Head(queue)>> \o Tail(queue))
  BY <1>1, <1>2, ConcatAssociative
<1> QED
  BY <1>1, <1>3, <1>4, <1>5 DEF Taken

\* A sequence of one event.
LEMMA OneEvent ==
    ASSUME NEW S, NEW s \in Seq(S), Len(s) = 1
    PROVE  s[1] \in S /\ s = <<s[1]>>
<1>1. s[1] \in S
  BY ElementOfSeq
<1>2. <<s[1]>> \in Seq(S) /\ Len(<<s[1]>>) = 1 /\ <<s[1]>>[1] = s[1]
  BY <1>1
<1> QED
  BY <1>1, <1>2, SeqEqual

\* The delegate gets the first event it has not had yet.
LEMMA DeliverTaken ==
    ASSUME TypeOK, Hand, Deliver
    PROVE  /\ Taken' = Taken
           /\ Len(delivered) < Len(Taken)
           /\ delivered' = Append(delivered, Taken[Len(delivered) + 1])
<1>1. /\ delivered \in Seq(Events) /\ hand \in Seq(Events) /\ queue \in Seq(Events)
      /\ Len(hand) = 1 /\ delivered' = delivered \o hand /\ hand' = <<>> /\ queue' = queue
  BY DEF TypeOK, Hand, Deliver
<1>2. delivered \o hand \in Seq(Events) /\ (delivered \o hand) \o <<>> = delivered \o hand
  BY <1>1, ConcatProperties, ConcatEmptySeq
<1>3. Taken' = Taken
  BY <1>1, <1>2 DEF Taken
<1>4. hand = <<hand[1]>> /\ hand[1] \in Events
  BY <1>1, OneEvent
<1>5. Append(delivered, hand[1]) = delivered \o hand
  <2>1. Append(delivered, hand[1]) = delivered \o <<hand[1]>>
    BY <1>1, <1>4, AppendIsConcat
  <2> QED
    BY <1>4, <2>1
<1>6. Taken[Len(delivered) + 1] = hand[1] /\ Len(delivered) < Len(Taken)
  <2>0. Len(delivered) \in Nat /\ Len(hand) = 1
    BY <1>1, LenProperties
  <2>4. Len(delivered \o hand) = Len(delivered) + Len(hand)
    BY <1>1, ConcatProperties
  <2>1. Len(delivered) + 1 \in 1..Len(delivered \o hand)
    BY <2>0, <2>4
  <2>2. (delivered \o hand)[Len(delivered) + 1] = hand[1]
    <3>1. Len(delivered) \in Nat /\ Len(delivered) + 1 \in 1..(Len(delivered) + Len(hand))
      BY <2>0
    <3> DEFINE i == Len(delivered) + 1
    <3>2. (delivered \o hand)[i] = IF i <= Len(delivered) THEN delivered[i]
                                                          ELSE hand[i - Len(delivered)]
      BY <1>1, <3>1, ConcatProperties
    <3>3. ~ (i <= Len(delivered)) /\ i - Len(delivered) = 1
      BY <3>1
    <3> QED
      BY <3>2, <3>3
  <2>3. Taken[Len(delivered) + 1] = (delivered \o hand)[Len(delivered) + 1]
    BY <1>1, <1>2, <2>1, ConcatProperties DEF Taken
  <2> QED
    BY <1>1, <2>2, <2>3, TakenType
<1> QED
  BY <1>1, <1>3, <1>5, <1>6
-----------------------------------------------------------------------------
\* The caller of Emit that moves, and those that do not.
LEMMA EmitterMoves ==
    ASSUME TypeOK, NEW e \in Emitters, NEW w, Goto(e, w)
    PROVE  \A x \in Emitters \cup Closers : pc'[x] = IF x = e THEN w ELSE pc[x]
  BY DEF TypeOK, Goto

\* An event in the select of Emit is a fresh one.
LEMMA Fresh ==
    ASSUME IInv, NEW e \in Emitters, pc[e] = "select"
    PROVE  /\ Event(e) \in Events /\ Event(e)[1] = e /\ Event(e)[2] = sent[e]
           /\ Event(e) \notin lost
           /\ \A i \in 1..Len(Taken) : Taken[i] # Event(e)
<1>1. sent[e] \in 1..MaxEvents
  BY DEF IInv, Control
<1>2. Event(e) \in Events /\ Event(e)[1] = e /\ Event(e)[2] = sent[e]
  BY <1>1 DEF Event, Events
<1>3. ~ Old(Event(e))
  BY <1>1, <1>2, SinkAssumption DEF Old
<1> QED
  BY <1>2, <1>3 DEF IInv, Decided

\* A step after which every caller is where it was, or has left its select, keeps
\* what was decided; so does one that takes up an event.
LEMMA OldKept ==
    ASSUME TypeOK, TypeOK', NEW ev \in Events, Old(ev),
           \/ sent' = sent /\ \A e \in Emitters : pc'[e] = "select" => pc[e] = "select"
           \/ \E e \in Emitters : Call(e)
    PROVE  Old(ev)'
<1>1. ev[1] \in Emitters /\ ev[2] \in 1..MaxEvents
  BY DEF Events
<1>2. sent \in [Emitters -> 0..MaxEvents] /\ sent[ev[1]] \in 0..MaxEvents /\ MaxEvents \in Nat
  BY <1>1, SinkAssumption DEF TypeOK
<1>3. CASE sent' = sent /\ \A e \in Emitters : pc'[e] = "select" => pc[e] = "select"
  BY <1>1, <1>3 DEF Old
<1>4. ASSUME NEW e \in Emitters, Call(e) PROVE Old(ev)'
  <2>1. sent'[ev[1]] = IF ev[1] = e THEN sent[e] + 1 ELSE sent[ev[1]]
    BY <1>1, <1>2, <1>4 DEF Call
  <2>2. ev[1] # e => pc'[ev[1]] = pc[ev[1]]
    BY <1>1, <1>4, EmitterMoves DEF Call
  <2> QED
    BY <1>1, <1>2, <2>1, <2>2 DEF Old
<1> QED
  BY <1>3, <1>4

\* The drops about to be counted.
Pending == {e \in Emitters : pc[e] \in {"count", "panicked"}}

\* The count stays right when no caller comes to or leaves that point.
LEMMA DropsKept ==
    ASSUME IInv, UNCHANGED <<dropped, lost>>, Pending' = Pending
    PROVE  DropsCounted'
  BY DEF IInv, DropsCounted, Pending

\* Before the first call.
LEMMA InitIInv == Init => IInv
<1> SUFFICES ASSUME Init PROVE IInv
  OBVIOUS
<1>1. TypeOK
  <2>1. closed \in BOOLEAN
    BY DEF Init
  <2>2. queue \in Seq(Events) /\ hand \in Seq(Events) /\ delivered \in Seq(Events)
        /\ Len(queue) <= Cap
    BY SinkAssumption, EmptySeq DEF Init
  <2>3. sent \in [Emitters -> 0..MaxEvents]
    BY SinkAssumption DEF Init
  <2> QED
    BY <2>1, <2>2, <2>3 DEF Init, TypeOK
<1>2. Control /\ Hand
  BY DEF Init, Control, Hand
<1>3. Decided
  <2>1. Len(Taken) = 0
    BY <1>1, TakenType DEF Init
  <2> QED
    BY <2>1 DEF Init, Decided
<1>4. DropsCounted
  <2>1. Pending = {}
    BY DEF Init, Pending
  <2>2. Cardinality(Pending) = 0 /\ Cardinality(lost) = 0 /\ dropped = 0
    BY <2>1, FS_EmptySet DEF Init
  <2> QED
    BY <2>2 DEF DropsCounted, Pending
<1> QED
  BY <1>1, <1>2, <1>3, <1>4 DEF IInv

\* A caller has an event to emit.
LEMMA CallIInv ==
    ASSUME IInv, NEW e \in Emitters, Call(e)
    PROVE  IInv'
<1>0. TypeOK /\ Control /\ Hand /\ Decided
  BY DEF IInv
<1>1. \A x \in Emitters \cup Closers : pc'[x] = IF x = e THEN "select" ELSE pc[x]
  BY <1>0, EmitterMoves DEF Call
<1>2. sent' \in [Emitters -> 0..MaxEvents] /\ sent'[e] \in 1..MaxEvents
      /\ \A d \in Emitters : d # e => sent'[d] = sent[d]
  BY <1>0, SinkAssumption DEF Call, TypeOK
<1>3. TypeOK'
  BY <1>0, <1>2 DEF TypeOK, Call, Goto
<1>4. Control' /\ Hand'
  BY <1>0, <1>1, <1>2, SinkAssumption DEF Control, Hand, Call
<1>5. Decided'
  <2>1. Taken' = Taken /\ lost' = lost
    BY DEF Call, Taken
  <2>2. Taken \in Seq(Events) /\ lost \subseteq Events
    BY <1>0, TakenType DEF TypeOK
  <2>3. \A i \in 1..Len(Taken) : Taken[i] \in Events
    BY <2>2, ElementOfSeq
  <2> QED
    BY <1>0, <1>3, <2>1, <2>2, <2>3, OldKept DEF Decided
<1>6. DropsCounted'
  <2>1. Pending' = Pending
    BY <1>1 DEF Pending, Call
  <2> QED
    BY <2>1, DropsKept DEF Call
<1> QED
  BY <1>3, <1>4, <1>5, <1>6 DEF IInv

\* The event is taken.
LEMMA EnqueueIInv ==
    ASSUME IInv, NEW e \in Emitters, Enqueue(e)
    PROVE  IInv'
<1>0. TypeOK /\ Control /\ Hand /\ Decided
  BY DEF IInv
<1>1. \A x \in Emitters \cup Closers : pc'[x] = IF x = e THEN "idle" ELSE pc[x]
  BY <1>0, EmitterMoves DEF Enqueue
<1>2. Event(e) \in Events /\ Event(e)[1] = e /\ Event(e)[2] = sent[e] /\ pc[e] = "select"
  BY Fresh DEF Enqueue
<1>3. TypeOK'
  <2>1. queue' \in Seq(Events) /\ Len(queue') = Len(queue) + 1
    BY <1>0, <1>2, AppendProperties DEF TypeOK, Enqueue
  <2>2. Len(queue') <= Cap
    BY <1>0, <2>1, SinkAssumption, LenProperties DEF TypeOK, Enqueue, Room
  <2> QED
    BY <1>0, <2>1, <2>2 DEF TypeOK, Enqueue, Goto
<1>4. Control' /\ Hand'
  BY <1>0, <1>1, SinkAssumption DEF Control, Hand, Enqueue
<1>5. Decided'
  <2>1. Taken' = Append(Taken, Event(e)) /\ lost' = lost
    BY <1>0, <1>2, EnqueueTaken DEF Enqueue
  <2>2. Taken \in Seq(Events) /\ lost \subseteq Events /\ Len(Taken) \in Nat
    BY <1>0, TakenType, LenProperties DEF TypeOK
  <2>3. /\ Len(Taken') = Len(Taken) + 1
        /\ \A i \in 1..Len(Taken) : Taken'[i] = Taken[i]
        /\ Taken'[Len(Taken) + 1] = Event(e)
    BY <1>2, <2>1, <2>2, AppendProperties
  <2>4. \A i \in 1..Len(Taken) : Taken[i] \in Events
    BY <2>2, ElementOfSeq
  <2>5. sent' = sent /\ \A d \in Emitters : pc'[d] = "select" => pc[d] = "select"
    BY <1>1 DEF Enqueue
  <2>6. \A ev \in Events : Old(ev) => Old(ev)'
    BY <1>0, <1>3, <2>5, OldKept
  <2>7. Old(Event(e))'
    <3>1. Event(e)' = Event(e) /\ pc'[e] = "idle" /\ sent[e] \in Nat
      BY <1>0, <1>1, <2>5, SinkAssumption DEF Event, TypeOK
    <3> QED
      BY <1>2, <2>5, <3>1 DEF Old
  <2>8. Event(e)' = Event(e)
    BY <2>5 DEF Event
  <2>9. \A i \in 1..Len(Taken') : Old(Taken[i])' 
    BY <1>0, <2>2, <2>3, <2>4, <2>6, <2>7, <2>8 DEF Decided
  <2> QED
    BY <1>0, <2>1, <2>2, <2>6, <2>9 DEF Decided
<1>6. DropsCounted'
  <2>1. Pending' = Pending
    BY <1>1, <1>2 DEF Pending
  <2> QED
    BY <2>1, DropsKept DEF Enqueue
<1> QED
  BY <1>3, <1>4, <1>5, <1>6 DEF IInv
\* A step that takes and loses nothing, and brings no caller to the select of
\* Emit, keeps what was decided.
LEMMA DecidedKept ==
    ASSUME IInv, TypeOK', Taken' = Taken, lost' = lost, sent' = sent,
           \A e \in Emitters : pc'[e] = "select" => pc[e] = "select"
    PROVE  Decided'
<1>1. TypeOK /\ Decided
  BY DEF IInv
<1>2. Taken \in Seq(Events) /\ lost \subseteq Events
  BY <1>1, TakenType DEF TypeOK
<1>3. \A i \in 1..Len(Taken) : Taken[i] \in Events
  BY <1>2, ElementOfSeq
<1>4. \A ev \in Events : Old(ev) => Old(ev)'
  BY <1>1, OldKept
<1> QED
  BY <1>1, <1>2, <1>3, <1>4 DEF Decided

\* A caller whose event is turned away, on a full queue or a closed one.
LEMMA LoseIInv ==
    ASSUME IInv, NEW e \in Emitters, Overflow(e) \/ Panic(e)
    PROVE  IInv'
<1>0. TypeOK /\ Control /\ Hand /\ Decided /\ DropsCounted
  BY DEF IInv
<1> DEFINE w == IF chan = "open" THEN "count" ELSE "panicked"
<1>1. /\ pc[e] = "select" /\ lost' = lost \cup {Event(e)} /\ Goto(e, w)
      /\ UNCHANGED <<sent, queue, chan, closed, dropped, loop, hand, delivered>>
  BY <1>0 DEF Overflow, Panic, TypeOK
<1>2. \A x \in Emitters \cup Closers : pc'[x] = IF x = e THEN w ELSE pc[x]
  BY <1>0, <1>1, EmitterMoves
<1>3. Event(e) \in Events /\ Event(e)[1] = e /\ Event(e)[2] = sent[e] /\ Event(e) \notin lost
  BY <1>1, Fresh
<1>4. TypeOK'
  BY <1>0, <1>1, <1>3 DEF TypeOK, Goto
<1>5. Control' /\ Hand'
  BY <1>0, <1>1, <1>2, SinkAssumption DEF Control, Hand, TypeOK
<1>6. Decided'
  <2>1. Taken' = Taken
    BY <1>1 DEF Taken
  <2>2. Taken \in Seq(Events) /\ lost \subseteq Events
    BY <1>0, TakenType DEF TypeOK
  <2>3. \A i \in 1..Len(Taken) : Taken[i] \in Events
    BY <2>2, ElementOfSeq
  <2>4. \A d \in Emitters : pc'[d] = "select" => pc[d] = "select"
    BY <1>1, <1>2
  <2>5. \A ev \in Events : Old(ev) => Old(ev)'
    BY <1>0, <1>1, <1>4, <2>4, OldKept
  <2>6. pc'[e] # "select" /\ sent'[e] = sent[e] /\ sent[e] \in Nat
    BY <1>0, <1>1, <1>2, SinkAssumption DEF TypeOK
  <2>7. \A ev \in lost' : Old(ev)'
    BY <1>0, <1>1, <1>3, <2>2, <2>5, <2>6 DEF Decided, Old
  <2> QED
    BY <1>0, <2>1, <2>3, <2>5, <2>7 DEF Decided
<1>7. DropsCounted'
  <2>1. Pending' = Pending \cup {e} /\ e \notin Pending
    BY <1>1, <1>2 DEF Pending
  <2>2. IsFiniteSet(Pending) /\ Cardinality(Pending) \in Nat
    BY FiniteEvents DEF Pending
  <2>3. IsFiniteSet(lost) /\ Cardinality(lost) \in Nat
    BY <1>0, FiniteEvents DEF TypeOK
  <2>4. Cardinality(Pending') = Cardinality(Pending) + 1
    BY <2>1, <2>2, FS_AddElement
  <2>5. Cardinality(lost') = Cardinality(lost) + 1
    BY <1>1, <1>3, <2>3, FS_AddElement
  <2>6. dropped + Cardinality(Pending) = Cardinality(lost) /\ dropped \in Nat
    BY <1>0 DEF DropsCounted, Pending, TypeOK
  <2>7. dropped' + Cardinality(Pending') = Cardinality(lost')
    BY <1>1, <2>2, <2>3, <2>4, <2>5, <2>6
  <2> QED
    BY <2>7 DEF DropsCounted, Pending
<1> QED
  BY <1>4, <1>5, <1>6, <1>7 DEF IInv

\* The drop is counted.
LEMMA CountDropIInv ==
    ASSUME IInv, NEW e \in Emitters, CountDrop(e)
    PROVE  IInv'
<1>0. TypeOK /\ Control /\ Hand /\ Decided /\ DropsCounted
  BY DEF IInv
<1>1. \A x \in Emitters \cup Closers : pc'[x] = IF x = e THEN "idle" ELSE pc[x]
  BY <1>0, EmitterMoves DEF CountDrop
<1>2. TypeOK'
  BY <1>0 DEF TypeOK, CountDrop, Goto
<1>3. Control' /\ Hand'
  BY <1>0, <1>1, SinkAssumption DEF Control, Hand, CountDrop
<1>4. Decided'
  BY <1>1, <1>2, DecidedKept DEF CountDrop, Taken
<1>5. DropsCounted'
  <2>1. Pending' = Pending \ {e} /\ e \in Pending
    BY <1>1 DEF Pending, CountDrop
  <2>2. IsFiniteSet(Pending) /\ Cardinality(Pending) \in Nat
    BY FiniteEvents DEF Pending
  <2>3. Cardinality(Pending') = Cardinality(Pending) - 1
    BY <2>1, <2>2, FS_RemoveElement
  <2>4. dropped + Cardinality(Pending) = Cardinality(lost) /\ dropped \in Nat
    BY <1>0 DEF DropsCounted, Pending, TypeOK
  <2>5. dropped' + Cardinality(Pending') = Cardinality(lost')
    BY <2>2, <2>3, <2>4 DEF CountDrop
  <2> QED
    BY <2>5 DEF DropsCounted, Pending
<1> QED
  BY <1>2, <1>3, <1>4, <1>5 DEF IInv

\* The loop takes an event, delivers it, or ends.
LEMMA LoopIInv ==
    ASSUME IInv, Receive \/ Deliver \/ Finish
    PROVE  IInv'
<1>0. TypeOK /\ Control /\ Hand /\ Decided
  BY DEF IInv
<1>1. UNCHANGED <<pc, sent, chan, closed, dropped, lost>>
  BY DEF Receive, Deliver, Finish
<1>2. Taken' = Taken
  BY <1>0, ReceiveTaken, DeliverTaken DEF Finish, Taken
<1>3. /\ queue' \in Seq(Events) /\ Len(queue') <= Cap /\ hand' \in Seq(Events)
      /\ delivered' \in Seq(Events) /\ loop' \in {"receive", "deliver", "ended"} /\ Hand'
  <2>1. CASE Receive
    <3>1. /\ Head(queue) \in Events /\ Tail(queue) \in Seq(Events)
          /\ Len(Tail(queue)) = Len(queue) - 1 /\ Len(queue) \in Nat
      BY <1>0, <2>1, HeadTailProperties, LenProperties DEF TypeOK, Receive
    <3>2. <<Head(queue)>> \in Seq(Events) /\ Len(<<Head(queue)>>) = 1
      BY <3>1
    <3>3. Len(Tail(queue)) <= Cap
      BY <1>0, <3>1, SinkAssumption DEF TypeOK
    <3> QED
      BY <1>0, <2>1, <3>1, <3>2, <3>3 DEF TypeOK, Receive, Hand
  <2>2. CASE Deliver
    BY <1>0, <2>2, TakenType, EmptySeq DEF TypeOK, Deliver, Hand
  <2>3. CASE Finish
    BY <1>0, <2>3 DEF TypeOK, Finish, Hand
  <2> QED
    BY <2>1, <2>2, <2>3
<1>4. TypeOK'
  BY <1>0, <1>1, <1>3 DEF TypeOK
<1>5. Control'
  BY <1>0, <1>1 DEF Control
<1>6. Decided'
  BY <1>1, <1>2, <1>4, DecidedKept
<1>7. DropsCounted'
  BY <1>1, DropsKept DEF Pending
<1> QED
  BY <1>3, <1>4, <1>5, <1>6, <1>7 DEF IInv

\* The flag, then the channel.
LEMMA CloseIInv ==
    ASSUME IInv, NEW c \in Closers, CloseFlag(c) \/ CloseChan(c)
    PROVE  IInv'
<1>0. TypeOK /\ Control /\ Hand /\ Decided
  BY DEF IInv
<1>1. UNCHANGED <<sent, queue, dropped, loop, hand, delivered, lost>>
  BY DEF CloseFlag, CloseChan
<1> DEFINE w == IF pc[c] = "idle" /\ ~ closed THEN "close" ELSE "done"
<1>2. Goto(c, w)
  BY <1>0 DEF CloseFlag, CloseChan, Control
<1>3. \A x \in Emitters \cup Closers : pc'[x] = IF x = c THEN w ELSE pc[x]
  BY <1>0, <1>2 DEF TypeOK, Goto
<1>4. \A e \in Emitters : pc'[e] = pc[e]
  BY <1>3, SinkAssumption
<1>5. TypeOK'
  <2>1. closed' \in BOOLEAN /\ chan' \in {"open", "closed"}
    BY <1>0 DEF TypeOK, CloseFlag, CloseChan
  <2> QED
    BY <1>0, <1>1, <1>2, <2>1 DEF TypeOK, Goto
<1>6. Control' /\ Hand'
  <2>1. CASE CloseFlag(c)
    BY <1>0, <1>1, <1>3, <1>4, <2>1 DEF Control, Hand, CloseFlag, TypeOK
  <2>2. CASE CloseChan(c)
    BY <1>0, <1>1, <1>3, <1>4, <2>2 DEF Control, Hand, CloseChan, TypeOK
  <2> QED
    BY <2>1, <2>2
<1>7. Decided'
  BY <1>1, <1>4, <1>5, DecidedKept DEF Taken
<1>8. DropsCounted'
  BY <1>1, <1>4, DropsKept DEF Pending
<1> QED
  BY <1>5, <1>6, <1>7, <1>8 DEF IInv

\* Every step of the sink keeps the invariant.
LEMMA StepIInv == IInv /\ [Next]_vars => IInv'
<1> SUFFICES ASSUME IInv, [Next]_vars PROVE IInv'
  OBVIOUS
<1>1. CASE UNCHANGED vars
  <2>1. UNCHANGED <<TypeOK, Control, Hand, Pending, Taken>>
    BY <1>1 DEF vars, TypeOK, Control, Hand, Pending, Taken
  <2>2. Decided' /\ DropsCounted'
    BY <1>1, <2>1, DecidedKept, DropsKept DEF IInv, vars
  <2> QED
    BY <2>1, <2>2 DEF IInv
<1>2. ASSUME NEW e \in Emitters, Call(e) \/ EmitStep(e) PROVE IInv'
  BY <1>2, CallIInv, EnqueueIInv, LoseIInv, CountDropIInv DEF EmitStep
<1>3. ASSUME NEW c \in Closers, CloseStep(c) PROVE IInv'
  BY <1>3, CloseIInv DEF CloseStep
<1>4. CASE Receive \/ Deliver \/ Finish
  BY <1>4, LoopIInv
<1> QED
  BY <1>1, <1>2, <1>3, <1>4 DEF Next

\* The invariant holds throughout.
LEMMA Inductive == Spec => []IInv
  BY InitIInv, StepIInv, PTL DEF Spec

\* Whatever the goroutines do to each other, the queue keeps within its capacity
\* and the sink's fields keep their types (async.go:17-91).
THEOREM TypeCorrect == Spec => []TypeOK
  BY Inductive, PTL DEF IInv

\* No interleaving of Close with itself or with Emit closes the channel twice
\* (async.go:82-91).
THEOREM CloseOnce == Spec => []ClosesOnce
<1>1. IInv => ClosesOnce
  BY DEF IInv, Control, ClosesOnce
<1> QED
  BY <1>1, Inductive, PTL

\* Dropped() accounts for every event lost, but for those whose caller is about
\* to count it or panicked (async.go:53-65, 76-80).
THEOREM Drops == Spec => []DropsCounted
  BY Inductive, PTL DEF IInv
-----------------------------------------------------------------------------
\* An event still in the select of Emit is new to the log.
LEMMA Unknown ==
    ASSUME IInv, NEW e \in Emitters, pc[e] = "select"
    PROVE  Event(e) \in Events /\ Event(e) \notin Log!Known
<1>1. TypeOK
  BY DEF IInv
<1>2. Taken \in Seq(Events)
  BY <1>1, TakenType
<1>3. \A i \in 1..Len(Taken) : Taken[i] # Event(e)
  BY Fresh
<1>4. Event(e) \notin ToSet(Taken)
  BY <1>2, <1>3 DEF ToSet
<1>5. Log!Known = ToSet(Taken) \cup lost
  BY DEF Log!Known, Log!ToSet, ToSet, Taken
<1> QED
  BY <1>4, <1>5, Fresh

\* Each step of the sink is a step of the log, or one the log does not see.
LEMMA StepLog == IInv /\ [Next]_vars => [Log!Next]_<<Taken, lost, delivered>>
<1> SUFFICES ASSUME IInv, [Next]_vars PROVE [Log!Next]_<<Taken, lost, delivered>>
  OBVIOUS
<1>0. TypeOK /\ Hand
  BY DEF IInv
<1>1. ASSUME NEW e \in Emitters, Enqueue(e) PROVE Log!Next
  <2>1. Event(e) \in Events /\ Event(e) \notin Log!Known
    BY <1>1, Unknown DEF Enqueue
  <2>2. Taken' = Append(Taken, Event(e)) /\ UNCHANGED <<lost, delivered>>
    BY <1>0, <1>1, <2>1, EnqueueTaken DEF Enqueue
  <2>3. Log!Accept(Event(e))
    BY <2>1, <2>2 DEF Log!Accept, Taken
  <2> QED
    BY <2>1, <2>3 DEF Log!Next
<1>2. ASSUME NEW e \in Emitters, Overflow(e) \/ Panic(e) PROVE Log!Next
  <2>1. Event(e) \in Events /\ Event(e) \notin Log!Known
    BY <1>2, Unknown DEF Overflow, Panic
  <2>2. /\ lost' = lost \cup {Event(e)}
        /\ queue' = queue /\ hand' = hand /\ delivered' = delivered
    BY <1>2 DEF Overflow, Panic
  <2>3. Log!Lose(Event(e))
    BY <2>1, <2>2 DEF Log!Lose
  <2> QED
    BY <2>1, <2>3 DEF Log!Next
<1>3. CASE Deliver
  <2>1. /\ Taken' = Taken /\ Len(delivered) < Len(Taken)
        /\ delivered' = Append(delivered, Taken[Len(delivered) + 1])
    BY <1>0, <1>3, DeliverTaken
  <2>2. Log!Write
    BY <1>3, <2>1 DEF Log!Write, Taken, Deliver
  <2> QED
    BY <2>2 DEF Log!Next
<1>4. CASE Receive
  BY <1>0, <1>4, ReceiveTaken DEF Receive
<1>5. ASSUME NEW e \in Emitters, Call(e) \/ CountDrop(e)
      PROVE  UNCHANGED <<Taken, lost, delivered>>
  BY <1>5 DEF Call, CountDrop, Taken
<1>6. ASSUME NEW c \in Closers, CloseStep(c)
      PROVE  UNCHANGED <<Taken, lost, delivered>>
  BY <1>6 DEF CloseStep, CloseFlag, CloseChan, Taken
<1>7. CASE Finish \/ UNCHANGED vars
  BY <1>7 DEF Finish, vars, Taken
<1> QED
  BY <1>1, <1>2, <1>3, <1>4, <1>5, <1>6, <1>7 DEF Next, EmitStep

\* The sink implements the lossy log: every event passed to Emit is taken or
\* lost, once, and the delegate is given what was taken, in that order
\* (async.go:53-91).
THEOREM Refinement == Spec => LogSpec
<1>1. Init => Log!Init
  <2> SUFFICES ASSUME Init PROVE Log!Init
    OBVIOUS
  <2>1. <<>> \o <<>> \o <<>> = <<>>
    BY EmptySeq, ConcatEmptySeq
  <2> QED
    BY <2>1 DEF Init, Log!Init
<1>2. IInv /\ [Next]_vars => [Log!Next]_(Log!vars)
  BY StepLog DEF Log!vars, Taken
<1> QED
  BY <1>1, <1>2, Inductive, PTL DEF Spec, LogSpec, Log!Spec
=============================================================================
