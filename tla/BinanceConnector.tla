--------------------------- MODULE BinanceConnector ---------------------------
(***************************************************************************)
(* The signed REST calls of the Binance connector: the timestamp of        *)
(* doSigned, the WeightedLimiter of do(), and the X-MBX-USED-WEIGHT-1M     *)
(* header that overwrites the limiter's count when an answer is read.      *)
(* Binance (external) meters the weight it receives in windows of the same *)
(* length that start at instants of its own, reports the meter in every    *)
(* answer, and answers 429 once the meter is above its limit.  A request   *)
(* may be on the wire for any time, also after its call ended.  The book   *)
(* feed's snapshot requests are metered too, but pass by the limiter.      *)
(***************************************************************************)
EXTENDS Integers, FiniteSets

CONSTANTS
    Callers,        \* places for a call, or for a request left on the wire
    Budget,         \* WeightedLimiter.budget, the venue's own limit (1200)
    OrderWeight,    \* weight of placing, querying and cancelling an order (1)
    BalancesWeight, \* weight of GetBalances (5)
    FillsWeight,    \* weight of GetFills (10)
    SnapshotWeight, \* what Binance charges for the snapshot of refreshSnapshot
    Refill,         \* WeightedLimiter.refill (60 s)
    BackoffTime,    \* do(): pause after a 429 or 418 (30 s)
    MaxTime,        \* bound on the clock
    MaxCalls,       \* bound on the timestamps taken
    MaxSnapshots    \* bound on the weight of the snapshots in one window

Weights == {OrderWeight, BalancesWeight, FillsWeight}
ASSUME CallersAssumption == IsFiniteSet(Callers)
ASSUME WeightsAssumption == Budget \in Nat /\ Weights \subseteq Nat \ {0}
ASSUME TimesAssumption ==
    /\ Refill \in Nat \ {0} /\ BackoffTime \in Nat
    /\ MaxTime \in Nat /\ MaxCalls \in Nat
ASSUME SnapshotsAssumption == SnapshotWeight \in Nat /\ MaxSnapshots \in Nat

VARIABLES
    now,
    used, lastFill, backoff,    \* WeightedLimiter; backoff = 0 is the zero time
    nonce,                      \* Connector.nonce, less its start value: the last timestamp
    pc, weight,                 \* each caller's call and its weight
    header,                     \* the meter its answer reports
    phase, meter, snapshots,    \* Binance: where its windows start; the weight it metered in
                                \* this one, of signed calls and of snapshots
    lastSent, limitedAt,        \* times of the last admission and the last 429 read, -1 before
    overlapped                  \* two calls have been under way at once

limiter == <<used, lastFill, backoff>>
callVars == <<pc, weight, header>>
venue == <<phase, meter, snapshots>>
history == <<lastSent, limitedAt, overlapped>>
vars == <<now, limiter, nonce, callVars, venue, history>>

Steps == {"idle", "signed", "sent", "answered", "throttled", "orphan"}
NoHeader == -1

Init ==
    /\ now = 0
    /\ used = 0 /\ lastFill = 0 /\ backoff = 0
    /\ nonce = 0
    /\ pc = [c \in Callers |-> "idle"]
    /\ weight = [c \in Callers |-> 0]
    /\ header = [c \in Callers |-> NoHeader]
    /\ phase \in 0..(Refill - 1)
    /\ meter = 0 /\ snapshots = 0
    /\ lastSent = -1 /\ limitedAt = -1 /\ overlapped = FALSE
-----------------------------------------------------------------------------
\* doSigned: the timestamp is the incremented nonce.
Sign(c, w) ==
    /\ pc[c] = "idle"
    /\ nonce < MaxCalls
    /\ nonce' = nonce + 1
    /\ weight' = [weight EXCEPT ![c] = w]
    /\ pc' = [pc EXCEPT ![c] = "signed"]
    /\ overlapped' = (overlapped \/ \E d \in Callers : pc[d] # "idle")
    /\ UNCHANGED <<now, limiter, header, venue, lastSent, limitedAt>>

PlaceOrder(c) == Sign(c, OrderWeight)
GetOrder(c) == Sign(c, OrderWeight)
CancelOrder(c) == Sign(c, OrderWeight)
GetFills(c) == Sign(c, FillsWeight)
GetBalances(c) == Sign(c, BalancesWeight)

\* WeightedLimiter.replenishLocked.
RefillDue == now - lastFill >= Refill
\* Mutated form of Used0: the refill takes a whole budget off the count.
Used0Unclamped == IF RefillDue THEN used - Budget ELSE used
Used0 == IF RefillDue THEN 0 ELSE used
\* Mutated form of LastFill0: the refill time is not recorded.
LastFill0Kept == lastFill
LastFill0 == IF RefillDue THEN now ELSE lastFill

\* Mutated form of WaitAdmits: the backoff is not looked at.
WaitAdmitsInBackoff(c) == Used0 + weight[c] <= Budget
WaitAdmits(c) == now >= backoff /\ Used0 + weight[c] <= Budget

\* do() admitted.
Send(c) ==
    /\ pc[c] = "signed"
    /\ WaitAdmits(c)
    /\ used' = Used0 + weight[c]
    /\ lastFill' = LastFill0
    /\ pc' = [pc EXCEPT ![c] = "sent"]
    /\ lastSent' = now
    /\ UNCHANGED <<now, backoff, nonce, weight, header, venue, limitedAt, overlapped>>

\* do() turned away by the limiter: a due refill is applied all the same.
Limited(c) ==
    /\ pc[c] = "signed"
    /\ ~ WaitAdmits(c)
    /\ used' = Used0
    /\ lastFill' = LastFill0
    /\ pc' = [pc EXCEPT ![c] = "idle"]
    /\ weight' = [weight EXCEPT ![c] = 0]
    /\ UNCHANGED <<now, backoff, nonce, header, venue, history>>

\* Binance takes the request (external) and answers with the weight used.
Process(c) ==
    /\ pc[c] = "sent"
    /\ meter' = meter + weight[c]
    /\ header' = [header EXCEPT ![c] = meter' + snapshots]
    /\ pc' = [pc EXCEPT ![c] = IF meter' + snapshots > Budget THEN "throttled" ELSE "answered"]
    /\ UNCHANGED <<now, limiter, nonce, weight, phase, snapshots, history>>

Return(c) ==
    /\ pc' = [pc EXCEPT ![c] = "idle"]
    /\ header' = [header EXCEPT ![c] = NoHeader]
    /\ weight' = [weight EXCEPT ![c] = 0]

\* The answer is read, in any order with other answers: UpdateUsed replaces the
\* count, reservations of requests still under way included.
ReadAnswer(c) ==
    /\ pc[c] = "answered"
    /\ used' = header[c]
    /\ Return(c)
    /\ UNCHANGED <<now, lastFill, backoff, nonce, venue, history>>

\* 429 or 418: UpdateUsed if the header is there, then Backoff.
ReadThrottled(c) ==
    /\ pc[c] = "throttled"
    /\ used' \in {header[c], used}
    /\ backoff' = now + BackoffTime
    /\ limitedAt' = now
    /\ Return(c)
    /\ UNCHANGED <<now, lastFill, nonce, venue, lastSent, overlapped>>

\* The answer is lost, or comes without the header.
Lost(c) ==
    /\ pc[c] \in {"answered", "throttled"}
    /\ Return(c)
    /\ UNCHANGED <<now, limiter, nonce, venue, history>>

\* The call ends with a transport error or with its context while the request is
\* on the wire, where it stays.
GiveUp(c) ==
    /\ pc[c] = "sent"
    /\ pc' = [pc EXCEPT ![c] = "orphan"]
    /\ UNCHANGED <<now, limiter, nonce, weight, header, venue, history>>

\* Binance takes a request nobody waits for (external).
OrphanProcessed(c) ==
    /\ pc[c] = "orphan"
    /\ meter' = meter + weight[c]
    /\ Return(c)
    /\ UNCHANGED <<now, limiter, nonce, phase, snapshots, history>>

\* A request nobody waits for never comes to Binance.
OrphanLost(c) ==
    /\ pc[c] = "orphan"
    /\ Return(c)
    /\ UNCHANGED <<now, limiter, nonce, venue, history>>

\* refreshSnapshot of the book feed: neither limiter nor backoff is asked, and
\* its answer, a 429 included, is told to neither.  Binance meters it.
RefreshSnapshot ==
    /\ snapshots + SnapshotWeight <= MaxSnapshots
    /\ snapshots' = snapshots + SnapshotWeight
    /\ UNCHANGED <<now, limiter, nonce, callVars, phase, meter, history>>

\* The clock moves; Binance opens a window at its own instants.
Tick ==
    /\ now < MaxTime
    /\ now' = now + 1
    /\ IF now' % Refill = phase THEN meter' = 0 /\ snapshots' = 0
                                ELSE UNCHANGED <<meter, snapshots>>
    /\ UNCHANGED <<limiter, nonce, callVars, phase, history>>

Next ==
    \/ \E c \in Callers :
          \/ PlaceOrder(c) \/ GetOrder(c) \/ CancelOrder(c) \/ GetFills(c) \/ GetBalances(c)
          \/ Send(c) \/ Limited(c) \/ Process(c)
          \/ ReadAnswer(c) \/ ReadThrottled(c) \/ Lost(c)
          \/ GiveUp(c) \/ OrphanProcessed(c) \/ OrphanLost(c)
    \/ RefreshSnapshot
    \/ Tick

Spec == Init /\ [][Next]_vars
-----------------------------------------------------------------------------
TypeOK ==
    /\ now \in Nat
    /\ used \in Nat /\ lastFill \in Nat /\ backoff \in Nat
    /\ nonce \in Nat
    /\ pc \in [Callers -> Steps]
    /\ weight \in [Callers -> Weights \cup {0}]
    /\ header \in [Callers -> Nat \cup {NoHeader}]
    /\ phase \in 0..(Refill - 1)
    /\ meter \in Nat /\ snapshots \in Nat
    /\ lastSent \in Int /\ limitedAt \in Int /\ overlapped \in BOOLEAN

\* The limiter's windows and Binance's start at different instants, answers are
\* lost, requests arrive late, after a time-out too, the header of an answer
\* replaces the count, and it counts the snapshots in, which pass by the limiter.
\* Yet in no window does Binance meter for signed calls more than twice the budget,
\* as long as each call starts when no other request is left, on the wire either;
\* nor more than that and another budget for each request that can be left
\* otherwise.  The snapshots of the window come on top, as many as the feed asks for
\* (ratelimit.go:33-62, 82-104; binance.go:106-134; book.go:91).
MeterBound ==
    meter <= Budget * (IF overlapped THEN Cardinality(Callers) + 2 ELSE 2)

\* After a 429 or 418 to a signed call no signed call is sent for the backoff time,
\* whatever answers to other calls come in meanwhile.  Snapshots are sent all the
\* same, and a 429 to one of them begins no pause (binance.go:124-127; book.go:97).
SignedQuietAfter429 ==
    limitedAt >= 0 => (lastSent <= limitedAt \/ lastSent >= limitedAt + BackoffTime)
=============================================================================
