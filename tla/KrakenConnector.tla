--------------------------- MODULE KrakenConnector ---------------------------
(***************************************************************************)
(* The private REST calls of the Kraken connector: nextNonce, the          *)
(* CounterLimiter of do(), the request on the wire and its answer.  Kraken *)
(* itself (external) keeps a counter of the same rule, which is charged    *)
(* when a request arrives and whose decay ticks fall at instants of its    *)
(* own, and refuses a nonce not larger than every nonce it has seen.  A    *)
(* request may be on the wire for any time, also after its caller gave up  *)
(* or its process ended.                                                   *)
(***************************************************************************)
EXTENDS Integers

CONSTANTS
    Callers,        \* goroutines using the connector
    Budget,         \* CounterLimiter.budget (20)
    OrderCost,      \* cost of AddOrder and CancelOrder (6)
    QueryCost,      \* cost of the queries (2)
    Decay,          \* CounterLimiter.decay (3 s)
    BackoffTime,    \* do(): pause after a 429 or 418 (30 s)
    Rate,           \* milliseconds, the unit of the first nonce, in a unit of the clock
    MaxTime,        \* bound on the clock
    MaxNonce,       \* bound on the nonces taken
    MaxRestarts     \* bound on the restarts of the process

ASSUME CostsAssumption ==
    Budget \in Nat /\ OrderCost \in Nat \ {0} /\ QueryCost \in Nat \ {0}
ASSUME TimesAssumption ==
    Decay \in Nat \ {0} /\ BackoffTime \in Nat /\ MaxTime \in Nat
ASSUME RestartsAssumption == Rate \in Nat /\ MaxNonce \in Nat /\ MaxRestarts \in Nat

VARIABLES
    now,
    current, last, backoff,     \* CounterLimiter; backoff = 0 is the zero time
    nonce,                      \* Connector.nonce, less its first start value
    pc, cost, myNonce,          \* each caller's call
    overlapped,                 \* callers whose call runs or ran beside another
    phase, meter, venueNonce,   \* Kraken: when its counter decays, the counter, last nonce
    wire,                       \* cost on the wire that was sent since the counter's last tick
    late, lateCost,             \* requests on the wire over such a tick; the cost of those
                                \* that arrived since the counter was last empty
    lastSent, limitedAt,        \* times of the last admission and the last 429 seen, -1 before
    restarts,
    early                       \* the process restarted with its nonces ahead of the clock

limiter == <<current, last, backoff>>
callVars == <<pc, cost, myNonce, overlapped>>
kraken == <<phase, meter, venueNonce>>
delays == <<wire, late, lateCost>>
restartVars == <<restarts, early>>
history == <<lastSent, limitedAt, restartVars>>
vars == <<now, limiter, nonce, callVars, kraken, delays, history>>

Steps == {"idle", "signed", "sent", "arrived", "stale_nonce", "orphan"}

Init ==
    /\ now = 0
    /\ current = 0 /\ last = 0 /\ backoff = 0
    /\ nonce = 0
    /\ pc = [c \in Callers |-> "idle"]
    /\ cost = [c \in Callers |-> QueryCost]
    /\ myNonce = [c \in Callers |-> 0]
    /\ overlapped = {}
    /\ phase \in 0..(Decay - 1)
    /\ meter = 0 /\ venueNonce = 0
    /\ wire = 0 /\ late = {} /\ lateCost = 0
    /\ lastSent = -1 /\ limitedAt = -1
    /\ restarts = 0 /\ early = FALSE
-----------------------------------------------------------------------------
Busy == {c \in Callers : pc[c] \notin {"idle", "orphan"}}

\* doPrivate: the nonce is taken (atomically) and the request signed before the
\* limiter is asked.
Sign(c, k) ==
    /\ pc[c] = "idle"
    /\ nonce < MaxNonce
    /\ nonce' = nonce + 1
    /\ myNonce' = [myNonce EXCEPT ![c] = nonce + 1]
    /\ cost' = [cost EXCEPT ![c] = k]
    /\ pc' = [pc EXCEPT ![c] = "signed"]
    /\ overlapped' = IF Busy = {} THEN {} ELSE Busy \cup {c}
    /\ UNCHANGED <<now, limiter, kraken, delays, history>>

PlaceOrder(c) == Sign(c, OrderCost)
CancelOrder(c) == Sign(c, OrderCost)
GetOrder(c) == Sign(c, QueryCost)
GetFills(c) == Sign(c, QueryCost)
GetBalances(c) == Sign(c, QueryCost)

\* CounterLimiter.decayLocked: whole decay ticks since the last one counted.
Ticks == (now - last) \div Decay
\* Mutated form of Decayed: not clamped at zero.
DecayedUnclamped == current - Ticks
Decayed == IF current > Ticks THEN current - Ticks ELSE 0
\* Mutated form of LastTick: the ticks counted are counted again next time.
LastTickKept == last
LastTick == last + Ticks * Decay

\* The call returns; what it held is gone.
Return(c) ==
    /\ pc' = [pc EXCEPT ![c] = "idle"]
    /\ cost' = [cost EXCEPT ![c] = QueryCost]
    /\ myNonce' = [myNonce EXCEPT ![c] = 0]
    /\ overlapped' = overlapped \ {c}

\* Mutated form of WaitAdmits: the backoff is not looked at.
WaitAdmitsInBackoff(c) == Decayed + cost[c] <= Budget
WaitAdmits(c) == now >= backoff /\ Decayed + cost[c] <= Budget

\* do() admitted.
Send(c) ==
    /\ pc[c] = "signed"
    /\ WaitAdmits(c)
    /\ current' = Decayed + cost[c]
    /\ last' = LastTick
    /\ pc' = [pc EXCEPT ![c] = "sent"]
    /\ wire' = wire + cost[c]
    /\ lastSent' = now
    /\ UNCHANGED <<now, backoff, nonce, cost, myNonce, overlapped, kraken, late, lateCost,
                   limitedAt, restartVars>>

\* do() turned away by the limiter: the decay is applied all the same.
Limited(c) ==
    /\ pc[c] = "signed"
    /\ ~ WaitAdmits(c)
    /\ current' = Decayed
    /\ last' = LastTick
    /\ Return(c)
    /\ UNCHANGED <<now, backoff, nonce, kraken, delays, history>>

\* A request leaves the wire.
OffWire(c) ==
    /\ late' = late \ {c}
    /\ wire' = IF c \in late THEN wire ELSE wire - cost[c]

\* Kraken's counter is charged with an arriving request (external).
Charge(c) ==
    /\ OffWire(c)
    /\ meter' = meter + cost[c]
    /\ lateCost' = IF c \in late THEN lateCost + cost[c] ELSE lateCost

\* The request reaches Kraken (external), in any order with other requests.
Arrive(c) ==
    /\ pc[c] = "sent"
    /\ Charge(c)
    /\ IF myNonce[c] > venueNonce
         THEN venueNonce' = myNonce[c] /\ pc' = [pc EXCEPT ![c] = "arrived"]
         ELSE venueNonce' = venueNonce /\ pc' = [pc EXCEPT ![c] = "stale_nonce"]
    /\ UNCHANGED <<now, limiter, nonce, cost, myNonce, overlapped, phase, history>>

RespondOk(c) ==
    /\ pc[c] = "arrived"
    /\ Return(c)
    /\ UNCHANGED <<now, limiter, nonce, kraken, delays, history>>

\* A 200 whose envelope carries EAPI:Invalid nonce.
RespondBadNonce(c) ==
    /\ pc[c] = "stale_nonce"
    /\ Return(c)
    /\ UNCHANGED <<now, limiter, nonce, kraken, delays, history>>

\* 429 or 418: CounterLimiter.Backoff.  It may come from before the counter.
RespondThrottled(c) ==
    /\ pc[c] \in {"sent", "arrived"}
    /\ backoff' = now + BackoffTime
    /\ limitedAt' = now
    /\ IF pc[c] = "sent" THEN OffWire(c) ELSE UNCHANGED <<late, wire>>
    /\ Return(c)
    /\ UNCHANGED <<now, current, last, nonce, kraken, lateCost, lastSent, restartVars>>

\* Lost answer, other status, bad JSON or another error in the envelope.
RespondFailed(c) ==
    /\ pc[c] = "arrived"
    /\ Return(c)
    /\ UNCHANGED <<now, limiter, nonce, kraken, delays, history>>

\* The call ends with a transport error or with its context while the request
\* is on the wire, where it stays.
GiveUp(c) ==
    /\ pc[c] = "sent"
    /\ pc' = [pc EXCEPT ![c] = "orphan"]
    /\ overlapped' = overlapped \ {c}
    /\ UNCHANGED <<now, limiter, nonce, cost, myNonce, kraken, delays, history>>

\* Mutated form of Restart: the nonce starts from zero.
RestartNonceZero ==
    /\ restarts < MaxRestarts
    /\ restarts' = restarts + 1
    /\ nonce' = 0
    /\ early' = (early \/ nonce > now * Rate)
    /\ current' = 0 /\ last' = now /\ backoff' = 0
    /\ limitedAt' = -1
    /\ pc' = [c \in Callers |-> IF pc[c] \in {"sent", "orphan"} THEN "orphan" ELSE "idle"]
    /\ myNonce' = [c \in Callers |-> IF pc'[c] = "orphan" THEN myNonce[c] ELSE 0]
    /\ cost' = [c \in Callers |-> IF pc'[c] = "orphan" THEN cost[c] ELSE QueryCost]
    /\ overlapped' = {}
    /\ UNCHANGED <<now, kraken, delays, lastSent>>

\* The process ends and NewConnector runs again: the nonce starts from the clock,
\* the limiter from nothing.  Requests on the wire are not called back.
Restart ==
    /\ restarts < MaxRestarts
    /\ restarts' = restarts + 1
    /\ nonce' = now * Rate
    /\ early' = (early \/ nonce > now * Rate)
    /\ current' = 0 /\ last' = now /\ backoff' = 0
    /\ limitedAt' = -1
    /\ pc' = [c \in Callers |-> IF pc[c] \in {"sent", "orphan"} THEN "orphan" ELSE "idle"]
    /\ myNonce' = [c \in Callers |-> IF pc'[c] = "orphan" THEN myNonce[c] ELSE 0]
    /\ cost' = [c \in Callers |-> IF pc'[c] = "orphan" THEN cost[c] ELSE QueryCost]
    /\ overlapped' = {}
    /\ UNCHANGED <<now, kraken, delays, lastSent>>

\* A request nobody waits for reaches Kraken.
OrphanArrives(c) ==
    /\ pc[c] = "orphan"
    /\ Charge(c)
    /\ venueNonce' = IF myNonce[c] > venueNonce THEN myNonce[c] ELSE venueNonce
    /\ Return(c)
    /\ UNCHANGED <<now, limiter, nonce, phase, history>>

\* A request nobody waits for is lost.
OrphanLost(c) ==
    /\ pc[c] = "orphan"
    /\ OffWire(c)
    /\ Return(c)
    /\ UNCHANGED <<now, limiter, nonce, kraken, lateCost, history>>

\* The clock moves.
Tick ==
    /\ now < MaxTime
    /\ now' = now + 1
    /\ now' % Decay # phase
    /\ UNCHANGED <<limiter, nonce, callVars, kraken, delays, history>>

\* The clock moves to an instant at which Kraken's counter decays (external).
DecayTick ==
    /\ now < MaxTime
    /\ now' = now + 1
    /\ now' % Decay = phase
    /\ meter' = IF meter > 0 THEN meter - 1 ELSE 0
    /\ late' = late \cup {c \in Callers : pc[c] \in {"sent", "orphan"}}
    /\ wire' = 0
    /\ lateCost' = IF meter' = 0 THEN 0 ELSE lateCost
    /\ UNCHANGED <<limiter, nonce, callVars, phase, venueNonce, history>>

Calls(c) ==
    \/ PlaceOrder(c) \/ CancelOrder(c) \/ GetOrder(c) \/ GetFills(c) \/ GetBalances(c)

Progress(c) ==
    \/ Send(c) \/ Limited(c) \/ Arrive(c)
    \/ RespondOk(c) \/ RespondBadNonce(c) \/ RespondThrottled(c) \/ RespondFailed(c)
    \/ GiveUp(c) \/ OrphanArrives(c) \/ OrphanLost(c)

Next == (\E c \in Callers : Calls(c) \/ Progress(c)) \/ Tick \/ DecayTick \/ Restart

Spec == Init /\ [][Next]_vars
-----------------------------------------------------------------------------
TypeOK ==
    /\ now \in Nat
    /\ current \in Nat /\ last \in Nat /\ backoff \in Nat
    /\ nonce \in Nat
    /\ pc \in [Callers -> Steps]
    /\ cost \in [Callers -> {OrderCost, QueryCost}]
    /\ myNonce \in [Callers -> Nat]
    /\ overlapped \subseteq Callers
    /\ phase \in 0..(Decay - 1)
    /\ meter \in Nat /\ venueNonce \in Nat
    /\ wire \in Nat /\ late \subseteq Callers /\ lateCost \in Nat
    /\ lastSent \in Int /\ limitedAt \in Int
    /\ restarts \in 0..MaxRestarts /\ early \in BOOLEAN

\* The counter applies its decay only when asked and keeps the remainder, so it
\* runs at Kraken's pace.  A counter of the same rule at Kraken, whatever the
\* offset between the two clocks' ticks, exceeds the budget by at most one, a
\* budget more for each restart, which forgets what was spent, and the cost of
\* requests that piled up on the wire over a tick, which the limiter's decay
\* takes no notice of (ratelimit.go:116-155).
MeterBound == meter <= (restarts + 1) * Budget + 1 + lateCost

\* After a 429 or 418 the process sends nothing for the backoff time
\* (kraken.go:108).
QuietAfter429 ==
    limitedAt >= 0 => (lastSent <= limitedAt \/ lastSent >= limitedAt + BackoffTime)

\* A call alone in the connector is never refused for its nonce: a nonce is
\* stale only through a concurrent call that overtook it, or after a restart
\* sooner than one millisecond per nonce taken before (kraken.go:55, 61-93).
NonceStaleExplained ==
    \A c \in Callers : pc[c] = "stale_nonce" => c \in overlapped \/ early
=============================================================================
