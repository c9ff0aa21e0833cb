---------------------------- MODULE Kraken_proofs ----------------------------
(***************************************************************************)
(* The package adapters/kraken: the connector (KrakenConnector) and the    *)
(* book feed over the web socket client (KrakenFeed), two state machines   *)
(* that share no variable.                                                 *)
(*                                                                         *)
(* The connector, for every budget, cost, decay, backoff time, set of      *)
(* callers and number of restarts: what Kraken's counter can reach, the    *)
(* silence after a 429, and when a nonce can be stale.                     *)
(*                                                                         *)
(* The feed, for every set of prices, depth and number of messages and     *)
(* dials: the sockets left open, when the book is exact, and the order of  *)
(* the levels.  What sortLevels and the value of a price compute is proved *)
(* by induction over the loop counter, with sets of natural numbers        *)
(* (SetInduction).                                                         *)
(***************************************************************************)
EXTENDS KrakenConnector, KrakenFeed, FiniteSetTheorems, SequenceTheorems,
        WellFoundedInduction, TLAPS

(* The connector *)

\* The clock bounds every instant that is remembered.
Past == last <= now /\ lastSent <= now /\ limitedAt <= now

Backing == limitedAt >= 0 => backoff = limitedAt + BackoffTime

\* Time since the last tick of Kraken's counter and of the limiter's.
VenueAge == (now - phase) % Decay
LimiterAge == (now - last) % Decay

\* Kraken's counter against the limiter's, decay up to now applied: between two
\* ticks of the limiter Kraken ticks exactly once, and until it has done so it may
\* be one ahead.  Each restart forgets at most a budget.  What is on the wire will
\* be charged to Kraken's counter, unless it stays there over a tick and is late.
Metered ==
    /\ current <= Budget
    /\ meter + wire <= lateCost + restarts * Budget + Decayed
                        + (IF VenueAge < LimiterAge THEN 0 ELSE 1)

\* What a request adds to wire: its cost, if Kraken has not ticked since it left.
Load(c) == IF pc[c] \in {"sent", "orphan"} /\ c \notin late THEN cost[c] ELSE 0
Loads == [c \in Callers |-> Load(c)]

\* s[S] is the sum of a over the callers in S.
Sums == [SUBSET Callers -> Nat]
Adds(s, a) ==
    \A S \in SUBSET Callers, c \in Callers : c \notin S => s[S \cup {c}] = s[S] + a[c]

\* wire is the sum of the loads, and a late request is still on the wire.
LateOnWire == \A c \in late : pc[c] \in {"sent", "orphan"}
Summed == \E s \in Sums : Adds(s, Loads) /\ s[Callers] = wire
Wired == LateOnWire /\ Summed

\* Callers whose request has not come to Kraken.
UnderWay == {c \in Callers : pc[c] \in {"signed", "sent"}}

\* While every restart left the clock ahead of the nonces, no nonce in use
\* exceeds the last one taken; and a call that has overlapped no other is the
\* only one, with a nonce above all that Kraken has seen or may see.
Nonces ==
    /\ \A c \in Busy \ overlapped : Busy = {c}
    /\ ~ early =>
         /\ venueNonce <= nonce
         /\ \A c \in Callers : myNonce[c] <= nonce
         /\ \A c \in Busy \ overlapped :
               /\ myNonce[c] = nonce
               /\ \A d \in Callers \ {c} : myNonce[d] < nonce
         /\ \A c \in UnderWay \ overlapped : venueNonce < nonce

IInv ==
    /\ TypeOK /\ Past /\ Backing /\ QuietAfter429 /\ Metered /\ Wired
    /\ Nonces /\ NonceStaleExplained
-----------------------------------------------------------------------------
\* One more unit of time in quotient and remainder.
LEMMA OneMore ==
    ASSUME NEW a \in Int, NEW d \in Nat \ {0}
    PROVE  /\ a % d \in 0..(d - 1) /\ a \div d \in Int
           /\ (a + 1) % d = IF a % d = d - 1 THEN 0 ELSE (a % d) + 1
           /\ (a + 1) \div d = IF a % d = d - 1 THEN (a \div d) + 1 ELSE a \div d
  OBVIOUS

\* Kraken's counter ticks when its age is zero.
LEMMA TickAtPhase ==
    ASSUME NEW d \in Nat \ {0}, NEW n \in Int, NEW f \in 0..(d - 1)
    PROVE  (n % d = f) <=> ((n - f) % d = 0)
<1> DEFINE q == n \div d
           r == n % d
<1>1. q \in Int /\ r \in 0..(d - 1) /\ n = (d * q) + r
  OBVIOUS
<1>2. \A k \in Int, x \in 0..(d - 1) : ((d * k) + x) % d = x
  OBVIOUS
<1> HIDE DEF q, r
<1>3. CASE r >= f
  <2>1. n - f = (d * q) + (r - f) /\ r - f \in 0..(d - 1)
    BY <1>1, <1>3
  <2>2. (n - f) % d = r - f
    BY <1>1, <1>2, <2>1
  <2> QED
    BY <1>1, <2>2 DEF r
<1>4. CASE r < f
  <2> DEFINE k == q - 1
             x == r - f + d
  <2>1. n - f = (d * k) + x /\ k \in Int /\ x \in 0..(d - 1)
    BY <1>1, <1>4
  <2> HIDE DEF k, x
  <2>3. ((d * k) + x) % d = x
    BY <1>2, <2>1
  <2>2. (n - f) % d = r - f + d
    BY <2>1, <2>3 DEF x
  <2> QED
    BY <1>1, <1>4, <2>2 DEF r
<1> QED
  BY <1>1, <1>3, <1>4

\* decayLocked moves the limiter's last tick by whole periods: the rest is kept.
LEMMA LastTickKeepsRest ==
    ASSUME NEW d \in Nat \ {0}, NEW t \in Nat, NEW l \in Nat, l <= t
    PROVE  LET q == (t - l) \div d
               m == l + q * d
           IN  /\ q \in Nat /\ m \in Nat /\ m <= t
               /\ (t - m) \div d = 0
               /\ (t - m) % d = (t - l) % d
<1> DEFINE a == t - l
           q == a \div d
           r == a % d
<1>1. a \in Nat /\ q \in Nat /\ r \in 0..(d - 1) /\ a = (q * d) + r
  OBVIOUS
<1>2. q * d \in Nat
  BY <1>1
<1>3. t - (l + q * d) = r
  BY <1>1, <1>2
<1>4. r \div d = 0 /\ r % d = r
  BY <1>1
<1> QED
  BY <1>1, <1>2, <1>3, <1>4

\* The constants, and the types of what the arithmetic is about.
LEMMA Numbers ==
    ASSUME IInv
    PROVE  /\ Budget \in Nat /\ OrderCost \in Nat \ {0} /\ QueryCost \in Nat \ {0}
           /\ Decay \in Nat \ {0} /\ BackoffTime \in Nat /\ Rate \in Nat
           /\ MaxRestarts \in Nat /\ restarts \in Nat /\ restarts * Budget \in Nat
           /\ now \in Nat /\ current \in Nat /\ last \in Nat /\ backoff \in Nat
           /\ nonce \in Nat /\ meter \in Nat /\ wire \in Nat /\ lateCost \in Nat /\ venueNonce \in Nat /\ phase \in 0..(Decay - 1)
           /\ lastSent \in Int /\ limitedAt \in Int /\ last <= now
           /\ Ticks \in Nat /\ Decayed \in Nat /\ Decayed <= current
<1>1. /\ Budget \in Nat /\ OrderCost \in Nat \ {0} /\ QueryCost \in Nat \ {0}
      /\ Decay \in Nat \ {0} /\ BackoffTime \in Nat /\ Rate \in Nat /\ MaxRestarts \in Nat
  BY CostsAssumption, TimesAssumption, RestartsAssumption
<1>2. /\ now \in Nat /\ current \in Nat /\ last \in Nat /\ backoff \in Nat
      /\ nonce \in Nat /\ meter \in Nat /\ wire \in Nat /\ lateCost \in Nat /\ venueNonce \in Nat /\ phase \in 0..(Decay - 1)
      /\ lastSent \in Int /\ limitedAt \in Int /\ last <= now /\ restarts \in Nat
  BY <1>1 DEF IInv, TypeOK, Past
<1>3. restarts * Budget \in Nat
  BY <1>1, <1>2
<1>4. Ticks \in Nat
  BY <1>1, <1>2, LastTickKeepsRest DEF Ticks
<1>5. Decayed \in Nat /\ Decayed <= current
  BY <1>2, <1>4 DEF Decayed
<1> QED
  BY <1>1, <1>2, <1>3, <1>4, <1>5

\* One summand changes.
LEMMA Resum ==
    ASSUME NEW a \in [Callers -> Nat], NEW s \in Sums, Adds(s, a), NEW c \in Callers, NEW v \in Nat,
           NEW b, b[c] = v, \A d \in Callers \ {c} : b[d] = a[d]
    PROVE  /\ s[Callers] - a[c] \in Nat
           /\ \E t \in Sums : Adds(t, b) /\ t[Callers] = s[Callers] - a[c] + v
<1> DEFINE t == [S \in SUBSET Callers |-> IF c \in S THEN s[S \ {c}] + v ELSE s[S]]
<1>1. \A S \in SUBSET Callers : s[S] \in Nat /\ s[S \ {c}] \in Nat
  BY DEF Sums
<1>2. s[Callers] = s[Callers \ {c}] + a[c]
  <2>1. (Callers \ {c}) \cup {c} = Callers /\ Callers \ {c} \in SUBSET Callers
    OBVIOUS
  <2> QED
    BY <2>1 DEF Adds
<1>3. t \in Sums
  BY <1>1 DEF Sums
<1>4. Adds(t, b)
  <2> SUFFICES ASSUME NEW S \in SUBSET Callers, NEW d \in Callers, d \notin S
               PROVE  t[S \cup {d}] = t[S] + b[d]
    BY DEF Adds
  <2>1. S \cup {d} \in SUBSET Callers
    OBVIOUS
  <2>2. CASE d = c
    <3>1. (S \cup {d}) \ {c} = S /\ c \in S \cup {d} /\ c \notin S
      BY <2>2
    <3> QED
      BY <2>1, <2>2, <3>1
  <2>3. CASE d # c /\ c \in S
    <3>1. (S \cup {d}) \ {c} = (S \ {c}) \cup {d} /\ d \notin S \ {c}
          /\ S \ {c} \in SUBSET Callers
      BY <2>3
    <3>2. s[(S \ {c}) \cup {d}] = s[S \ {c}] + a[d]
      BY <3>1 DEF Adds
    <3>3. t[S \cup {d}] = s[(S \ {c}) \cup {d}] + v /\ t[S] = s[S \ {c}] + v
      BY <2>1, <2>3, <3>1
    <3>4. s[(S \ {c}) \cup {d}] \in Nat /\ s[S \ {c}] \in Nat /\ b[d] = a[d] /\ a[d] \in Nat
      BY <1>1, <2>1, <2>3, <3>1
    <3>5. \A x, y, e \in Nat : x = y + e => x + v = (y + v) + e
      OBVIOUS
    <3> QED
      BY <3>2, <3>3, <3>4, <3>5
  <2>4. CASE d # c /\ c \notin S
    <3>1. c \notin S \cup {d}
      BY <2>4
    <3>2. s[S \cup {d}] = s[S] + a[d]
      BY DEF Adds
    <3> QED
      BY <2>1, <2>4, <3>1, <3>2
  <2> QED
    BY <2>2, <2>3, <2>4
<1>5. t[Callers] = s[Callers \ {c}] + v
  OBVIOUS
<1>6. s[Callers] \in Nat /\ s[Callers \ {c}] \in Nat
  BY <1>1
<1>7. s[Callers] - a[c] = s[Callers \ {c}]
  BY <1>2, <1>6
<1> HIDE DEF t
<1> QED
  BY <1>3, <1>4, <1>5, <1>6, <1>7

\* Nothing on the wire adds up to zero.
LEMMA NothingOnWire ==
    /\ (\A c \in Callers : Loads[c] = 0) /\ wire = 0 => Summed
    /\ (\A c \in Callers : Loads'[c] = 0) /\ wire' = 0 => Summed'
<1> DEFINE s == [S \in SUBSET Callers |-> 0]
<1>1. s \in Sums /\ s[Callers] = 0
  BY DEF Sums
<1>2. ASSUME NEW a, \A c \in Callers : a[c] = 0
      PROVE  Adds(s, a)
  BY <1>2 DEF Adds
<1> HIDE DEF s
<1> QED
  BY <1>1, <1>2 DEF Summed

\* The inductive invariant holds before any call.
LEMMA InitIInv == Init => IInv
<1> SUFFICES ASSUME Init PROVE IInv
  OBVIOUS
<1> USE CostsAssumption, TimesAssumption, RestartsAssumption
<1>1. TypeOK
  <2>1. early \in BOOLEAN
    BY DEF Init
  <2>3. restarts \in 0..MaxRestarts
    BY DEF Init
  <2>2. pc \in [Callers -> Steps] /\ myNonce \in [Callers -> Nat]
        /\ cost \in [Callers -> {OrderCost, QueryCost}]
    BY DEF Init, Steps
  <2> QED
    BY <2>1, <2>2, <2>3 DEF Init, TypeOK
<1>2. Past /\ Backing /\ QuietAfter429 /\ NonceStaleExplained
  BY DEF Init, Past, Backing, QuietAfter429, NonceStaleExplained
<1>3. Metered
  <2>1. Ticks = 0 /\ LimiterAge = 0
    BY DEF Init, Ticks, LimiterAge
  <2>2. VenueAge \in 0..(Decay - 1)
    BY DEF Init, VenueAge
  <2> QED
    BY <2>1, <2>2 DEF Init, Metered, Decayed
<1>4. Nonces
  BY DEF Init, Nonces, Busy, UnderWay
<1>5. Wired
  <2>1. \A c \in Callers : Loads[c] = 0
    BY DEF Init, Loads, Load
  <2> QED
    BY <2>1, NothingOnWire DEF Init, Wired, LateOnWire
<1> QED
  BY <1>1, <1>2, <1>3, <1>4, <1>5 DEF IInv
-----------------------------------------------------------------------------
\* Steps that leave clock, limiter, Kraken's counter and the restarts alone.
LEMMA KeepsTimes ==
    ASSUME IInv, UNCHANGED <<now, limiter, phase, meter, wire, lateCost, lastSent, limitedAt,
                            restarts>>
    PROVE  Past' /\ Backing' /\ QuietAfter429' /\ Metered'
  BY DEF IInv, Past, Backing, QuietAfter429, Metered, VenueAge, LimiterAge, Decayed, Ticks,
     limiter

\* The request of one caller joins or leaves the wire, or what it is worth stays.
LEMMA Rewired ==
    ASSUME IInv, NEW c \in Callers, Load(c)' \in Nat,
           \A d \in Callers \ {c} : pc'[d] = pc[d] /\ cost'[d] = cost[d] /\ (d \in late' <=> d \in late),
           c \in late' => c \in late /\ pc'[c] \in {"sent", "orphan"},
           late' \subseteq Callers,
           wire' = wire - Load(c) + Load(c)'
    PROVE  Wired' /\ wire - Load(c) \in Nat /\ wire' \in Nat
<1>1. Load(c) \in Nat /\ Loads \in [Callers -> Nat]
  BY Numbers DEF IInv, TypeOK, Load, Loads
<1>2. PICK s \in Sums : Adds(s, Loads) /\ s[Callers] = wire
  BY DEF IInv, Wired, Summed
<1>3. \A d \in Callers \ {c} : Load(d)' = Load(d)
  BY DEF Load
<1>4. /\ Loads[c] \in Nat /\ Loads[c] = Load(c) /\ Loads'[c] = Load(c)'
      /\ \A d \in Callers \ {c} : Loads'[d] = Loads[d]
  BY <1>1, <1>3 DEF Loads
<1>5. PICK v \in Nat : v = Load(c)'
  OBVIOUS
<1>6. PICK b : b = Loads'
  OBVIOUS
<1>7. b[c] = v /\ \A d \in Callers \ {c} : b[d] = Loads[d]
  BY <1>4, <1>5, <1>6
<1>8. /\ s[Callers] - Loads[c] \in Nat
      /\ \E t \in Sums : Adds(t, b) /\ t[Callers] = s[Callers] - Loads[c] + v
  BY <1>1, <1>2, <1>7, Resum
<1>9. wire - Load(c) \in Nat /\ wire' \in Nat
  BY <1>2, <1>4, <1>5, <1>8
<1>10. Summed'
  <2>1. PICK t \in Sums : Adds(t, b) /\ t[Callers] = s[Callers] - Loads[c] + v
    BY <1>8
  <2>2. Adds(t, Loads') /\ t[Callers] = wire'
    BY <1>2, <1>4, <1>5, <1>6, <2>1
  <2> QED
    BY <2>2 DEF Summed, Adds, Sums
<1>11. LateOnWire'
  BY DEF IInv, TypeOK, Wired, LateOnWire
<1> QED
  BY <1>9, <1>10, <1>11 DEF Wired

\* Steps of one caller beside the wire.
LEMMA KeepsWire ==
    ASSUME IInv, NEW c \in Callers, pc[c] \notin {"sent", "orphan"},
           pc'[c] \notin {"sent", "orphan"},
           \A d \in Callers \ {c} : pc'[d] = pc[d] /\ cost'[d] = cost[d],
           UNCHANGED delays
    PROVE  Wired'
<1>1. c \notin late
  BY DEF IInv, Wired, LateOnWire
<1>2. late' = late /\ wire' = wire /\ late \subseteq Callers /\ wire \in Nat
  BY DEF IInv, TypeOK, delays
<1>3. Load(c) = 0 /\ Load(c)' = 0
  BY DEF Load
<1>4. wire' = wire - Load(c) + Load(c)'
  BY <1>2, <1>3
<1> QED
  BY <1>1, <1>2, <1>3, <1>4, Rewired

\* A request leaves the wire, whatever becomes of it.
LEMMA OffWireKeeps ==
    ASSUME IInv, NEW c \in Callers, OffWire(c), pc[c] \in {"sent", "orphan"},
           pc'[c] \notin {"sent", "orphan"},
           \A d \in Callers \ {c} : pc'[d] = pc[d] /\ cost'[d] = cost[d]
    PROVE  /\ Wired' /\ wire' \in Nat /\ late' \subseteq Callers
           /\ cost[c] \in Nat
           /\ wire' = IF c \in late THEN wire ELSE wire - cost[c]
<1>1. late' = late \ {c} /\ late \subseteq Callers /\ wire \in Nat /\ cost[c] \in Nat
  BY Numbers DEF IInv, TypeOK, OffWire
<1>2. Load(c)' = 0 /\ Load(c) = IF c \in late THEN 0 ELSE cost[c]
  BY DEF Load
<1>3. wire' = IF c \in late THEN wire ELSE wire - cost[c]
  BY DEF OffWire
<1>4. wire' = wire - Load(c) + Load(c)'
  BY <1>1, <1>2, <1>3
<1> QED
  BY <1>1, <1>2, <1>3, <1>4, Rewired

\* The limiter applies its decay: its count and the age of its tick stay what
\* they were.
LEMMA DecayApplied ==
    ASSUME IInv, last' = LastTick, now' = now, phase' = phase
    PROVE  /\ last' \in Nat /\ last' <= now' /\ Ticks' = 0
           /\ LimiterAge' = LimiterAge /\ VenueAge' = VenueAge
           /\ current' \in Nat => Decayed' = current'
<1>1. /\ LastTick \in Nat /\ LastTick <= now
      /\ (now - LastTick) \div Decay = 0
      /\ (now - LastTick) % Decay = (now - last) % Decay
  BY Numbers, LastTickKeepsRest DEF LastTick, Ticks
<1>2. Ticks' = 0
  BY <1>1 DEF Ticks
<1> QED
  BY <1>1, <1>2 DEF LimiterAge, VenueAge, Decayed

\* A call returns: it holds no nonce and overlaps nothing any more.
LEMMA ReturnNonces ==
    ASSUME IInv, NEW c \in Callers, Return(c), UNCHANGED <<nonce, early>>,
           venueNonce' \in Nat,
           \/ venueNonce' = venueNonce
           \/ pc[c] = "orphan" /\ venueNonce' = myNonce[c]
    PROVE  Nonces' /\ NonceStaleExplained'
<1>1. /\ pc \in [Callers -> Steps] /\ myNonce \in [Callers -> Nat] /\ nonce \in Nat
      /\ venueNonce \in Nat
  BY DEF IInv, TypeOK
<1>2. /\ \A d \in Callers : /\ pc'[d] = IF d = c THEN "idle" ELSE pc[d]
                            /\ myNonce'[d] = IF d = c THEN 0 ELSE myNonce[d]
      /\ overlapped' = overlapped \ {c}
  BY <1>1 DEF Return
<1>3. NonceStaleExplained'
  BY <1>2 DEF IInv, NonceStaleExplained
<1>4. Busy' = Busy \ {c} /\ UnderWay' = UnderWay \ {c} /\ UnderWay \subseteq Busy
  BY <1>2 DEF Busy, UnderWay
<1>5. \A d \in Busy' \ overlapped' : d # c /\ d \in Busy \ overlapped
  BY <1>2, <1>4
<1>6. \A d \in UnderWay' \ overlapped' : d # c /\ d \in UnderWay \ overlapped
  BY <1>2, <1>4
<1>7. \A d \in Busy' \ overlapped' : Busy' = {d}
  BY <1>4, <1>5 DEF IInv, Nonces
<1>8. ASSUME ~ early
      PROVE  /\ venueNonce' <= nonce'
             /\ \A d \in Callers : myNonce'[d] <= nonce'
             /\ \A d \in Busy' \ overlapped' :
                   /\ myNonce'[d] = nonce'
                   /\ \A e \in Callers \ {d} : myNonce'[e] < nonce'
             /\ \A d \in UnderWay' \ overlapped' : venueNonce' < nonce'
  <2>1. /\ venueNonce <= nonce
        /\ \A d \in Callers : myNonce[d] <= nonce
        /\ \A d \in Busy \ overlapped :
              /\ myNonce[d] = nonce
              /\ \A e \in Callers \ {d} : myNonce[e] < nonce
        /\ \A d \in UnderWay \ overlapped : venueNonce < nonce
    BY <1>8 DEF IInv, Nonces
  <2>2. venueNonce' <= nonce' /\ \A d \in Callers : myNonce'[d] <= nonce'
    BY <1>1, <1>2, <2>1
  <2>3. ASSUME NEW d \in Busy' \ overlapped'
        PROVE  myNonce'[d] = nonce' /\ \A e \in Callers \ {d} : myNonce'[e] < nonce'
    <3>1. d # c /\ d \in Callers /\ d \in Busy \ overlapped
      BY <1>5 DEF Busy
    <3>2. myNonce[c] < nonce
      BY <2>1, <3>1
    <3> QED
      BY <1>1, <1>2, <2>1, <3>1, <3>2
  <2>4. ASSUME NEW d \in UnderWay' \ overlapped'
        PROVE  venueNonce' < nonce'
    <3>1. d # c /\ d \in UnderWay \ overlapped /\ d \in Busy \ overlapped
      BY <1>4, <1>6
    <3> QED
      BY <2>1, <3>1
  <2> QED
    BY <2>2, <2>3, <2>4
<1> QED
  BY <1>3, <1>7, <1>8 DEF Nonces

\* A call returns: the types.
LEMMA ReturnType ==
    ASSUME IInv, NEW c \in Callers, Return(c)
    PROVE  /\ pc' \in [Callers -> Steps] /\ cost' \in [Callers -> {OrderCost, QueryCost}]
           /\ myNonce' \in [Callers -> Nat] /\ overlapped' \subseteq Callers
  BY DEF IInv, TypeOK, Return, Steps

\* A call returns: the other calls.
LEMMA ReturnRest ==
    ASSUME IInv, NEW c \in Callers, Return(c)
    PROVE  /\ pc'[c] = "idle"
           /\ \A d \in Callers \ {c} : pc'[d] = pc[d] /\ cost'[d] = cost[d]
  BY DEF IInv, TypeOK, Return
-----------------------------------------------------------------------------
\* doPrivate takes the next nonce: above every other, unless a restart was early.
LEMMA SignIInv ==
    ASSUME IInv, NEW c \in Callers, NEW k \in {OrderCost, QueryCost}, Sign(c, k)
    PROVE  IInv'
<1>0. /\ pc \in [Callers -> Steps] /\ cost \in [Callers -> {OrderCost, QueryCost}]
      /\ myNonce \in [Callers -> Nat] /\ nonce \in Nat /\ venueNonce \in Nat
      /\ overlapped \subseteq Callers
  BY DEF IInv, TypeOK
<1>1. /\ \A d \in Callers : /\ pc'[d] = IF d = c THEN "signed" ELSE pc[d]
                            /\ myNonce'[d] = IF d = c THEN nonce + 1 ELSE myNonce[d]
      /\ pc[c] = "idle" /\ nonce' = nonce + 1 /\ venueNonce' = venueNonce /\ early' = early
      /\ overlapped' = IF Busy = {} THEN {} ELSE Busy \cup {c}
  BY <1>0 DEF Sign, kraken, history, restartVars
<1>2. Busy' = Busy \cup {c} /\ UnderWay' = UnderWay \cup {c}
      /\ UnderWay \subseteq Busy /\ c \notin Busy
  BY <1>1 DEF Busy, UnderWay
<1>3. TypeOK'
  <2>1. pc' \in [Callers -> Steps] /\ cost' \in [Callers -> {OrderCost, QueryCost}]
        /\ myNonce' \in [Callers -> Nat]
    BY <1>0 DEF Sign, Steps
  <2>2. overlapped' \subseteq Callers
    BY <1>0, <1>1 DEF Busy
  <2> QED
    BY <1>0, <1>1, <2>1, <2>2 DEF IInv, TypeOK, Sign, limiter, kraken, delays, history, restartVars
<1>4. Past' /\ Backing' /\ QuietAfter429' /\ Metered'
  BY KeepsTimes DEF Sign, kraken, delays, history, restartVars
<1>8. Wired'
  <2>1. \A d \in Callers \ {c} : cost'[d] = cost[d]
    BY <1>0 DEF Sign
  <2> QED
    BY <1>1, <2>1, KeepsWire DEF Sign
<1>5. \A d \in Busy' \ overlapped' : d = c /\ Busy = {}
  BY <1>1, <1>2
<1>6. Nonces'
  <2>1. \A d \in Busy' \ overlapped' : Busy' = {d}
    BY <1>2, <1>5
  <2>2. ASSUME ~ early
        PROVE  /\ venueNonce <= nonce
               /\ \A d \in Callers : myNonce[d] <= nonce
    BY <2>2 DEF IInv, Nonces
  <2>3. ASSUME ~ early'
        PROVE  /\ venueNonce' <= nonce'
               /\ \A d \in Callers : myNonce'[d] <= nonce'
               /\ \A d \in Busy' \ overlapped' :
                     /\ myNonce'[d] = nonce'
                     /\ \A e \in Callers \ {d} : myNonce'[e] < nonce'
               /\ \A d \in UnderWay' \ overlapped' : venueNonce' < nonce'
    BY <1>0, <1>1, <1>5, <2>2, <2>3
  <2> QED
    BY <2>1, <2>3 DEF Nonces
<1>7. NonceStaleExplained'
  <2> SUFFICES ASSUME NEW d \in Callers, pc'[d] = "stale_nonce"
               PROVE  d \in overlapped' \/ early'
    BY DEF NonceStaleExplained
  <2>1. pc[d] = "stale_nonce" /\ d \in Busy
    BY <1>1 DEF Busy
  <2> QED
    BY <1>1, <2>1
<1> QED
  BY <1>3, <1>4, <1>6, <1>7, <1>8 DEF IInv

\* do() admitted: both counters grow by the cost, within the budget.
LEMMA SendIInv ==
    ASSUME IInv, NEW c \in Callers, Send(c)
    PROVE  IInv'
<1>0. /\ pc \in [Callers -> Steps] /\ cost[c] \in Nat /\ Decayed \in Nat
  BY Numbers DEF IInv, TypeOK
<1>1. /\ last' \in Nat /\ last' <= now' /\ LimiterAge' = LimiterAge /\ VenueAge' = VenueAge
      /\ current' \in Nat /\ Decayed' = current'
  BY <1>0, DecayApplied DEF Send, kraken
<1>6. Wired' /\ wire' \in Nat /\ wire' = wire + cost[c] /\ late' = late /\ lateCost' = lateCost
  <2>1. pc[c] = "signed" /\ wire' = wire + cost[c] /\ UNCHANGED <<late, lateCost, cost>>
    BY DEF Send
  <2>2. pc'[c] = "sent" /\ \A d \in Callers \ {c} : pc'[d] = pc[d] /\ cost'[d] = cost[d]
    BY <1>0, <2>1 DEF Send
  <2>3. c \notin late /\ late \subseteq Callers /\ wire \in Nat
    BY <2>1, Numbers DEF IInv, TypeOK, Wired, LateOnWire
  <2>4. Load(c) = 0 /\ Load(c)' = cost[c]
    BY <2>1, <2>2, <2>3 DEF Load
  <2>5. wire' = wire - Load(c) + Load(c)'
    BY <1>0, <2>1, <2>3, <2>4
  <2> QED
    BY <1>0, <2>1, <2>2, <2>3, <2>4, <2>5, Rewired
<1>2. TypeOK'
  <2>1. pc' \in [Callers -> Steps]
    BY <1>0 DEF Send, Steps
  <2>2. lastSent' \in Int
    BY <1>0, Numbers DEF Send
  <2> QED
    BY <1>1, <1>6, <2>1, <2>2 DEF IInv, TypeOK, Send, kraken, restartVars
<1>3. Past' /\ Backing' /\ QuietAfter429'
  BY <1>1, Numbers DEF IInv, Past, Backing, QuietAfter429, Send, WaitAdmits
<1>4. Metered'
  <2>1. meter + wire <= lateCost + restarts * Budget + Decayed
                          + (IF VenueAge < LimiterAge THEN 0 ELSE 1)
    BY DEF IInv, Metered
  <2>2. current' = Decayed + cost[c] /\ meter' = meter /\ restarts' = restarts
        /\ current' <= Budget
    BY DEF Send, WaitAdmits, kraken, restartVars
  <2> QED
    BY <1>0, <1>1, <1>6, <2>1, <2>2, Numbers DEF Metered
<1>5. Nonces' /\ NonceStaleExplained'
  <2>1. \A d \in Callers : pc'[d] = IF d = c THEN "sent" ELSE pc[d]
    BY <1>0 DEF Send
  <2>2. pc[c] = "signed" /\ UNCHANGED <<nonce, myNonce, overlapped, venueNonce, early>>
    BY DEF Send, kraken, restartVars
  <2>3. Busy' = Busy /\ UnderWay' = UnderWay
    BY <2>1, <2>2 DEF Busy, UnderWay
  <2> QED
    BY <2>1, <2>2, <2>3 DEF IInv, Nonces, NonceStaleExplained
<1> QED
  BY <1>2, <1>3, <1>4, <1>5, <1>6 DEF IInv

\* do() turned away: the decay is applied and the call returns.
LEMMA LimitedIInv ==
    ASSUME IInv, NEW c \in Callers, Limited(c)
    PROVE  IInv'
<1>1. /\ last' \in Nat /\ last' <= now' /\ LimiterAge' = LimiterAge /\ VenueAge' = VenueAge
      /\ current' \in Nat /\ Decayed' = current' /\ current' = Decayed
  BY Numbers, DecayApplied DEF Limited, kraken
<1>2. Return(c)
  BY DEF Limited
<1>3. TypeOK'
  BY <1>1, <1>2, ReturnType DEF IInv, TypeOK, Limited, kraken, delays, history, restartVars
<1>4. Past' /\ Backing' /\ QuietAfter429'
  BY <1>1 DEF IInv, Past, Backing, QuietAfter429, Limited, history
<1>5. Metered'
  <2>1. current <= Budget
        /\ meter + wire <= lateCost + restarts * Budget + Decayed
                             + (IF VenueAge < LimiterAge THEN 0 ELSE 1)
    BY DEF IInv, Metered
  <2>2. meter' = meter /\ wire' = wire /\ lateCost' = lateCost /\ restarts' = restarts
    BY DEF Limited, kraken, delays, history, restartVars
  <2> QED
    BY <1>1, <2>1, <2>2, Numbers DEF Metered
<1>6. Nonces' /\ NonceStaleExplained'
  <2>1. UNCHANGED <<nonce, early, venueNonce>>
    BY DEF Limited, kraken, history, restartVars
  <2> QED
    BY <1>2, <2>1, Numbers, ReturnNonces
<1>7. Wired'
  BY <1>2, ReturnRest, KeepsWire DEF Limited
<1> QED
  BY <1>3, <1>4, <1>5, <1>6, <1>7 DEF IInv

\* Kraken charges its counter: what was on the wire, or late, is now in the counter.
LEMMA ChargeKeeps ==
    ASSUME IInv, NEW c \in Callers, Charge(c), pc[c] \in {"sent", "orphan"},
           pc'[c] \notin {"sent", "orphan"},
           \A d \in Callers \ {c} : pc'[d] = pc[d] /\ cost'[d] = cost[d],
           UNCHANGED <<now, limiter, phase, lastSent, limitedAt, restarts>>
    PROVE  /\ Past' /\ Backing' /\ QuietAfter429' /\ Metered' /\ Wired'
           /\ meter' \in Nat /\ wire' \in Nat /\ late' \subseteq Callers /\ lateCost' \in Nat
<1>1. /\ Wired' /\ wire' \in Nat /\ late' \subseteq Callers /\ cost[c] \in Nat
      /\ wire' = IF c \in late THEN wire ELSE wire - cost[c]
  BY OffWireKeeps DEF Charge
<1>2. /\ meter' = meter + cost[c]
      /\ lateCost' = IF c \in late THEN lateCost + cost[c] ELSE lateCost
  BY DEF Charge
<1>3. Past' /\ Backing' /\ QuietAfter429'
  BY DEF IInv, Past, Backing, QuietAfter429, limiter
<1>4. meter' \in Nat /\ lateCost' \in Nat
  BY <1>1, <1>2, Numbers
<1>5. Metered'
  <2>1. /\ current <= Budget
        /\ meter + wire <= lateCost + restarts * Budget + Decayed
                             + (IF VenueAge < LimiterAge THEN 0 ELSE 1)
    BY DEF IInv, Metered
  <2>2. /\ current' = current /\ restarts' = restarts /\ Decayed' = Decayed
        /\ VenueAge' = VenueAge /\ LimiterAge' = LimiterAge
    BY DEF limiter, Decayed, Ticks, VenueAge, LimiterAge
  <2>3. meter' + wire' = meter + wire + (lateCost' - lateCost)
    BY <1>1, <1>2, Numbers
  <2> QED
    BY <1>1, <1>4, <2>1, <2>2, <2>3, Numbers DEF Metered
<1> QED
  BY <1>1, <1>3, <1>4, <1>5

\* A request reaches Kraken: it is refused for its nonce only if it overlapped
\* another call or a restart was early.
LEMMA ArriveIInv ==
    ASSUME IInv, NEW c \in Callers, Arrive(c)
    PROVE  IInv'
<1>0. /\ pc \in [Callers -> Steps] /\ myNonce \in [Callers -> Nat] /\ nonce \in Nat
      /\ venueNonce \in Nat
  BY DEF IInv, TypeOK
<1>1. /\ pc[c] = "sent" /\ UNCHANGED <<nonce, myNonce, overlapped, early>>
      /\ \A d \in Callers : d # c => pc'[d] = pc[d]
      /\ IF myNonce[c] > venueNonce
           THEN venueNonce' = myNonce[c] /\ pc'[c] = "arrived"
           ELSE venueNonce' = venueNonce /\ pc'[c] = "stale_nonce"
  BY <1>0 DEF Arrive, history, restartVars
<1>2. Busy' = Busy /\ UnderWay' = UnderWay \ {c} /\ c \in UnderWay /\ c \in Busy
      /\ UnderWay \subseteq Busy
  BY <1>1 DEF Busy, UnderWay
<1>7. /\ Charge(c) /\ pc'[c] \notin {"sent", "orphan"} /\ pc[c] \in {"sent", "orphan"}
      /\ \A d \in Callers \ {c} : pc'[d] = pc[d] /\ cost'[d] = cost[d]
      /\ UNCHANGED <<now, limiter, phase, lastSent, limitedAt, restarts>>
  BY <1>1 DEF Arrive, history, restartVars
<1>4. /\ Past' /\ Backing' /\ QuietAfter429' /\ Metered' /\ Wired'
      /\ meter' \in Nat /\ wire' \in Nat /\ late' \subseteq Callers /\ lateCost' \in Nat
  BY <1>7, ChargeKeeps
<1>3. TypeOK'
  <2>1. pc' \in [Callers -> Steps] /\ venueNonce' \in Nat
    BY <1>0 DEF Arrive, Steps
  <2> QED
    BY <1>4, <2>1 DEF IInv, TypeOK, Arrive, limiter, history, restartVars
<1>5. Nonces'
  <2>1. \A d \in Busy' \ overlapped' : Busy' = {d}
    BY <1>1, <1>2 DEF IInv, Nonces
  <2>2. ASSUME ~ early
        PROVE  /\ venueNonce' <= nonce'
               /\ \A d \in Callers : myNonce'[d] <= nonce'
               /\ \A d \in Busy' \ overlapped' :
                     /\ myNonce'[d] = nonce'
                     /\ \A e \in Callers \ {d} : myNonce'[e] < nonce'
               /\ \A d \in UnderWay' \ overlapped' : venueNonce' < nonce'
    <3>1. /\ venueNonce <= nonce
          /\ \A d \in Callers : myNonce[d] <= nonce
          /\ \A d \in Busy \ overlapped :
                /\ myNonce[d] = nonce
                /\ \A e \in Callers \ {d} : myNonce[e] < nonce
      BY <2>2 DEF IInv, Nonces
    <3>2. UnderWay' \ overlapped' = {}
      BY <1>1, <1>2, <2>1
    <3> QED
      BY <1>0, <1>1, <1>2, <3>1, <3>2
  <2> QED
    BY <1>1, <2>1, <2>2 DEF Nonces
<1>6. NonceStaleExplained'
  <2>1. ASSUME c \notin overlapped, ~ early
        PROVE  myNonce[c] > venueNonce
    BY <1>0, <1>2, <2>1 DEF IInv, Nonces
  <2> QED
    BY <1>1, <2>1 DEF IInv, NonceStaleExplained
<1> QED
  BY <1>3, <1>4, <1>5, <1>6 DEF IInv

\* An answer is read, whatever it says but 429 or 418.
LEMMA RespondIInv ==
    ASSUME IInv, NEW c \in Callers, RespondOk(c) \/ RespondBadNonce(c) \/ RespondFailed(c)
    PROVE  IInv'
<1>1. /\ Return(c) /\ UNCHANGED <<now, limiter, nonce, kraken, delays, history>>
      /\ pc[c] \notin {"sent", "orphan"}
  BY DEF RespondOk, RespondBadNonce, RespondFailed
<1>2. TypeOK'
  BY <1>1, ReturnType DEF IInv, TypeOK, limiter, kraken, delays, history, restartVars
<1>3. Past' /\ Backing' /\ QuietAfter429' /\ Metered'
  BY <1>1, KeepsTimes DEF kraken, delays, history, restartVars
<1>4. Nonces' /\ NonceStaleExplained'
  <2>1. UNCHANGED <<nonce, early, venueNonce>>
    BY <1>1 DEF kraken, history, restartVars
  <2> QED
    BY <1>1, <2>1, Numbers, ReturnNonces
<1>5. Wired'
  BY <1>1, ReturnRest, KeepsWire
<1> QED
  BY <1>2, <1>3, <1>4, <1>5 DEF IInv

\* A 429 or 418: nothing was sent later, and nothing is until the backoff ends.
LEMMA RespondThrottledIInv ==
    ASSUME IInv, NEW c \in Callers, RespondThrottled(c)
    PROVE  IInv'
<1>1. Return(c)
  BY DEF RespondThrottled
<1>6. Wired' /\ wire' \in Nat /\ wire' <= wire /\ late' \subseteq Callers
  <2>1. CASE pc[c] = "sent"
    <3>1. OffWire(c)
      BY <2>1 DEF RespondThrottled
    <3>2. /\ Wired' /\ wire' \in Nat /\ late' \subseteq Callers /\ cost[c] \in Nat
          /\ wire' = IF c \in late THEN wire ELSE wire - cost[c]
      BY <1>1, <2>1, <3>1, ReturnRest, OffWireKeeps
    <3> QED
      BY <3>2, Numbers
  <2>2. CASE pc[c] # "sent"
    <3>1. UNCHANGED delays /\ pc[c] = "arrived"
      BY <2>2 DEF RespondThrottled, delays
    <3> QED
      BY <1>1, <3>1, ReturnRest, KeepsWire, Numbers DEF IInv, TypeOK, delays
  <2> QED
    BY <2>1, <2>2
<1>2. TypeOK'
  <2>1. backoff' \in Nat /\ limitedAt' \in Int
    BY Numbers DEF RespondThrottled
  <2> QED
    BY <1>1, <1>6, <2>1, ReturnType DEF IInv, TypeOK, RespondThrottled, kraken, restartVars
<1>3. Past' /\ Backing' /\ QuietAfter429'
  BY Numbers DEF IInv, Past, Backing, QuietAfter429, RespondThrottled
<1>4. Metered'
  <2>1. /\ current <= Budget
        /\ meter + wire <= lateCost + restarts * Budget + Decayed
                             + (IF VenueAge < LimiterAge THEN 0 ELSE 1)
    BY DEF IInv, Metered
  <2>2. /\ current' = current /\ restarts' = restarts /\ Decayed' = Decayed
        /\ VenueAge' = VenueAge /\ LimiterAge' = LimiterAge
        /\ meter' = meter /\ lateCost' = lateCost
    BY DEF Decayed, Ticks, VenueAge, LimiterAge, RespondThrottled, kraken, restartVars
  <2> QED
    BY <1>6, <2>1, <2>2, Numbers DEF Metered
<1>5. Nonces' /\ NonceStaleExplained'
  <2>1. UNCHANGED <<nonce, early, venueNonce>>
    BY DEF RespondThrottled, kraken, restartVars
  <2> QED
    BY <1>1, <2>1, Numbers, ReturnNonces
<1> QED
  BY <1>2, <1>3, <1>4, <1>5, <1>6 DEF IInv

\* A call ends before its request arrives, which stays on the wire with its nonce.
LEMMA GiveUpIInv ==
    ASSUME IInv, NEW c \in Callers, GiveUp(c)
    PROVE  IInv'
<1>0. pc \in [Callers -> Steps] /\ overlapped \subseteq Callers
  BY DEF IInv, TypeOK
<1>1. /\ pc[c] = "sent" /\ overlapped' = overlapped \ {c}
      /\ \A d \in Callers : pc'[d] = IF d = c THEN "orphan" ELSE pc[d]
      /\ UNCHANGED <<nonce, myNonce, venueNonce, early>>
  BY <1>0 DEF GiveUp, kraken, history, restartVars
<1>2. Busy' = Busy \ {c} /\ UnderWay' = UnderWay \ {c} /\ c \in Busy /\ UnderWay \subseteq Busy
  BY <1>1 DEF Busy, UnderWay
<1>3. Busy' \ overlapped' = {}
  <2>1. ASSUME NEW d \in Busy' \ overlapped' PROVE FALSE
    <3>1. d \in Busy \ overlapped /\ d # c
      BY <1>1, <1>2
    <3>2. Busy = {d}
      BY <3>1 DEF IInv, Nonces
    <3> QED
      BY <1>2, <3>1, <3>2
  <2> QED
    BY <2>1
<1>4. Nonces'
  BY <1>1, <1>2, <1>3 DEF IInv, Nonces
<1>5. NonceStaleExplained'
  BY <1>1 DEF IInv, NonceStaleExplained
<1>6. TypeOK'
  <2>1. pc' \in [Callers -> Steps] /\ overlapped' \subseteq Callers
    BY <1>0, <1>1 DEF GiveUp, Steps
  <2> QED
    BY <2>1 DEF IInv, TypeOK, GiveUp, limiter, kraken, delays, history, restartVars
<1>7. Past' /\ Backing' /\ QuietAfter429' /\ Metered'
  BY KeepsTimes DEF GiveUp, kraken, delays, history, restartVars
<1>8. Wired'
  <2>1. cost' = cost /\ late' = late /\ wire' = wire
    BY DEF GiveUp, delays
  <2>2. Load(c)' = Load(c)
    BY <1>1, <2>1 DEF Load
  <2>3. Load(c) \in Nat /\ wire \in Nat /\ late \subseteq Callers
    BY Numbers DEF IInv, TypeOK, Load
  <2>4. wire' = wire - Load(c) + Load(c)'
    BY <2>1, <2>2, <2>3
  <2> QED
    BY <1>1, <2>1, <2>2, <2>3, <2>4, Rewired
<1> QED
  BY <1>4, <1>5, <1>6, <1>7, <1>8 DEF IInv

\* A request nobody waits for arrives.
LEMMA OrphanArrivesIInv ==
    ASSUME IInv, NEW c \in Callers, OrphanArrives(c)
    PROVE  IInv'
<1>1. /\ Return(c) /\ Charge(c) /\ pc[c] = "orphan"
      /\ UNCHANGED <<now, limiter, nonce, phase, history>>
  BY DEF OrphanArrives
<1>2. venueNonce' = venueNonce \/ (pc[c] = "orphan" /\ venueNonce' = myNonce[c])
  BY DEF OrphanArrives
<1>3. venueNonce' \in Nat
  BY <1>2 DEF IInv, TypeOK
<1>5. /\ Past' /\ Backing' /\ QuietAfter429' /\ Metered' /\ Wired'
      /\ meter' \in Nat /\ wire' \in Nat /\ late' \subseteq Callers /\ lateCost' \in Nat
  <2>1. UNCHANGED <<lastSent, limitedAt, restarts>>
    BY <1>1 DEF history, restartVars
  <2> QED
    BY <1>1, <2>1, ReturnRest, ChargeKeeps
<1>4. TypeOK'
  BY <1>1, <1>3, <1>5, ReturnType DEF IInv, TypeOK, limiter, history, restartVars
<1>6. Nonces' /\ NonceStaleExplained'
  <2>1. UNCHANGED <<nonce, early>>
    BY <1>1 DEF history, restartVars
  <2> QED
    BY <1>1, <1>2, <1>3, <2>1, ReturnNonces
<1> QED
  BY <1>4, <1>5, <1>6 DEF IInv

\* A request nobody waits for is lost.
LEMMA OrphanLostIInv ==
    ASSUME IInv, NEW c \in Callers, OrphanLost(c)
    PROVE  IInv'
<1>1. /\ Return(c) /\ OffWire(c) /\ pc[c] = "orphan"
      /\ UNCHANGED <<now, limiter, nonce, kraken, lateCost, history>>
  BY DEF OrphanLost
<1>2. /\ Wired' /\ wire' \in Nat /\ late' \subseteq Callers /\ cost[c] \in Nat
      /\ wire' = IF c \in late THEN wire ELSE wire - cost[c]
  BY <1>1, ReturnRest, OffWireKeeps
<1>3. TypeOK'
  BY <1>1, <1>2, ReturnType DEF IInv, TypeOK, limiter, kraken, history, restartVars
<1>4. Past' /\ Backing' /\ QuietAfter429'
  BY <1>1 DEF IInv, Past, Backing, QuietAfter429, limiter, history
<1>5. Metered'
  <2>1. /\ current <= Budget
        /\ meter + wire <= lateCost + restarts * Budget + Decayed
                             + (IF VenueAge < LimiterAge THEN 0 ELSE 1)
    BY DEF IInv, Metered
  <2>2. /\ current' = current /\ restarts' = restarts /\ Decayed' = Decayed
        /\ VenueAge' = VenueAge /\ LimiterAge' = LimiterAge
        /\ meter' = meter /\ lateCost' = lateCost
    BY <1>1 DEF limiter, Decayed, Ticks, VenueAge, LimiterAge, kraken, history, restartVars
  <2>3. wire' <= wire
    BY <1>2, Numbers
  <2> QED
    BY <1>2, <2>1, <2>2, <2>3, Numbers DEF Metered
<1>6. Nonces' /\ NonceStaleExplained'
  <2>1. UNCHANGED <<nonce, early, venueNonce>>
    BY <1>1 DEF kraken, history, restartVars
  <2> QED
    BY <1>1, <2>1, Numbers, ReturnNonces
<1> QED
  BY <1>2, <1>3, <1>4, <1>5, <1>6 DEF IInv

\* A new process: the limiter forgets at most a budget, and the nonces go on
\* above the old ones or the restart was early.
LEMMA RestartIInv ==
    ASSUME IInv, Restart
    PROVE  IInv'
<1>0. /\ pc \in [Callers -> Steps] /\ myNonce \in [Callers -> Nat]
  BY DEF IInv, TypeOK
<1>1. /\ \A d \in Callers : /\ pc'[d] \in {"orphan", "idle"}
                            /\ pc'[d] = "orphan" => myNonce'[d] = myNonce[d]
                            /\ pc'[d] # "orphan" => myNonce'[d] = 0
      /\ venueNonce' = venueNonce /\ overlapped' = {}
  BY <1>0 DEF Restart, kraken
<1>2. nonce' = now * Rate /\ nonce' \in Nat
  BY Numbers DEF Restart
<1>3. TypeOK'
  <2>1. pc' \in [Callers -> Steps]
    BY DEF Restart, Steps
  <2>7. cost' \in [Callers -> {OrderCost, QueryCost}]
    <3>1. cost' = [d \in Callers |-> IF pc'[d] = "orphan" THEN cost[d] ELSE QueryCost]
      BY DEF Restart
    <3>2. cost \in [Callers -> {OrderCost, QueryCost}]
      BY DEF IInv, TypeOK
    <3> QED
      BY <3>1, <3>2
  <2>2. myNonce' = [d \in Callers |-> IF pc'[d] = "orphan" THEN myNonce[d] ELSE 0]
    BY DEF Restart
  <2>3. myNonce' \in [Callers -> Nat]
    BY <1>0, <2>2
  <2>4. restarts' \in 0..MaxRestarts
    BY Numbers DEF Restart
  <2>5. early' \in BOOLEAN
    BY DEF Restart
  <2>6. current' \in Nat /\ last' \in Nat /\ backoff' \in Nat /\ limitedAt' \in Int
        /\ overlapped' \subseteq Callers
    BY Numbers DEF Restart
  <2> QED
    BY <1>2, <2>1, <2>3, <2>4, <2>5, <2>6, <2>7 DEF IInv, TypeOK, Restart, kraken, delays
<1>4. Past' /\ Backing' /\ QuietAfter429'
  BY Numbers DEF IInv, Past, Backing, QuietAfter429, Restart
<1>5. Metered'
  <2>1. current <= Budget
        /\ meter + wire <= lateCost + restarts * Budget + Decayed
                             + (IF VenueAge < LimiterAge THEN 0 ELSE 1)
    BY DEF IInv, Metered
  <2>2. meter + wire <= lateCost + restarts * Budget + Budget + 1
    BY <2>1, Numbers
  <2>3. /\ meter' = meter /\ wire' = wire /\ lateCost' = lateCost /\ restarts' = restarts + 1 /\ current' = 0 /\ last' = now
        /\ now' = now /\ phase' = phase
    BY DEF Restart, kraken, delays
  <2>4. LimiterAge' = 0 /\ VenueAge' \in 0..(Decay - 1) /\ Decayed' = 0
    <3>1. Decay \in Nat \ {0} /\ now \in Nat /\ now - phase \in Int /\ now - now = 0
      BY Numbers
    <3>2. 0 \div Decay = 0 /\ 0 % Decay = 0
      BY <3>1
    <3>3. (now - phase) % Decay \in 0..(Decay - 1)
      BY <3>1
    <3>4. Ticks' = 0
      BY <2>3, <3>1, <3>2 DEF Ticks
    <3> QED
      BY <2>3, <3>1, <3>2, <3>3, <3>4 DEF LimiterAge, VenueAge, Decayed
  <2>5. restarts' * Budget = restarts * Budget + Budget
    BY <2>3, Numbers
  <2> QED
    BY <2>2, <2>3, <2>4, <2>5, Numbers DEF Metered
<1>6. Busy' = {} /\ UnderWay' = {}
  BY <1>1 DEF Busy, UnderWay
<1>7. ASSUME ~ early'
      PROVE  venueNonce' <= nonce' /\ \A d \in Callers : myNonce'[d] <= nonce'
  <2>1. ~ early /\ ~ (nonce > now * Rate)
    BY <1>7 DEF Restart
  <2>2. venueNonce <= nonce /\ \A d \in Callers : myNonce[d] <= nonce
    BY <2>1 DEF IInv, Nonces
  <2>3. nonce <= nonce'
    BY <1>2, <2>1, Numbers
  <2> QED
    BY <1>0, <1>1, <1>2, <2>2, <2>3, Numbers
<1>8. Nonces' /\ NonceStaleExplained'
  BY <1>1, <1>6, <1>7 DEF Nonces, NonceStaleExplained
<1>9. Wired'
  <2>1. \A d \in Callers :
           /\ pc[d] \in {"sent", "orphan"} => pc'[d] = "orphan" /\ cost'[d] = cost[d]
           /\ pc[d] \notin {"sent", "orphan"} => pc'[d] = "idle"
    BY DEF Restart
  <2>2. late' = late /\ wire' = wire /\ late \subseteq Callers
    BY DEF Restart, delays, IInv, TypeOK
  <2>3. \A d \in Callers : Load(d)' = Load(d)
    BY <2>1, <2>2 DEF Load
  <2>4. Loads' = Loads
    BY <2>3 DEF Loads
  <2>5. LateOnWire'
    BY <2>1, <2>2 DEF IInv, Wired, LateOnWire
  <2> QED
    BY <2>2, <2>4, <2>5 DEF IInv, Wired, Summed, Adds, Sums
<1> QED
  BY <1>3, <1>4, <1>5, <1>8, <1>9 DEF IInv

\* The clock moves: within each period of the limiter Kraken ticks once.
LEMMA AgesMove ==
    ASSUME IInv, now' = now + 1, UNCHANGED <<limiter, phase>>
    PROVE  /\ LimiterAge \in 0..(Decay - 1) /\ VenueAge \in 0..(Decay - 1)
           /\ LimiterAge' = IF LimiterAge = Decay - 1 THEN 0 ELSE LimiterAge + 1
           /\ VenueAge' = IF VenueAge = Decay - 1 THEN 0 ELSE VenueAge + 1
           /\ now' % Decay = phase <=> VenueAge' = 0
           /\ Decayed' = IF LimiterAge = Decay - 1 /\ Decayed > 0 THEN Decayed - 1 ELSE Decayed
<1>1. current' = current /\ last' = last /\ phase' = phase
  BY DEF limiter
<1>3. /\ LimiterAge \in 0..(Decay - 1)
      /\ LimiterAge' = IF LimiterAge = Decay - 1 THEN 0 ELSE LimiterAge + 1
      /\ Ticks' = IF LimiterAge = Decay - 1 THEN Ticks + 1 ELSE Ticks
  <2>1. now - last \in Int /\ (now + 1) - last = (now - last) + 1
    BY Numbers
  <2> QED
    BY <1>1, <2>1, Numbers, OneMore DEF LimiterAge, Ticks
<1>4. /\ VenueAge \in 0..(Decay - 1)
      /\ VenueAge' = IF VenueAge = Decay - 1 THEN 0 ELSE VenueAge + 1
  <2>1. now - phase \in Int /\ (now + 1) - phase = (now - phase) + 1
    BY Numbers
  <2> QED
    BY <1>1, <2>1, Numbers, OneMore DEF VenueAge
<1>5. now' % Decay = phase <=> VenueAge' = 0
  <2>1. Decay \in Nat \ {0} /\ now' \in Int /\ phase \in 0..(Decay - 1)
    BY Numbers
  <2>2. now' % Decay = phase <=> (now' - phase) % Decay = 0
    BY <2>1, TickAtPhase
  <2> QED
    BY <1>1, <2>2 DEF VenueAge
<1>6. Decayed' = IF LimiterAge = Decay - 1 /\ Decayed > 0 THEN Decayed - 1 ELSE Decayed
  BY <1>1, <1>3, Numbers DEF Decayed
<1> QED
  BY <1>3, <1>4, <1>5, <1>6

\* Until Kraken ticks, the limiter's tick takes the one back that Kraken is ahead.
LEMMA AgesCompared ==
    ASSUME NEW d \in Nat \ {0}, NEW l \in 0..(d - 1), NEW v \in 0..(d - 1), NEW x \in Nat,
           v # d - 1
    PROVE  LET l1 == IF l = d - 1 THEN 0 ELSE l + 1
               v1 == IF v = d - 1 THEN 0 ELSE v + 1
               x1 == IF l = d - 1 /\ x > 0 THEN x - 1 ELSE x
           IN  x + (IF v < l THEN 0 ELSE 1) <= x1 + (IF v1 < l1 THEN 0 ELSE 1)
  OBVIOUS

\* The clock moves and Kraken's counter stays, or it decays, what is on the wire
\* becomes late, and an empty counter forgets what was late.
LEMMA TickIInv ==
    ASSUME IInv, Tick \/ DecayTick
    PROVE  IInv'
<1>1. UNCHANGED <<limiter, nonce, callVars, phase, venueNonce, history>> /\ now' = now + 1
  BY DEF Tick, DecayTick, kraken
<1>2. TypeOK'
  <2>1. now' \in Nat /\ meter' \in Nat /\ wire' \in Nat /\ lateCost' \in Nat
    BY Numbers DEF Tick, DecayTick, kraken, delays
  <2>2. late' \subseteq Callers
    BY DEF IInv, TypeOK, Tick, DecayTick, delays
  <2> QED
    BY <1>1, <2>1, <2>2 DEF IInv, TypeOK, limiter, callVars, history, restartVars
<1>3. Past' /\ Backing' /\ QuietAfter429'
  BY <1>1, Numbers DEF IInv, Past, Backing, QuietAfter429, limiter, history
<1>4. Metered'
  <2> DEFINE R == restarts * Budget
  <2>1. current' = current /\ restarts' = restarts
    BY <1>1 DEF limiter, history, restartVars
  <2>2. current <= Budget
        /\ meter + wire <= lateCost + R + Decayed + (IF VenueAge < LimiterAge THEN 0 ELSE 1)
    BY DEF IInv, Metered
  <2>3. /\ LimiterAge \in 0..(Decay - 1) /\ VenueAge \in 0..(Decay - 1)
        /\ LimiterAge' = IF LimiterAge = Decay - 1 THEN 0 ELSE LimiterAge + 1
        /\ VenueAge' = IF VenueAge = Decay - 1 THEN 0 ELSE VenueAge + 1
        /\ now' % Decay = phase <=> VenueAge' = 0
        /\ Decayed' = IF LimiterAge = Decay - 1 /\ Decayed > 0 THEN Decayed - 1 ELSE Decayed
    BY <1>1, AgesMove
  <2> HIDE DEF R
  <2>4. R \in Nat /\ R' = R
    BY <2>1, Numbers DEF R
  <2>5. CASE Tick
    <3>1. VenueAge' # 0 /\ meter' = meter /\ wire' = wire /\ lateCost' = lateCost
      BY <2>3, <2>5 DEF Tick, kraken, delays
    <3>2. Decayed + (IF VenueAge < LimiterAge THEN 0 ELSE 1)
            <= Decayed' + (IF VenueAge' < LimiterAge' THEN 0 ELSE 1)
      <4>1. Decay \in Nat \ {0} /\ Decayed \in Nat
        BY Numbers
      <4> QED
        BY <2>3, <3>1, <4>1, AgesCompared
    <3>3. Decayed' \in Nat
      BY <2>3, Numbers
    <3>4. meter' + wire' <= lateCost' + R + Decayed' + (IF VenueAge' < LimiterAge' THEN 0 ELSE 1)
      BY <2>2, <2>4, <3>1, <3>2, <3>3, Numbers
    <3> QED
      BY <2>1, <2>2, <2>4, <3>4 DEF Metered, R
  <2>6. CASE DecayTick
    <3>1. /\ VenueAge' = 0 /\ meter' = IF meter > 0 THEN meter - 1 ELSE 0
          /\ wire' = 0 /\ lateCost' = IF meter' = 0 THEN 0 ELSE lateCost
      BY <2>3, <2>6 DEF DecayTick
    <3>2. meter' + wire' <= lateCost' + R + Decayed' + (IF VenueAge' < LimiterAge' THEN 0 ELSE 1)
      BY <2>2, <2>3, <2>4, <3>1, Numbers
    <3> QED
      BY <2>1, <2>2, <2>4, <3>2 DEF Metered, R
  <2> QED
    BY <2>5, <2>6
<1>5. Nonces' /\ NonceStaleExplained'
  BY <1>1 DEF IInv, Nonces, NonceStaleExplained, Busy, UnderWay, callVars, history, restartVars
<1>6. Wired'
  <2>1. pc' = pc /\ cost' = cost
    BY <1>1 DEF callVars
  <2>2. CASE Tick
    <3>1. late' = late /\ wire' = wire
      BY <2>2 DEF Tick, delays
    <3>2. Loads' = Loads
      BY <2>1, <3>1 DEF Loads, Load
    <3> QED
      BY <2>1, <3>1, <3>2 DEF IInv, Wired, LateOnWire, Summed, Adds, Sums
  <2>3. CASE DecayTick
    <3>1. late' = late \cup {c \in Callers : pc[c] \in {"sent", "orphan"}} /\ wire' = 0
      BY <2>3 DEF DecayTick
    <3>2. \A c \in Callers : Loads'[c] = 0
      BY <2>1, <3>1 DEF Loads, Load
    <3>3. LateOnWire'
      BY <2>1, <3>1 DEF IInv, Wired, LateOnWire
    <3> QED
      BY <3>1, <3>2, <3>3, NothingOnWire DEF Wired
  <2> QED
    BY <2>2, <2>3
<1> QED
  BY <1>2, <1>3, <1>4, <1>5, <1>6 DEF IInv

\* Every step of callers, Kraken, clock and process keeps the inductive invariant.
LEMMA StepIInv == IInv /\ [Next]_vars => IInv'
<1> SUFFICES ASSUME IInv, [Next]_vars PROVE IInv'
  OBVIOUS
<1>1. ASSUME NEW c \in Callers, Calls(c) PROVE IInv'
  BY <1>1, SignIInv DEF Calls, PlaceOrder, CancelOrder, GetOrder, GetFills, GetBalances
<1>2. ASSUME NEW c \in Callers, Progress(c) PROVE IInv'
  BY <1>2, SendIInv, LimitedIInv, ArriveIInv, RespondIInv, RespondThrottledIInv,
     GiveUpIInv, OrphanArrivesIInv, OrphanLostIInv DEF Progress
<1>3. CASE UNCHANGED vars
  <2>1. TypeOK'
    BY <1>3 DEF IInv, TypeOK, vars, limiter, callVars, kraken, delays, history, restartVars
  <2>2. Past' /\ Backing' /\ QuietAfter429' /\ Metered'
    BY <1>3, KeepsTimes DEF vars, kraken, delays, history, restartVars
  <2>3. Nonces' /\ NonceStaleExplained'
    BY <1>3 DEF IInv, Nonces, NonceStaleExplained, Busy, UnderWay, vars, callVars, kraken,
       history, restartVars
  <2>4. pc' = pc /\ cost' = cost /\ late' = late /\ wire' = wire
    BY <1>3 DEF vars, callVars, delays
  <2>5. Wired'
    BY <2>4 DEF IInv, Wired, LateOnWire, Summed, Adds, Sums, Loads, Load
  <2> QED
    BY <2>1, <2>2, <2>3, <2>5 DEF IInv
<1> QED
  BY <1>1, <1>2, <1>3, TickIInv, RestartIInv DEF Next

\* The inductive invariant holds of every behaviour.
LEMMA Inductive == Spec => []IInv
  BY InitIInv, StepIInv, PTL DEF Spec
-----------------------------------------------------------------------------
\* Type correctness of the connector, its CounterLimiter and its nonces
\* (kraken.go:55-116, ratelimit.go:108-163).
THEOREM TypeCorrect == Spec => []TypeOK
<1>1. IInv => TypeOK
  BY DEF IInv
<1> QED
  BY <1>1, Inductive, PTL

\* A counter of CounterLimiter's rule at Kraken, charged on arrival, whatever the
\* offset between the two, exceeds the budget by at most one, by a budget more for
\* each restart of the process, and by the cost of the requests that were on the
\* wire over one of its ticks (ratelimit.go:116-155).
THEOREM Meter == Spec => []MeterBound
<1>1. IInv => MeterBound
  <2> SUFFICES ASSUME IInv PROVE MeterBound
    OBVIOUS
  <2>1. meter + wire <= lateCost + restarts * Budget + Budget + 1
    BY Numbers DEF IInv, Metered
  <2>2. (restarts + 1) * Budget = restarts * Budget + Budget
    BY Numbers
  <2> QED
    BY <2>1, <2>2, Numbers DEF MeterBound
<1> QED
  BY <1>1, Inductive, PTL

\* The silence that do() and CounterLimiter.Backoff promise after a 429 or 418,
\* of one process (kraken.go:108).
THEOREM Quiet == Spec => []QuietAfter429
<1>1. IInv => QuietAfter429
  BY DEF IInv
<1> QED
  BY <1>1, Inductive, PTL

\* Kraken refuses a nonce only of a call that overlapped another, or after a
\* restart with nonces ahead of the clock (kraken.go:55, 61-93).
THEOREM StaleNonce == Spec => []NonceStaleExplained
<1>1. IInv => NonceStaleExplained
  BY DEF IInv
<1> QED
  BY <1>1, Inductive, PTL
-----------------------------------------------------------------------------
(* Induction *)

\* A set of natural numbers has a least element.
LEMMA Least ==
    ASSUME NEW T \in SUBSET Nat, T # {}
    PROVE  \E x \in T : \A y \in T : x <= y
<1>1. PICK x \in T : \A y \in T : ~ (<<y, x>> \in OpToRel(<, Nat))
  BY NatLessThanWellFounded, WFMin, Zenon
<1>2. \A y \in T : ~ (y < x)
  BY <1>1 DEF OpToRel
<1>3. \A y \in T : x <= y
  BY <1>2
<1> QED BY <1>3

\* Induction, for a property given as the set of the numbers that have it.
LEMMA SetInduction ==
    ASSUME NEW T \in SUBSET Nat, 0 \in T, \A n \in T : n + 1 \in T
    PROVE  T = Nat
<1> SUFFICES ASSUME Nat \ T # {} PROVE FALSE
  OBVIOUS
<1>1. PICK x \in Nat \ T : \A y \in Nat \ T : x <= y
  BY Least
<1>2. x - 1 \in Nat /\ x - 1 \in T
  BY <1>1
<1> QED BY <1>1, <1>2
-----------------------------------------------------------------------------
(* Prices as strings *)

\* p comes before q in one of two ways: as a proper prefix, or by its first
\* character that differs.
Prefix(p, q) == Len(p) < Len(q) /\ \A j \in 1..Len(p) : p[j] = q[j]
Differs(p, q, i) == /\ i \in 1..Len(p) /\ i \in 1..Len(q) /\ p[i] < q[i]
                    /\ \A j \in 1..(i - 1) : p[j] = q[j]

\* What a price is made of.
LEMMA Digits ==
    ASSUME NEW p \in Prices
    PROVE  /\ Len(p) \in Nat \ {0}
           /\ \A i \in 1..Len(p) : /\ p[i] \in 0..9 \cup {Point} /\ p[i] \in Int
                                   /\ p[i] = Point <=> Decimals > 0 /\ i = Len(p) - Decimals
<1>1. p \in Seq(0..9 \cup {Point}) /\ Len(p) > Decimals
  BY DEF Prices
<1>2. Len(p) \in Nat \ {0} /\ \A i \in 1..Len(p) : p[i] \in 0..9 \cup {Point}
  BY <1>1, KrakenAssumption
<1>3. \A i \in 1..Len(p) : p[i] \in Int
  BY <1>2 DEF Point
<1> QED BY <1>2, <1>3 DEF Prices

\* StringLess in these terms.
LEMMA StringLessCases ==
    ASSUME NEW p \in Prices, NEW q \in Prices
    PROVE  StringLess(p, q) <=> Prefix(p, q) \/ \E i \in Nat : Differs(p, q, i)
<1>1. Len(p) \in Nat /\ Len(q) \in Nat
  BY DEF Prices
<1>2. ASSUME Len(p) < Len(q)
      PROVE  SubSeq(q, 1, Len(p)) = p <=> \A j \in 1..Len(p) : p[j] = q[j]
  <2>1. /\ SubSeq(q, 1, Len(p)) \in Seq(0..9 \cup {Point}) /\ Len(SubSeq(q, 1, Len(p))) = Len(p)
        /\ \A j \in 1..Len(p) : SubSeq(q, 1, Len(p))[j] = q[j]
    BY <1>1, <1>2 DEF Prices
  <2> QED BY <2>1, <1>1, SeqEqual DEF Prices
<1>3. \A i \in Nat : Differs(p, q, i)
        <=> i \in 1..Len(p) /\ i <= Len(q) /\ p[i] < q[i] /\ \A j \in 1..(i - 1) : p[j] = q[j]
  BY <1>1 DEF Differs
<1>4. 1..Len(p) \subseteq Nat
  BY <1>1
<1>5. (Len(p) < Len(q) /\ SubSeq(q, 1, Len(p)) = p) <=> Prefix(p, q)
  BY <1>2 DEF Prefix
<1>6. (\E i \in 1..Len(p) : i <= Len(q) /\ p[i] < q[i] /\ \A j \in 1..(i - 1) : p[j] = q[j])
        <=> \E i \in Nat : Differs(p, q, i)
  BY <1>3, <1>4
<1> QED BY <1>5, <1>6 DEF StringLess

\* The comparison is transitive ...
LEMMA StringLessTransitive ==
    ASSUME NEW p \in Prices, NEW q \in Prices, NEW r \in Prices,
           StringLess(p, q), StringLess(q, r)
    PROVE  StringLess(p, r)
<1>1. /\ Len(p) \in Nat /\ Len(q) \in Nat /\ Len(r) \in Nat
      /\ \A i \in 1..Len(p) : p[i] \in Int
      /\ \A i \in 1..Len(q) : q[i] \in Int
      /\ \A i \in 1..Len(r) : r[i] \in Int
  BY Digits
<1>2. CASE Prefix(p, q) /\ Prefix(q, r)
  <2>1. Prefix(p, r)
    BY <1>1, <1>2 DEF Prefix
  <2> QED BY <2>1, StringLessCases
<1>3. ASSUME Prefix(p, q), NEW i \in Nat, Differs(q, r, i) PROVE StringLess(p, r)
  <2>1. CASE i <= Len(p)
    <3>1. Differs(p, r, i)
      BY <1>1, <1>3, <2>1 DEF Prefix, Differs
    <3> QED BY <3>1, StringLessCases
  <2>2. CASE ~ (i <= Len(p))
    <3>1. Prefix(p, r)
      BY <1>1, <1>3, <2>2 DEF Prefix, Differs
    <3> QED BY <3>1, StringLessCases
  <2> QED BY <2>1, <2>2
<1>4. ASSUME NEW i \in Nat, Differs(p, q, i), Prefix(q, r) PROVE StringLess(p, r)
  <2>1. Differs(p, r, i)
    BY <1>1, <1>4 DEF Prefix, Differs
  <2> QED BY <2>1, StringLessCases
<1>5. ASSUME NEW i \in Nat, Differs(p, q, i), NEW k \in Nat, Differs(q, r, k)
      PROVE  StringLess(p, r)
  <2>1. CASE i <= k
    <3>1. Differs(p, r, i)
      BY <1>1, <1>5, <2>1 DEF Differs
    <3> QED BY <3>1, StringLessCases
  <2>2. CASE ~ (i <= k)
    <3>1. Differs(p, r, k)
      BY <1>1, <1>5, <2>2 DEF Differs
    <3> QED BY <3>1, StringLessCases
  <2> QED BY <2>1, <2>2
<1> QED BY <1>2, <1>3, <1>4, <1>5, StringLessCases

\* ... and total.
LEMMA StringLessTotal ==
    ASSUME NEW p \in Prices, NEW q \in Prices, p # q
    PROVE  StringLess(p, q) \/ StringLess(q, p)
<1> DEFINE D == {i \in 1..Len(p) : i <= Len(q) /\ p[i] # q[i]}
<1>1. /\ Len(p) \in Nat /\ Len(q) \in Nat
      /\ \A i \in 1..Len(p) : p[i] \in Int
      /\ \A i \in 1..Len(q) : q[i] \in Int
  BY Digits
<1>2. CASE D = {}
  <2>1. \A i \in 1..Len(p) : i <= Len(q) => p[i] = q[i]
    BY <1>2
  <2>2. Len(p) # Len(q)
    BY <2>1, <1>1, SeqEqual DEF Prices
  <2>3. Prefix(p, q) \/ Prefix(q, p)
    BY <2>1, <2>2, <1>1 DEF Prefix
  <2> QED BY <2>3, StringLessCases
<1>3. CASE D # {}
  <2>0. D \in SUBSET Nat
    BY <1>1
  <2>1. PICK i \in D : \A j \in D : i <= j
    BY <1>3, <2>0, Least
  <2>2. i \in 1..Len(p) /\ i \in 1..Len(q) /\ p[i] # q[i]
    BY <2>1, <1>1
  <2>3. \A j \in 1..(i - 1) : p[j] = q[j]
    BY <2>1, <2>2, <1>1
  <2>4. Differs(p, q, i) \/ Differs(q, p, i)
    BY <2>2, <2>3, <1>1 DEF Differs
  <2>5. i \in Nat
    BY <2>2, <1>1
  <2> QED BY <2>4, <2>5, StringLessCases
<1> QED BY <1>2, <1>3

\* Both hold of Less, whichever way it is read.
LEMMA LessOrders ==
    ASSUME NEW d \in BOOLEAN
    PROVE  /\ \A p, q, r \in Prices : Less(d, p, q) /\ Less(d, q, r) => Less(d, p, r)
           /\ \A p, q \in Prices : p # q => Less(d, p, q) \/ Less(d, q, p)
  BY StringLessTransitive, StringLessTotal DEF Less
-----------------------------------------------------------------------------
(* sortLevels *)

Distinct(n, t) == \A i, j \in 1..n : i # j => t[i] # t[j]

\* The levels of S in some order.
Ordering(S, t) == t \in [1..Cardinality(S) -> S] /\ Distinct(Cardinality(S), t)

SortedTo(t, i, descending) == \A a, b \in 1..i : a < b => Less(descending, t[a], t[b])

\* Where Sink puts s[i].
Stop(s, i, descending, k) ==
    /\ k > 1 => Less(descending, s[k - 1], s[i])
    /\ \A j \in k..(i - 1) : ~ Less(descending, s[j], s[i])

\* r is s and t one after the other, m and n long, position by position.
Joins(m, s, n, t, r) == \A j \in 1..(m + n) : r[j] = IF j <= m THEN s[j] ELSE t[j - m]

\* Concatenation, position by position.
LEMMA Joined ==
    ASSUME NEW S, NEW s \in Seq(S), NEW t \in Seq(S)
    PROVE  /\ s \o t \in Seq(S) /\ Len(s \o t) = Len(s) + Len(t)
           /\ Joins(Len(s), s, Len(t), t, s \o t)
  BY ConcatProperties DEF Joins

\* u is t with its element at i moved down to k.
MovedDown(n, t, i, k, u) ==
    \A j \in 1..n : u[j] = IF j < k \/ j > i THEN t[j]
                           ELSE IF j = k THEN t[i] ELSE t[j - 1]

\* What moving the element at i down to k does at each position.
LEMMA Moved ==
    ASSUME NEW S, NEW n \in Nat, NEW t \in [1..n -> S], NEW i \in 1..n, NEW k \in 1..i
    PROVE  /\ InsertAt(RemoveAt(t, i), k, t[i]) \in [1..n -> S]
           /\ MovedDown(n, t, i, k, InsertAt(RemoveAt(t, i), k, t[i]))
<1>1. t \in Seq(S) /\ Len(t) = n
  OBVIOUS
<1> DEFINE r == RemoveAt(t, i)
           u == InsertAt(r, k, t[i])
<1>2. /\ SubSeq(t, 1, i - 1) \in Seq(S) /\ Len(SubSeq(t, 1, i - 1)) = i - 1
      /\ \A j \in 1..(i - 1) : SubSeq(t, 1, i - 1)[j] = t[j]
  BY <1>1
<1>3. /\ SubSeq(t, i + 1, n) \in Seq(S) /\ Len(SubSeq(t, i + 1, n)) = n - i
      /\ \A j \in 1..(n - i) : SubSeq(t, i + 1, n)[j] = t[j + i]
  BY <1>1
<1>4. /\ r \in Seq(S) /\ Len(r) = n - 1
      /\ \A j \in 1..(n - 1) : r[j] = IF j < i THEN t[j] ELSE t[j + 1]
  <2> DEFINE a == SubSeq(t, 1, i - 1)
             b == SubSeq(t, i + 1, n)
  <2>1. r = a \o b
    BY <1>1 DEF RemoveAt
  <2>2. /\ a \in Seq(S) /\ b \in Seq(S) /\ Len(a) = i - 1 /\ Len(b) = n - i
        /\ i - 1 \in Nat /\ n - i \in Nat
    BY <1>2, <1>3
  <2>3. /\ \A j \in 1..(i - 1) : a[j] = t[j]
        /\ \A j \in 1..(n - i) : b[j] = t[j + i]
    BY <1>2, <1>3
  <2> HIDE DEF a, b, r
  <2>4. /\ r \in Seq(S) /\ Len(r) = n - 1
        /\ \A j \in 1..(n - 1) : r[j] = IF j <= i - 1 THEN a[j] ELSE b[j - (i - 1)]
    <3>1. r \in Seq(S) /\ Len(r) = Len(a) + Len(b) /\ Joins(Len(a), a, Len(b), b, r)
      BY <2>1, <2>2, Joined
    <3>2. Joins(i - 1, a, n - i, b, r) /\ (i - 1) + (n - i) = n - 1
      BY <3>1, <2>2
    <3> QED BY <3>1, <3>2, <2>2 DEF Joins
  <2>5. ASSUME NEW j \in 1..(n - 1) PROVE r[j] = IF j < i THEN t[j] ELSE t[j + 1]
    <3>1. CASE j < i
      BY <2>3, <2>4, <3>1
    <3>2. CASE ~ (j < i)
      <4>1. j - (i - 1) \in 1..(n - i) /\ j - (i - 1) + i = j + 1
        BY <3>2
      <4> QED BY <2>3, <2>4, <3>2, <4>1
    <3> QED BY <3>1, <3>2
  <2> QED BY <2>4, <2>5
<1> HIDE DEF r
<1>5. /\ SubSeq(r, 1, k - 1) \in Seq(S) /\ Len(SubSeq(r, 1, k - 1)) = k - 1
      /\ \A j \in 1..(k - 1) : SubSeq(r, 1, k - 1)[j] = r[j]
  BY <1>4
<1>6. /\ SubSeq(r, k, n - 1) \in Seq(S) /\ Len(SubSeq(r, k, n - 1)) = n - k
      /\ \A j \in 1..(n - k) : SubSeq(r, k, n - 1)[j] = r[j + k - 1]
  BY <1>4
<1>7. /\ u \in Seq(S) /\ Len(u) = n
      /\ \A j \in 1..n : u[j] = IF j < k THEN r[j] ELSE IF j = k THEN t[i] ELSE r[j - 1]
  <2>1. PICK a, b, e, x : /\ a = SubSeq(r, 1, k - 1) /\ b = SubSeq(r, k, n - 1)
                          /\ e = <<t[i]>> /\ x = a \o e
    OBVIOUS
  <2>2. u = x \o b
    BY <2>1, <1>4 DEF InsertAt
  <2>3. /\ a \in Seq(S) /\ b \in Seq(S) /\ Len(a) = k - 1 /\ Len(b) = n - k
        /\ k - 1 \in Nat /\ n - k \in Nat
        /\ \A j \in 1..(k - 1) : a[j] = r[j]
        /\ \A j \in 1..(n - k) : b[j] = r[j + k - 1]
    BY <2>1, <1>5, <1>6
  <2>4. e \in Seq(S) /\ Len(e) = 1 /\ e[1] = t[i]
    BY <2>1
  <2>5. x \in Seq(S) /\ Len(x) = Len(a) + Len(e) /\ Joins(Len(a), a, Len(e), e, x)
    BY <2>1, <2>3, <2>4, Joined
  <2>6. Len(x) = k /\ Joins(k - 1, a, 1, e, x)
    BY <2>3, <2>4, <2>5
  <2>7. u \in Seq(S) /\ Len(u) = Len(x) + Len(b) /\ Joins(Len(x), x, Len(b), b, u)
    BY <2>2, <2>3, <2>5, Joined
  <2>8. Len(u) = n /\ Joins(k, x, n - k, b, u)
    BY <2>3, <2>6, <2>7
  <2>9. ASSUME NEW j \in 1..n
        PROVE  u[j] = IF j < k THEN r[j] ELSE IF j = k THEN t[i] ELSE r[j - 1]
    <3>1. u[j] = IF j <= k THEN x[j] ELSE b[j - k]
      BY <2>3, <2>8 DEF Joins
    <3>2. CASE j < k
      <4>1. x[j] = a[j] /\ a[j] = r[j]
        BY <3>2, <2>3, <2>6 DEF Joins
      <4> QED BY <3>1, <3>2, <4>1
    <3>3. CASE j = k
      <4>1. x[k] = e[k - (k - 1)] /\ k - (k - 1) = 1
        BY <2>3, <2>6 DEF Joins
      <4> QED BY <3>1, <3>3, <4>1, <2>4
    <3>4. CASE j > k
      <4>1. j - k \in 1..(n - k) /\ (j - k) + k - 1 = j - 1
        BY <3>4
      <4>2. b[j - k] = r[j - 1]
        BY <4>1, <2>3
      <4> QED BY <3>1, <3>4, <4>2
    <3> QED BY <3>2, <3>3, <3>4
  <2> QED BY <2>7, <2>8, <2>9
<1> HIDE DEF u
<1>8. ASSUME NEW j \in 1..n
      PROVE  u[j] = IF j < k \/ j > i THEN t[j] ELSE IF j = k THEN t[i] ELSE t[j - 1]
  <2>1. CASE j < k
    <3>1. u[j] = r[j] /\ r[j] = t[j]
      BY <1>4, <1>7, <2>1
    <3> QED BY <3>1, <2>1
  <2>2. CASE j = k
    BY <1>7, <2>2
  <2>3. CASE j > k
    <3>1. u[j] = r[j - 1] /\ j - 1 \in 1..(n - 1)
      BY <1>7, <2>3
    <3>2. r[j - 1] = IF j <= i THEN t[j - 1] ELSE t[j]
      BY <1>4, <3>1
    <3> QED BY <3>1, <3>2, <2>3
  <2> QED BY <2>1, <2>2, <2>3
<1>9. u \in [1..n -> S]
  BY <1>7
<1> QED BY <1>8, <1>9 DEF u, r, MovedDown

\* The inner loop stops.
LEMMA Stops ==
    ASSUME NEW t, NEW i \in Nat \ {0}, NEW d
    PROVE  \E k \in 1..i : Stop(t, i, d, k)
<1> DEFINE T == {k \in 1..i : \A j \in k..(i - 1) : ~ Less(d, t[j], t[i])}
<1>1. i \in T /\ T \in SUBSET Nat
  OBVIOUS
<1>2. PICK k \in T : \A j \in T : k <= j
  BY <1>1, Least
<1>3. k \in 1..i /\ \A j \in k..(i - 1) : ~ Less(d, t[j], t[i])
  BY <1>2
<1>4. ASSUME k > 1 PROVE Less(d, t[k - 1], t[i])
  <2>1. k - 1 \in 1..i /\ k - 1 \notin T
    BY <1>2, <1>3, <1>4
  <2>2. PICK j \in (k - 1)..(i - 1) : Less(d, t[j], t[i])
    BY <2>1
  <2>3. j = k - 1
    BY <2>2, <1>3
  <2> QED BY <2>2, <2>3
<1> QED BY <1>3, <1>4 DEF Stop

\* An element moved to where the inner loop stops extends the sorted part by one.
LEMMA MovedSorts ==
    ASSUME NEW S \in SUBSET Prices, NEW d \in BOOLEAN, NEW n \in Nat, NEW t \in [1..n -> S],
           Distinct(n, t),
           NEW i \in 1..n, SortedTo(t, i - 1, d), NEW k \in 1..i, Stop(t, i, d, k),
           NEW u, u = InsertAt(RemoveAt(t, i), k, t[i])
    PROVE  u \in [1..n -> S] /\ Distinct(n, u) /\ SortedTo(u, i, d)
<1>5. /\ u \in [1..n -> S]
      /\ \A j \in 1..n : u[j] = IF j < k \/ j > i THEN t[j]
                                ELSE IF j = k THEN t[i] ELSE t[j - 1]
  <2>1. u \in [1..n -> S] /\ MovedDown(n, t, i, k, u)
    BY Moved
  <2> QED BY <2>1 DEF MovedDown
<1>6. \A a, b \in 1..n : a # b => u[a] # u[b]
  <2> SUFFICES ASSUME NEW a \in 1..n, NEW b \in 1..n, a # b PROVE u[a] # u[b]
    OBVIOUS
  <2> DEFINE from(j) == IF j < k \/ j > i THEN j ELSE IF j = k THEN i ELSE j - 1
  <2>1. from(a) \in 1..n /\ from(b) \in 1..n /\ from(a) # from(b)
    OBVIOUS
  <2>2. u[a] = t[from(a)] /\ u[b] = t[from(b)]
    BY <1>5
  <2> QED BY <2>1, <2>2 DEF Distinct
<1>7. \A a, b \in 1..i : a < b => Less(d, u[a], u[b])
  <2> SUFFICES ASSUME NEW a \in 1..i, NEW b \in 1..i, a < b PROVE Less(d, u[a], u[b])
    OBVIOUS
  <2>1. \A x, y \in 1..(i - 1) : x < y => Less(d, t[x], t[y])
    BY DEF SortedTo
  <2>2. \A x \in 1..(k - 1) : Less(d, t[x], t[i])
    <3> SUFFICES ASSUME NEW x \in 1..(k - 1) PROVE Less(d, t[x], t[i])
      OBVIOUS
    <3>1. k - 1 \in 1..(i - 1) /\ x \in 1..(i - 1) /\ Less(d, t[k - 1], t[i])
      BY DEF Stop
    <3>2. t[x] \in Prices /\ t[k - 1] \in Prices /\ t[i] \in Prices
      BY <3>1
    <3>3. x = k - 1 \/ Less(d, t[x], t[k - 1])
      BY <3>1, <2>1
    <3> QED BY <3>1, <3>2, <3>3, LessOrders
  <2>3. \A x \in k..(i - 1) : Less(d, t[i], t[x])
    <3> SUFFICES ASSUME NEW x \in k..(i - 1) PROVE Less(d, t[i], t[x])
      OBVIOUS
    <3>1. x \in 1..n /\ x # i /\ ~ Less(d, t[x], t[i])
      BY DEF Stop
    <3>2. t[x] \in Prices /\ t[i] \in Prices /\ t[x] # t[i]
      BY <3>1 DEF Distinct
    <3> QED BY <3>1, <3>2, LessOrders
  <2>4. a \in 1..n /\ b \in 1..n /\ k \in 1..i
    OBVIOUS
  <2>5. CASE b < k
    <3>1. u[a] = t[a] /\ u[b] = t[b] /\ a \in 1..(i - 1) /\ b \in 1..(i - 1)
      BY <1>5, <2>4, <2>5
    <3> QED BY <3>1, <2>1
  <2>6. CASE b = k
    <3>1. u[a] = t[a] /\ u[b] = t[i] /\ a \in 1..(k - 1)
      BY <1>5, <2>4, <2>6
    <3> QED BY <3>1, <2>2
  <2>7. CASE b > k /\ a < k
    <3>1. u[a] = t[a] /\ u[b] = t[b - 1] /\ a \in 1..(i - 1) /\ b - 1 \in 1..(i - 1) /\ a < b - 1
      BY <1>5, <2>4, <2>7
    <3> QED BY <3>1, <2>1
  <2>8. CASE b > k /\ a = k
    <3>1. u[a] = t[i] /\ u[b] = t[b - 1] /\ b - 1 \in k..(i - 1)
      BY <1>5, <2>4, <2>8
    <3> QED BY <3>1, <2>3
  <2>9. CASE b > k /\ a > k
    <3>1. /\ u[a] = t[a - 1] /\ u[b] = t[b - 1]
          /\ a - 1 \in 1..(i - 1) /\ b - 1 \in 1..(i - 1) /\ a - 1 < b - 1
      BY <1>5, <2>4, <2>9
    <3> QED BY <3>1, <2>1
  <2> QED BY <2>4, <2>5, <2>6, <2>7, <2>8, <2>9
<1> QED BY <1>5, <1>6, <1>7 DEF SortedTo, Distinct

\* One pass of the outer loop keeps the levels and sorts one more of them.
LEMMA SinkSorts ==
    ASSUME NEW S \in SUBSET Prices, IsFiniteSet(S), NEW d \in BOOLEAN,
           NEW t, Ordering(S, t), NEW i \in 1..Cardinality(S), SortedTo(t, i - 1, d)
    PROVE  Ordering(S, Sink(t, i, d)) /\ SortedTo(Sink(t, i, d), i, d)
<1>1. PICK n \in Nat : n = Cardinality(S)
  BY FS_CardinalityType
<1>2. PICK k : k = CHOOSE j \in 1..i : Stop(t, i, d, j)
  OBVIOUS
<1>3. Sink(t, i, d) = InsertAt(RemoveAt(t, i), k, t[i])
  BY <1>2, Zenon DEF Sink, Stop
<1>4. k \in 1..i /\ Stop(t, i, d, k)
  <2>1. i \in Nat \ {0}
    BY <1>1
  <2>2. \E j \in 1..i : Stop(t, i, d, j)
    BY <2>1, Stops
  <2> QED BY <2>2, <1>2
<1>5. t \in [1..n -> S] /\ i \in 1..n /\ Distinct(n, t)
  BY <1>1 DEF Ordering
<1>6. PICK u : u = InsertAt(RemoveAt(t, i), k, t[i])
  OBVIOUS
<1>7. u \in [1..n -> S] /\ Distinct(n, u) /\ SortedTo(u, i, d)
  <2>1. /\ t \in [1..n -> S] /\ i \in 1..n /\ Distinct(n, t)
        /\ k \in 1..i /\ Stop(t, i, d, k)
    BY <1>4, <1>5
  <2> QED BY <2>1, <1>6, MovedSorts
<1> QED BY <1>1, <1>3, <1>6, <1>7 DEF Ordering

\* The recursion that Sorting is defined by has a solution ...
LEMMA SortingEquation ==
    ASSUME NEW s, NEW d, Len(s) \in Nat
    PROVE  Sorting(s, d) = [i \in 0..Len(s) |->
               IF i = 0 THEN s ELSE Sink(Sorting(s, d)[i - 1], i, d)]
<1> DEFINE Good(m, f) == f = [i \in 0..m |-> IF i = 0 THEN s ELSE Sink(f[i - 1], i, d)]
           T == {m \in Nat : \E f : Good(m, f)}
<1>1. 0 \in T
  <2> DEFINE f == [i \in 0..0 |-> s]
  <2>1. Good(0, f)
    OBVIOUS
  <2> QED BY <2>1
<1>2. ASSUME NEW m \in T PROVE m + 1 \in T
  <2>1. PICK f : Good(m, f)
    OBVIOUS
  <2> DEFINE g == [i \in 0..(m + 1) |-> IF i = m + 1 THEN Sink(f[m], m + 1, d) ELSE f[i]]
  <2>2. ASSUME NEW i \in 0..(m + 1)
        PROVE  g[i] = IF i = 0 THEN s ELSE Sink(g[i - 1], i, d)
    <3>1. CASE i = 0
      BY <2>1, <3>1
    <3>2. CASE i \in 1..m
      <4>1. i - 1 \in 0..m /\ i # m + 1 /\ i - 1 # m + 1
        BY <3>2
      <4>2. g[i] = f[i] /\ g[i - 1] = f[i - 1]
        BY <4>1
      <4>3. f[i] = Sink(f[i - 1], i, d)
        BY <2>1, <3>2
      <4> QED BY <3>2, <4>2, <4>3
    <3>3. CASE i = m + 1
      <4>1. g[i] = Sink(f[m], m + 1, d) /\ g[m] = f[m] /\ i - 1 = m
        BY <3>3
      <4> QED BY <3>3, <4>1
    <3> QED BY <3>1, <3>2, <3>3
  <2>3. Good(m + 1, g)
    <3> DEFINE h == [i \in 0..(m + 1) |-> IF i = 0 THEN s ELSE Sink(g[i - 1], i, d)]
    <3>1. g = [i \in 0..(m + 1) |-> g[i]]
      OBVIOUS
    <3> HIDE DEF g
    <3>2. \A i \in 0..(m + 1) : g[i] = IF i = 0 THEN s ELSE Sink(g[i - 1], i, d)
      BY <2>2
    <3>3. g = h
      BY <3>1, <3>2, Zenon
    <3> QED BY <3>3, Zenon
  <2>4. m \in Nat
    OBVIOUS
  <2> HIDE DEF Good, g
  <2> QED BY <2>3, <2>4
<1>3. T = Nat
  <2>1. T \in SUBSET Nat
    OBVIOUS
  <2> HIDE DEF T
  <2> QED BY <2>1, <1>1, <1>2, SetInduction
<1>4. \E f : Good(Len(s), f)
  BY <1>3
<1>5. Good(Len(s), CHOOSE f : Good(Len(s), f))
  BY <1>4
<1>6. Sorting(s, d) = CHOOSE f : Good(Len(s), f)
  BY DEF Sorting
<1> QED BY <1>5, <1>6

\* ... so that it sorts, whatever order the levels come in.
LEMMA SortLevelsSorts ==
    ASSUME NEW S \in SUBSET Prices, IsFiniteSet(S), NEW d \in BOOLEAN,
           NEW s, Ordering(S, s)
    PROVE  /\ Ordering(S, SortLevels(s, d))
           /\ SortedTo(SortLevels(s, d), Cardinality(S), d)
<1> DEFINE n == Cardinality(S)
           f == Sorting(s, d)
           T == {i \in Nat : i <= n => Ordering(S, f[i]) /\ SortedTo(f[i], i, d)}
<1>1. n \in Nat /\ Len(s) = n
  BY FS_CardinalityType DEF Ordering
<1>2. f[0] = s /\ \A i \in 1..n : f[i] = Sink(f[i - 1], i, d)
  <2>1. f = [i \in 0..n |-> IF i = 0 THEN s ELSE Sink(f[i - 1], i, d)]
    BY <1>1, SortingEquation
  <2> HIDE DEF f, n
  <2>2. ASSUME NEW i \in 1..n PROVE f[i] = Sink(f[i - 1], i, d)
    <3>1. i \in 0..n /\ i # 0
      BY <1>1
    <3> QED BY <3>1, <2>1
  <2> QED BY <2>1, <2>2, <1>1
<1> HIDE DEF f
<1>3. 0 \in T
  BY <1>1, <1>2 DEF SortedTo
<1>4. ASSUME NEW i \in T PROVE i + 1 \in T
  <2> SUFFICES ASSUME i + 1 <= n
               PROVE  Ordering(S, f[i + 1]) /\ SortedTo(f[i + 1], i + 1, d)
    OBVIOUS
  <2>1. i \in Nat /\ i + 1 \in 1..n /\ (i + 1) - 1 = i
    BY <1>1
  <2>2. Ordering(S, f[i]) /\ SortedTo(f[i], (i + 1) - 1, d)
    BY <2>1, <1>1
  <2>3. f[i + 1] = Sink(f[i], i + 1, d)
    BY <2>1, <1>2
  <2> QED BY <2>1, <2>2, <2>3, SinkSorts
<1>5. T = Nat
  <2>1. T \in SUBSET Nat
    OBVIOUS
  <2> HIDE DEF T
  <2> QED BY <2>1, <1>3, <1>4, SetInduction
<1>6. n \in T
  BY <1>1, <1>5
<1>7. Ordering(S, f[n]) /\ SortedTo(f[n], n, d)
  BY <1>1, <1>6
<1> QED BY <1>1, <1>7 DEF SortLevels, f

\* An ordering of S leaves nothing out.
LEMMA OrderingCovers ==
    ASSUME NEW S, IsFiniteSet(S), NEW t, Ordering(S, t)
    PROVE  \A p \in S : \E i \in 1..Cardinality(S) : t[i] = p
<1>1. PICK n \in Nat : n = Cardinality(S)
  BY FS_CardinalityType
<1>2. IsFiniteSet(1..n) /\ Cardinality(1..n) = n
  BY FS_Interval
<1>3. t \in Injection(1..n, S)
  BY <1>1 DEF Ordering, Distinct, Injection, IsInjective
<1>4. t \in Surjection(1..n, S)
  BY <1>1, <1>2, <1>3, FS_Injection
<1> QED BY <1>1, <1>4 DEF Surjection

\* An update lists the first levels of a side.
LEMMA CollectedAreFirst ==
    ASSUME NEW S \in SUBSET Prices, IsFiniteSet(S), NEW d \in BOOLEAN,
           NEW t \in CollectLevels(S, d)
    PROVE  t \in Seq(S) /\ FirstOf(t, S, d)
<1>1. PICK n \in Nat : n = Cardinality(S)
  BY FS_CardinalityType
<1>2. PICK s \in SetToSeqs(S) :
        t = IF Len(SortLevels(s, d)) > Depth THEN SubSeq(SortLevels(s, d), 1, Depth)
            ELSE SortLevels(s, d)
  BY DEF CollectLevels
<1>3. Ordering(S, s)
  BY <1>2 DEF SetToSeqs, Ordering, Distinct
<1>4. PICK u : u = SortLevels(s, d)
  OBVIOUS
<1>5. Ordering(S, u) /\ SortedTo(u, n, d)
  BY <1>1, <1>3, <1>4, SortLevelsSorts
<1>6. u \in Seq(S) /\ Len(u) = n
  BY <1>1, <1>5 DEF Ordering
<1>7. t = IF n > Depth THEN SubSeq(u, 1, Depth) ELSE u
  BY <1>2, <1>4, <1>6
<1>8. PICK m \in Nat : m = IF n > Depth THEN Depth ELSE n
  BY KrakenAssumption
<1>9. t \in Seq(S) /\ Len(t) = m /\ \A i \in 1..m : t[i] = u[i]
  <2>1. CASE n > Depth
    BY <1>6, <1>7, <1>8, <2>1, KrakenAssumption
  <2>2. CASE ~ (n > Depth)
    BY <1>6, <1>7, <1>8, <2>2
  <2> QED BY <2>1, <2>2
<1>10. m <= n
  BY <1>8, KrakenAssumption
<1>11. \A i \in 1..n, j \in 1..n : i < j => Less(d, u[i], u[j])
  BY <1>5 DEF SortedTo
<1>12. ToSet(t) \subseteq S
  BY <1>9 DEF ToSet
<1>13. \A i, j \in 1..m : i < j => Less(d, t[i], t[j])
  BY <1>9, <1>10, <1>11
<1>14. ASSUME NEW i \in 1..m, NEW p \in S \ ToSet(t) PROVE Less(d, t[i], p)
  <2>1. PICK j \in 1..n : u[j] = p
    BY <1>1, <1>5, OrderingCovers
  <2>2. j \notin 1..m
    BY <2>1, <1>9 DEF ToSet
  <2>3. i \in 1..n /\ i < j
    BY <2>1, <2>2, <1>10
  <2> QED BY <2>1, <2>3, <1>9, <1>11
<1>15. Len(t) = IF Cardinality(S) > Depth THEN Depth ELSE Cardinality(S)
  BY <1>1, <1>8, <1>9
<1> QED BY <1>9, <1>12, <1>13, <1>14, <1>15 DEF FirstOf
-----------------------------------------------------------------------------
(* The best price *)

\* The recursion that Values is defined by has a solution.
LEMMA ValuesEquation ==
    ASSUME NEW p, Len(p) \in Nat
    PROVE  Values(p) = [i \in 0..Len(p) |-> IF i = 0 THEN 0 ELSE Shift(Values(p)[i - 1], p[i])]
<1> DEFINE Good(m, f) == f = [i \in 0..m |-> IF i = 0 THEN 0 ELSE Shift(f[i - 1], p[i])]
           T == {m \in Nat : \E f : Good(m, f)}
<1>1. 0 \in T
  <2> DEFINE f == [i \in 0..0 |-> 0]
  <2>1. Good(0, f)
    OBVIOUS
  <2> HIDE DEF Good, f
  <2> QED BY <2>1
<1>2. ASSUME NEW m \in T PROVE m + 1 \in T
  <2>1. PICK f : Good(m, f)
    OBVIOUS
  <2> DEFINE g == [i \in 0..(m + 1) |-> IF i = m + 1 THEN Shift(f[m], p[m + 1]) ELSE f[i]]
  <2>2. ASSUME NEW i \in 0..(m + 1)
        PROVE  g[i] = IF i = 0 THEN 0 ELSE Shift(g[i - 1], p[i])
    <3>1. CASE i = 0
      BY <2>1, <3>1
    <3>2. CASE i \in 1..m
      <4>1. i - 1 \in 0..m /\ i # m + 1 /\ i - 1 # m + 1
        BY <3>2
      <4>2. g[i] = f[i] /\ g[i - 1] = f[i - 1]
        BY <4>1
      <4>3. f[i] = Shift(f[i - 1], p[i])
        BY <2>1, <3>2
      <4> QED BY <3>2, <4>2, <4>3
    <3>3. CASE i = m + 1
      <4>1. g[i] = Shift(f[m], p[m + 1]) /\ g[m] = f[m] /\ i - 1 = m
        BY <3>3
      <4> QED BY <3>3, <4>1
    <3> QED BY <3>1, <3>2, <3>3
  <2>3. Good(m + 1, g)
    <3> DEFINE h == [i \in 0..(m + 1) |-> IF i = 0 THEN 0 ELSE Shift(g[i - 1], p[i])]
    <3>1. g = [i \in 0..(m + 1) |-> g[i]]
      OBVIOUS
    <3> HIDE DEF g
    <3>2. \A i \in 0..(m + 1) : g[i] = IF i = 0 THEN 0 ELSE Shift(g[i - 1], p[i])
      BY <2>2
    <3>3. g = h
      BY <3>1, <3>2, Zenon
    <3> QED BY <3>3, Zenon
  <2>4. m \in Nat
    OBVIOUS
  <2> HIDE DEF Good, g
  <2> QED BY <2>3, <2>4
<1>3. T = Nat
  <2>1. T \in SUBSET Nat
    OBVIOUS
  <2> HIDE DEF T
  <2> QED BY <2>1, <1>1, <1>2, SetInduction
<1>4. \E f : Good(Len(p), f)
  BY <1>3
<1>5. Good(Len(p), CHOOSE f : Good(Len(p), f))
  BY <1>4
<1>6. Values(p) = CHOOSE f : Good(Len(p), f)
  BY DEF Values
<1> QED BY <1>5, <1>6

\* One character more: the number that those read so far are.
LEMMA ValuesSteps ==
    ASSUME NEW p \in Prices
    PROVE  /\ Values(p)[0] = 0
           /\ \A i \in 1..Len(p) : Values(p)[i] = Shift(Values(p)[i - 1], p[i])
           /\ \A i \in 0..Len(p) : Values(p)[i] \in Int
<1>1. Len(p) \in Nat /\ \A i \in 1..Len(p) : p[i] \in Int
  BY Digits
<1> DEFINE n == Len(p)
           f == Values(p)
           T == {i \in Nat : i <= n => f[i] \in Int}
<1>2. f = [i \in 0..n |-> IF i = 0 THEN 0 ELSE Shift(f[i - 1], p[i])]
  BY <1>1, ValuesEquation
<1> HIDE DEF f, n
<1>3. f[0] = 0
  BY <1>1, <1>2 DEF n
<1>4. ASSUME NEW i \in 1..n PROVE f[i] = Shift(f[i - 1], p[i])
  <2>1. i \in 0..n /\ i # 0
    BY <1>1 DEF n
  <2> QED BY <2>1, <1>2
<1>5. 0 \in T
  BY <1>3
<1>6. ASSUME NEW i \in T PROVE i + 1 \in T
  <2> SUFFICES ASSUME i + 1 <= n PROVE f[i + 1] \in Int
    OBVIOUS
  <2>1. i \in Nat /\ i + 1 \in 1..n /\ (i + 1) - 1 = i /\ i <= n
    BY <1>1 DEF n
  <2>2. f[i] \in Int /\ p[i + 1] \in Int
    BY <2>1, <1>1 DEF n
  <2>3. f[i + 1] = Shift(f[i], p[i + 1])
    BY <2>1, <1>4
  <2> QED BY <2>2, <2>3 DEF Shift
<1>7. T = Nat
  <2>1. T \in SUBSET Nat
    OBVIOUS
  <2> HIDE DEF T
  <2> QED BY <2>1, <1>5, <1>6, SetInduction
<1>8. \A i \in 0..n : f[i] \in Int
  BY <1>1, <1>7 DEF n
<1> QED BY <1>3, <1>4, <1>8 DEF f, n

\* The same character, or a point, after two numbers keeps them in order, and a
\* smaller digit after the same number makes a smaller one.
LEMMA ShiftLess ==
    ASSUME NEW a \in Int, NEW b \in Int,
           NEW x \in 0..9 \cup {Point}, NEW y \in 0..9 \cup {Point}, x = Point <=> y = Point,
           a < b \/ (a = b /\ x < y)
    PROVE  Shift(a, x) < Shift(b, y)
<1>1. CASE x = Point
  BY <1>1 DEF Shift, Point
<1>2. CASE x # Point
  <2>1. x \in 0..9 /\ y \in 0..9 /\ Shift(a, x) = 10 * a + x /\ Shift(b, y) = 10 * b + y
    BY <1>2 DEF Shift
  <2>2. 10 * a + x < 10 * b + y
    BY <2>1
  <2> QED BY <2>1, <2>2
<1> QED BY <1>1, <1>2

\* Of two prices of as many characters, the one that comes first as a string is the
\* smaller number.
LEMMA ValueMonotone ==
    ASSUME NEW p \in Prices, NEW q \in Prices, Len(p) = Len(q), StringLess(p, q)
    PROVE  Value(p) \in Int /\ Value(q) \in Int /\ Value(p) < Value(q)
<1>1. PICK n \in Nat \ {0} : n = Len(p) /\ n = Len(q)
  BY Digits
<1>2. PICK v, w : v = Values(p) /\ w = Values(q)
  OBVIOUS
<1>3. /\ v[0] = 0 /\ \A i \in 1..n : v[i] = Shift(v[i - 1], p[i])
      /\ \A i \in 0..n : v[i] \in Int
  BY <1>1, <1>2, ValuesSteps
<1>4. /\ w[0] = 0 /\ \A i \in 1..n : w[i] = Shift(w[i - 1], q[i])
      /\ \A i \in 0..n : w[i] \in Int
  BY <1>1, <1>2, ValuesSteps
<1>5. PICK k \in 1..n : p[k] < q[k] /\ \A j \in 1..(k - 1) : p[j] = q[j]
  <2>1. ~ Prefix(p, q)
    BY <1>1 DEF Prefix
  <2> QED BY <2>1, <1>1, StringLessCases DEF Differs
<1>6. \A i \in 1..n : /\ p[i] \in 0..9 \cup {Point} /\ q[i] \in 0..9 \cup {Point}
                      /\ p[i] = Point <=> q[i] = Point
  BY <1>1, Digits
<1> DEFINE T == {i \in Nat : i <= n => (i < k => v[i] = w[i]) /\ (i >= k => v[i] < w[i])}
<1>7. 0 \in T
  BY <1>3, <1>4
<1>8. ASSUME NEW i \in T PROVE i + 1 \in T
  <2> SUFFICES ASSUME i + 1 <= n
               PROVE  (i + 1 < k => v[i + 1] = w[i + 1]) /\ (i + 1 >= k => v[i + 1] < w[i + 1])
    OBVIOUS
  <2>1. i \in Nat /\ i + 1 \in 1..n /\ (i + 1) - 1 = i /\ i \in 0..n
    OBVIOUS
  <2>2. PICK a \in Int, b \in Int : a = v[i] /\ b = w[i]
    BY <2>1, <1>3, <1>4
  <2>3. PICK x \in 0..9 \cup {Point}, y \in 0..9 \cup {Point} :
          x = p[i + 1] /\ y = q[i + 1] /\ (x = Point <=> y = Point)
    BY <2>1, <1>6
  <2>4. v[i + 1] = Shift(a, x) /\ w[i + 1] = Shift(b, y)
    BY <2>1, <2>2, <2>3, <1>3, <1>4
  <2>5. CASE i + 1 < k
    <3>1. a = b /\ x = y
      BY <2>1, <2>2, <2>3, <2>5, <1>5
    <3> QED BY <3>1, <2>4, <2>5
  <2>6. CASE i + 1 = k
    <3>1. a = b /\ x < y
      BY <2>1, <2>2, <2>3, <2>6, <1>5
    <3>2. Shift(a, x) < Shift(b, y)
      BY <2>3, <3>1, ShiftLess
    <3> QED BY <3>2, <2>4, <2>6
  <2>7. CASE i + 1 > k
    <3>1. a < b
      BY <2>1, <2>2, <2>7
    <3>2. Shift(a, x) < Shift(b, y)
      BY <2>3, <3>1, ShiftLess
    <3> QED BY <3>2, <2>4, <2>7
  <2> QED BY <2>1, <2>5, <2>6, <2>7
<1>9. T = Nat
  <2>1. T \in SUBSET Nat
    OBVIOUS
  <2> HIDE DEF T
  <2> QED BY <2>1, <1>7, <1>8, SetInduction
<1>10. v[n] < w[n]
  <2>1. n \in T
    BY <1>9
  <2> QED BY <2>1, <1>5
<1> QED BY <1>1, <1>2, <1>3, <1>4, <1>10 DEF Value

\* The first level of an update is the best.
LEMMA FirstIsBest ==
    ASSUME NEW S \in SUBSET Prices, IsFiniteSet(S), NEW d \in BOOLEAN,
           NEW t \in Seq(S), FirstOf(t, S, d), SameWidth(S), NEW p \in S
    PROVE  IF d THEN Value(p) <= Value(t[1]) ELSE Value(p) >= Value(t[1])
<1>1. PICK n \in Nat : n = Cardinality(S)
  BY FS_CardinalityType
<1>2. n # 0
  BY <1>1, FS_EmptySet
<1>3. Len(t) \in Nat \ {0}
  BY <1>1, <1>2, KrakenAssumption DEF FirstOf
<1>4. 1 \in 1..Len(t) /\ t[1] \in S
  BY <1>3
<1>5. p = t[1] \/ Less(d, t[1], p)
  <2>1. CASE p \in ToSet(t)
    <3>1. PICK i \in 1..Len(t) : t[i] = p
      BY <2>1, <1>3 DEF ToSet
    <3>2. i = 1 \/ 1 < i
      BY <1>3
    <3> QED BY <3>1, <3>2, <1>4 DEF FirstOf
  <2>2. CASE p \notin ToSet(t)
    BY <1>4, <2>2 DEF FirstOf
  <2> QED BY <2>1, <2>2
<1>6. t[1] \in Prices /\ p \in Prices /\ Len(t[1]) = Len(p)
  BY <1>4 DEF SameWidth
<1>7. CASE p = t[1]
  <2>1. Value(p) \in Int
    BY <1>6, ValuesSteps, Digits DEF Value
  <2> QED BY <2>1, <1>7
<1>8. CASE d /\ Less(d, t[1], p)
  <2>1. StringLess(p, t[1])
    BY <1>8 DEF Less
  <2>2. Value(p) \in Int /\ Value(t[1]) \in Int /\ Value(p) < Value(t[1])
    BY <2>1, <1>6, ValueMonotone
  <2> QED BY <2>2, <1>8
<1>9. CASE ~ d /\ Less(d, t[1], p)
  <2>1. StringLess(t[1], p)
    BY <1>9 DEF Less
  <2>2. Value(p) \in Int /\ Value(t[1]) \in Int /\ Value(t[1]) < Value(p)
    BY <2>1, <1>6, ValueMonotone
  <2> QED BY <2>2, <1>9
<1> QED BY <1>5, <1>7, <1>8, <1>9
-----------------------------------------------------------------------------
\* A message that lists the levels ps of one side, off those of quantity zero, gone
\* those it deletes, leads from the scope b of the side to the scope a.
Leads(b, ps, off, gone, a) == a \subseteq (b \cup ps) \ off /\ ps \ off \subseteq a /\ gone \subseteq off

\* A side has the levels ls, z of them with quantity zero: those of Kraken's scope w
\* and maybe some that fell out of it, f.
Matches(ls, z, w, f) == w \subseteq ls \ z /\ ls \ z \subseteq w \cup f

\* A diff keeps a side up to date.
LEMMA DiffMatches ==
    ASSUME NEW ls, NEW z, NEW w, NEW f, Matches(ls, z, w, f),
           NEW ps, NEW off, NEW gone, NEW a, Leads(w, ps, off, gone, a)
    PROVE  Matches((ls \cup ps) \ gone, (z \ ps) \cup (off \ gone), a, (f \cup (w \ a)) \ ps)
  BY DEF Matches, Leads

Messages == [kind : {"full", "change"}, bids : SUBSET Bids, asks : SUBSET Asks,
             off : Book, gone : Book, n : 1..MaxPushes, after : Book]

\* A full book lists what Kraken shows.
Whole(m) == m.kind = "full" => m.bids = m.after.bids /\ m.asks = m.after.asks /\ m.off = Empty

\* m is the message after one that left Kraken showing the book b.
Follows(b, m) ==
    m.kind = "change" => /\ Leads(b.bids, m.bids, m.off.bids, m.gone.bids, m.after.bids)
                         /\ Leads(b.asks, m.asks, m.off.asks, m.gone.asks, m.after.asks)

\* The messages q under way to the handler, whose last one, number a, left the book
\* w, when Kraken has sent n and shows v: some may be missing, and two that are
\* neighbours by their numbers are so by their books as well.
Chain(q, a, w, n, v) ==
    /\ \A i \in 1..Len(q) : a < q[i].n /\ q[i].n <= n /\ Whole(q[i])
    /\ \A i \in 1..(Len(q) - 1) : /\ q[i].n < q[i + 1].n
                                  /\ q[i + 1].n = q[i].n + 1 => Follows(q[i].after, q[i + 1])
    /\ a <= n
    /\ q # <<>> /\ a > 0 /\ q[1].n = a + 1 => Follows(w, q[1])
    /\ q # <<>> /\ q[Len(q)].n = n => v = q[Len(q)].after
    /\ q = <<>> /\ a > 0 /\ a = n => v = w

Carried ==
    /\ inbox \in Seq(Messages) /\ msg \in Seq(Messages)
    /\ IF wsPc = "handle" THEN Len(msg) = 1 ELSE msg = <<>>

Sequel == Chain(msg \o inbox, at, want, pushes, Scope(venue))

\* The book brought up to b, but for the levels f.
Tracks(b, f) ==
    /\ Matches(book.bids, zero.bids, b.bids, f.bids)
    /\ Matches(book.asks, zero.asks, b.asks, f.asks)

Exact == ~ missed => at > 0 /\ Tracks(want, fell)

\* Until Run reads from a socket of its own, conn is nil or Connect's.
Held ==
    /\ open \ {conn} \subseteq {1}
    /\ wsPc \in {"connect", "write", "top", "dial", "wait"} => conn \in {None, 1}
    /\ wsPc = "connect" => dials = 0
    /\ wsPc = "ended" /\ ~ done => conn \in {None, 1}

\* An update t of the levels of t.of.
Lists(t) ==
    /\ t.bids \in Seq(t.of.bids) /\ FirstOf(t.bids, t.of.bids, TRUE)
    /\ t.asks \in Seq(t.of.asks) /\ FirstOf(t.asks, t.of.asks, FALSE)

FeedIInv == FeedTypeOK /\ Carried /\ Sequel /\ Exact /\ Held /\ Lists(top)
-----------------------------------------------------------------------------
(* Messages under way *)

\* What a message is made of.
LEMMA Numbered ==
    ASSUME NEW m \in Messages
    PROVE  m.n \in Nat /\ m.n \in 1..MaxPushes /\ m.after \in Book
  BY KrakenAssumption DEF Messages

\* The last messages are lost ...
LEMMA ChainCut ==
    ASSUME NEW q \in Seq(Messages), NEW a \in Nat, NEW w, NEW n \in Nat, NEW v,
           Chain(q, a, w, n, v), NEW k \in 0..Len(q), NEW r, r = SubSeq(q, 1, k)
    PROVE  r \in Seq(Messages) /\ Chain(r, a, w, n, v)
<1>1. PICK l \in Nat : l = Len(q)
  OBVIOUS
<1>2. r \in Seq(Messages) /\ Len(r) = k /\ \A i \in 1..k : r[i] = q[i]
  BY <1>1
<1>3. \A i \in 1..l : q[i] \in Messages /\ q[i].n \in Nat
  BY <1>1, Numbered
<1>4. CASE k = l
  <2>1. r = q
    BY <1>1, <1>2, <1>4, SeqEqual
  <2> QED BY <2>1
<1>5. CASE k < l
  <2>1. \A i \in 1..k : a < r[i].n /\ r[i].n <= n /\ Whole(r[i])
    BY <1>1, <1>2, <1>5 DEF Chain
  <2>2. \A i \in 1..(k - 1) : /\ r[i].n < r[i + 1].n
                              /\ r[i + 1].n = r[i].n + 1 => Follows(r[i].after, r[i + 1])
    <3> SUFFICES ASSUME NEW i \in 1..(k - 1)
                 PROVE  /\ r[i].n < r[i + 1].n
                        /\ r[i + 1].n = r[i].n + 1 => Follows(r[i].after, r[i + 1])
      OBVIOUS
    <3>1. i \in 1..(l - 1) /\ i \in 1..k /\ i + 1 \in 1..k
      BY <1>1, <1>5
    <3>2. r[i] = q[i] /\ r[i + 1] = q[i + 1]
      BY <3>1, <1>2
    <3> QED BY <3>1, <3>2, <1>1 DEF Chain
  <2>3. k > 0 => r[k].n # n
    <3> SUFFICES ASSUME k > 0 PROVE r[k].n # n
      OBVIOUS
    <3>1. k \in 1..(l - 1) /\ k \in 1..l /\ k + 1 \in 1..l /\ r[k] = q[k]
      BY <1>1, <1>2, <1>5
    <3>2. q[k].n < q[k + 1].n /\ q[k + 1].n <= n
      BY <3>1, <1>1 DEF Chain
    <3>3. q[k].n \in Nat /\ q[k + 1].n \in Nat
      BY <3>1, <1>3
    <3> QED BY <3>1, <3>2, <3>3
  <2>4. a < n
    <3>1. 1 \in 1..l
      BY <1>5
    <3>2. a < q[1].n /\ q[1].n <= n /\ q[1].n \in Nat
      BY <3>1, <1>1, <1>3 DEF Chain
    <3> QED BY <3>2
  <2>5. r # <<>> => k > 0 /\ r[1] = q[1] /\ q # <<>>
    BY <1>1, <1>2, <1>5
  <2>6. r # <<>> /\ a > 0 /\ r[1].n = a + 1 => Follows(w, r[1])
    BY <2>5 DEF Chain
  <2> QED BY <1>2, <2>1, <2>2, <2>3, <2>4, <2>5, <2>6 DEF Chain
<1> QED BY <1>1, <1>4, <1>5

\* ... the first one is handled ...
LEMMA ChainHandled ==
    ASSUME NEW q \in Seq(Messages), NEW a \in Nat, NEW w, NEW n \in Nat, NEW v,
           Chain(q, a, w, n, v), q # <<>>, NEW r, r = Tail(q)
    PROVE  Chain(r, q[1].n, q[1].after, n, v)
<1>1. PICK l \in Nat \ {0} : l = Len(q)
  OBVIOUS
<1>2. r \in Seq(Messages) /\ Len(r) = l - 1 /\ \A i \in 1..(l - 1) : r[i] = q[i + 1]
  BY <1>1
<1>3. \A i \in 1..l : q[i] \in Messages /\ q[i].n \in Nat
  BY <1>1, Numbered
<1> DEFINE T == {i \in Nat : i + 1 \in 1..l /\ i >= 1 => q[1].n < q[i + 1].n}
<1>4. \A i \in 1..(l - 1) : q[1].n < q[i + 1].n
  <2>1. 0 \in T
    OBVIOUS
  <2>2. ASSUME NEW i \in T PROVE i + 1 \in T
    <3> SUFFICES ASSUME (i + 1) + 1 \in 1..l PROVE q[1].n < q[(i + 1) + 1].n
      OBVIOUS
    <3>1. i + 1 \in 1..(l - 1) /\ i + 1 \in 1..l /\ 1 \in 1..l /\ i \in Nat
      BY <1>1
    <3>2. q[i + 1].n < q[(i + 1) + 1].n
      BY <3>1, <1>1 DEF Chain
    <3>3. q[1].n \in Nat /\ q[i + 1].n \in Nat /\ q[(i + 1) + 1].n \in Nat
      BY <3>1, <1>3
    <3>4. i = 0 \/ q[1].n < q[i + 1].n
      BY <3>1
    <3> QED BY <3>2, <3>3, <3>4
  <2>3. T = Nat
    <3>1. T \in SUBSET Nat
      OBVIOUS
    <3> HIDE DEF T
    <3> QED BY <3>1, <2>1, <2>2, SetInduction
  <2> SUFFICES ASSUME NEW i \in 1..(l - 1) PROVE q[1].n < q[i + 1].n
    OBVIOUS
  <2>4. i \in Nat /\ i + 1 \in 1..l /\ i >= 1
    OBVIOUS
  <2>5. i \in T
    BY <2>3, <2>4
  <2> QED BY <2>4, <2>5
<1>5. \A i \in 1..(l - 1) : q[1].n < r[i].n /\ r[i].n <= n /\ Whole(r[i])
  <2> SUFFICES ASSUME NEW i \in 1..(l - 1)
               PROVE  q[1].n < r[i].n /\ r[i].n <= n /\ Whole(r[i])
    OBVIOUS
  <2>1. i + 1 \in 1..l /\ r[i] = q[i + 1]
    BY <1>1, <1>2
  <2> QED BY <2>1, <1>1, <1>4 DEF Chain
<1>6. \A i \in 1..((l - 1) - 1) :
        /\ r[i].n < r[i + 1].n
        /\ r[i + 1].n = r[i].n + 1 => Follows(r[i].after, r[i + 1])
  <2> SUFFICES ASSUME NEW i \in 1..((l - 1) - 1)
               PROVE  /\ r[i].n < r[i + 1].n
                      /\ r[i + 1].n = r[i].n + 1 => Follows(r[i].after, r[i + 1])
    OBVIOUS
  <2>1. i + 1 \in 1..(l - 1) /\ i \in 1..(l - 1)
    BY <1>1
  <2>2. r[i] = q[i + 1] /\ r[i + 1] = q[(i + 1) + 1]
    BY <2>1, <1>2
  <2> QED BY <2>1, <2>2, <1>1 DEF Chain
<1>7. q[1].n <= n /\ 1 \in 1..l
  BY <1>1 DEF Chain
<1>8. r # <<>> => 1 \in 1..(l - 1) /\ r[1] = q[1 + 1] /\ r[l - 1] = q[l]
  BY <1>1, <1>2
<1>9. r # <<>> /\ r[1].n = q[1].n + 1 => Follows(q[1].after, r[1])
  BY <1>1, <1>8 DEF Chain
<1>10. r # <<>> /\ r[l - 1].n = n => v = r[l - 1].after
  BY <1>1, <1>8 DEF Chain
<1>11. r = <<>> /\ q[1].n = n => v = q[1].after
  <2>1. r = <<>> => l = 1
    <3>1. r \in Seq(Messages) /\ Len(r) = l - 1
      BY <1>2
    <3>2. r = <<>> => Len(r) = 0
      OBVIOUS
    <3> QED BY <3>1, <3>2
  <2> QED BY <2>1, <1>1 DEF Chain
<1> QED BY <1>2, <1>5, <1>6, <1>7, <1>9, <1>10, <1>11 DEF Chain

\* ... Kraken sends one that does not arrive ...
LEMMA ChainMissed ==
    ASSUME NEW q \in Seq(Messages), NEW a \in Nat, NEW w, NEW n \in Nat, NEW v,
           Chain(q, a, w, n, v), NEW u
    PROVE  Chain(q, a, w, n + 1, u)
<1>1. PICK l \in Nat : l = Len(q)
  OBVIOUS
<1>2. \A i \in 1..l : q[i].n \in Nat
  BY <1>1, Numbered
<1>3. \A i \in 1..l : a < q[i].n /\ q[i].n <= n + 1 /\ q[i].n # n + 1 /\ Whole(q[i])
  BY <1>1, <1>2 DEF Chain
<1>4. a <= n + 1 /\ a # n + 1
  BY DEF Chain
<1>5. q # <<>> => l \in 1..l
  BY <1>1
<1>6. q # <<>> => q[l].n # n + 1
  BY <1>3, <1>5
<1> QED BY <1>1, <1>3, <1>4, <1>6 DEF Chain

\* ... and one that does.
LEMMA ChainPushed ==
    ASSUME NEW q \in Seq(Messages), NEW a \in Nat, NEW w, NEW n \in Nat, NEW v,
           Chain(q, a, w, n, v), NEW m \in Messages, m.n = n + 1, Whole(m), Follows(v, m),
           NEW r, r = Append(q, m)
    PROVE  Chain(r, a, w, n + 1, m.after)
<1>1. PICK l \in Nat : l = Len(q)
  OBVIOUS
<1>2. /\ r \in Seq(Messages) /\ Len(r) = l + 1 /\ r[l + 1] = m
      /\ \A i \in 1..l : r[i] = q[i]
  BY <1>1
<1>3. \A i \in 1..l : q[i].n \in Nat /\ a < q[i].n /\ q[i].n <= n /\ Whole(q[i])
  <2>1. \A i \in 1..l : q[i].n \in Nat
    BY <1>1, Numbered
  <2> QED BY <1>1, <2>1 DEF Chain
<1>4. a <= n
  BY DEF Chain
<1>5. \A i \in 1..(l + 1) : a < r[i].n /\ r[i].n <= n + 1 /\ Whole(r[i])
  <2> SUFFICES ASSUME NEW i \in 1..(l + 1)
               PROVE  a < r[i].n /\ r[i].n <= n + 1 /\ Whole(r[i])
    OBVIOUS
  <2>0. i \in 1..l \/ i = l + 1
    OBVIOUS
  <2>1. CASE i \in 1..l
    BY <1>2, <1>3, <2>1
  <2>2. CASE i = l + 1
    BY <1>2, <1>4, <2>2
  <2> QED BY <2>0, <2>1, <2>2
<1>6. \A i \in 1..l : /\ r[i].n < r[i + 1].n
                      /\ r[i + 1].n = r[i].n + 1 => Follows(r[i].after, r[i + 1])
  <2> SUFFICES ASSUME NEW i \in 1..l
               PROVE  /\ r[i].n < r[i + 1].n
                      /\ r[i + 1].n = r[i].n + 1 => Follows(r[i].after, r[i + 1])
    OBVIOUS
  <2>1. CASE i \in 1..(l - 1)
    <3>1. r[i] = q[i] /\ r[i + 1] = q[i + 1]
      BY <1>1, <1>2, <2>1
    <3> QED BY <3>1, <1>1, <2>1 DEF Chain
  <2>2. CASE i = l
    <3>1. r[i] = q[l] /\ r[i + 1] = m /\ q[l].n \in Nat /\ q[l].n <= n
      BY <1>1, <1>2, <1>3, <2>2
    <3>2. q # <<>>
      BY <1>1, <2>2
    <3>3. q[l].n = n => v = q[l].after
      BY <1>1, <3>2 DEF Chain
    <3> QED BY <3>1, <3>3
  <2> QED BY <1>1, <2>1, <2>2
<1>7. a > 0 /\ r[1].n = a + 1 => Follows(w, r[1])
  <2> SUFFICES ASSUME a > 0, r[1].n = a + 1 PROVE Follows(w, r[1])
    OBVIOUS
  <2>1. CASE l = 0
    <3>1. r[1] = m /\ q = <<>> /\ a = n
      BY <1>1, <1>2, <1>4, <2>1
    <3>2. v = w
      BY <3>1 DEF Chain
    <3> QED BY <3>1, <3>2
  <2>2. CASE l # 0
    <3>1. r[1] = q[1] /\ q # <<>>
      BY <1>1, <1>2, <2>2
    <3> QED BY <3>1 DEF Chain
  <2> QED BY <2>1, <2>2
<1>8. r # <<>> /\ a <= n + 1 /\ (l + 1) - 1 = l
  BY <1>1, <1>2, <1>4
<1> QED BY <1>1, <1>2, <1>5, <1>6, <1>7, <1>8 DEF Chain
-----------------------------------------------------------------------------
(* The client *)

\* The back-off stays between its bounds.
LEMMA Backoffs ==
    ASSUME NEW b \in MinBackoff..MaxBackoff, NEW c \in NextBackoff(b)
    PROVE  c \in MinBackoff..MaxBackoff
<1>1. PICK x \in (2 * b)..(3 * b) : c = IF x > MaxBackoff THEN MaxBackoff ELSE x
  BY DEF NextBackoff
<1> QED BY <1>1, WsAssumption

\* The client's steps keep its types ...
LEMMA WsKeepsTypes ==
    ASSUME WsTypeOK, WsStep \/ WsEnvironment
    PROVE  WsTypeOK'
<1> USE WsAssumption DEF WsTypeOK, Sockets, None, closeVars, socketVars
<1>0. ASSUME Dialled
      PROVE  /\ dials' \in 0..MaxDials /\ conn' \in Sockets /\ broken' \in BOOLEAN
             /\ open' \subseteq 1..dials' /\ subscribed' \subseteq 1..dials'
  <2>1. dials \in Nat /\ dials < MaxDials /\ dials' = dials + 1 /\ conn' = dials + 1
    BY <1>0 DEF Dialled
  <2>2. open' \subseteq 1..(dials + 1) /\ subscribed' \subseteq 1..(dials + 1)
    BY <1>0, <2>1 DEF Dialled
  <2>3. dials + 1 \in 0..MaxDials /\ dials + 1 \in Sockets
    BY <2>1
  <2>4. broken' \in BOOLEAN
    BY <1>0 DEF Dialled
  <2> QED BY <2>1, <2>2, <2>3, <2>4
<1>1. CASE Connect
  BY <1>0, <1>1 DEF Connect
<1>2. CASE WriteJSON
  <2>1. Live => conn \in 1..dials
    BY DEF Live
  <2>2. subscribed' \subseteq 1..dials
    BY <1>2, <2>1 DEF WriteJSON
  <2> QED BY <1>2, <2>2 DEF WriteJSON
<1>3. CASE Top
  BY <1>3 DEF Top
<1>4. CASE Dial
  BY <1>0, <1>4 DEF Dial
<1>5. CASE DialFails
  <2>1. wsBackoff' \in MinBackoff..MaxBackoff
    BY <1>5, Backoffs DEF DialFails
  <2> QED BY <1>5, <2>1 DEF DialFails
<1>6. CASE Wait
  BY <1>6 DEF Wait
<1>7. CASE Read
  BY <1>7 DEF Read
<1>8. CASE Recv
  BY <1>8 DEF Recv
<1>9. CASE RecvFails
  BY <1>9 DEF RecvFails
<1>10. CASE Clean
  <2>1. wsBackoff' \in MinBackoff..MaxBackoff
    BY <1>10, Backoffs DEF Clean
  <2>2. open' \subseteq 1..dials /\ conn' \in Sockets \cup {None}
    BY <1>10 DEF Clean, Dropped
  <2> QED BY <1>10, <2>1, <2>2 DEF Clean, Dropped
<1>11. CASE Close
  BY <1>11 DEF Close
<1>12. CASE CloseConn
  BY <1>12 DEF CloseConn
<1>13. CASE Cancel
  BY <1>13 DEF Cancel
<1>14. CASE Cut
  BY <1>14 DEF Cut
<1> QED BY <1>1, <1>2, <1>3, <1>4, <1>5, <1>6, <1>7, <1>8, <1>9, <1>10, <1>11, <1>12,
           <1>13, <1>14 DEF WsStep, WsEnvironment

\* ... and what it holds on to ...
LEMMA WsKeepsHeld ==
    ASSUME WsTypeOK, Held, WsStep \/ WsEnvironment
    PROVE  Held'
<1> USE DEF Held, None, closeVars, socketVars
<1>1. CASE Connect
  <2>1. dials = 0 /\ open = {} /\ conn \in {None, 1}
    BY <1>1 DEF Connect, WsTypeOK
  <2> QED BY <1>1, <2>1 DEF Connect, Dialled
<1>2. CASE WriteJSON
  BY <1>2 DEF WriteJSON
<1>3. CASE Top
  BY <1>3 DEF Top
<1>4. CASE Dial
  <2>1. conn \in {0, 1} /\ open \subseteq {1}
    BY <1>4 DEF Dial, WsTypeOK
  <2> QED BY <1>4, <2>1 DEF Dial, Dialled
<1>5. CASE DialFails
  BY <1>5 DEF DialFails
<1>6. CASE Wait
  BY <1>6 DEF Wait
<1>7. CASE Read
  BY <1>7 DEF Read
<1>8. CASE Recv
  BY <1>8 DEF Recv
<1>9. CASE RecvFails
  BY <1>9 DEF RecvFails
<1>10. CASE Clean
  BY <1>10 DEF Clean, Dropped
<1>11. CASE Close
  BY <1>11 DEF Close
<1>12. CASE CloseConn
  BY <1>12 DEF CloseConn
<1>13. CASE Cancel
  BY <1>13 DEF Cancel
<1>14. CASE Cut
  BY <1>14 DEF Cut
<1> QED BY <1>1, <1>2, <1>3, <1>4, <1>5, <1>6, <1>7, <1>8, <1>9, <1>10, <1>11, <1>12,
           <1>13, <1>14 DEF WsStep, WsEnvironment

\* Nothing under way, one message taken out of the queue, and the queue cut short.
LEMMA Queues ==
    ASSUME NEW q \in Seq(Messages), NEW m \in Seq(Messages)
    PROVE  /\ m \o q \in Seq(Messages) /\ Len(m \o q) = Len(m) + Len(q)
           /\ SubSeq(m \o q, 1, Len(m \o q)) = m \o q
           /\ SubSeq(m \o q, 1, 0) = <<>>
           /\ m = <<>> => m \o q = q
           /\ q # <<>> => <<Head(q)>> \o Tail(q) = q
           /\ \A k \in 0..Len(q) : m \o SubSeq(q, 1, k) = SubSeq(m \o q, 1, Len(m) + k)
<1>1. m \o q \in Seq(Messages) /\ Len(m \o q) = Len(m) + Len(q)
  BY ConcatProperties
<1>2. SubSeq(m \o q, 1, Len(m \o q)) = m \o q
  BY <1>1, SubSeqFull
<1>3. SubSeq(m \o q, 1, 0) = <<>>
  BY SubSeqEmpty
<1>4. m = <<>> => m \o q = q
  BY ConcatEmptySeq
<1>5. q # <<>> => <<Head(q)>> \o Tail(q) = q
  <2> SUFFICES ASSUME q # <<>> PROVE <<Head(q)>> \o Tail(q) = q
    OBVIOUS
  <2>1. <<Head(q)>> \in Seq(Messages) /\ Tail(q) \in Seq(Messages) /\ Len(q) \in Nat \ {0}
    OBVIOUS
  <2>2. PICK l \in Nat \ {0} : l = Len(q)
    BY <2>1
  <2>3. PICK x \in Nat : x = l - 1
    BY <2>2
  <2>4. PICK r, s, t : s = <<Head(q)>> /\ t = Tail(q) /\ r = s \o t
    OBVIOUS
  <2>5. /\ r \in Seq(Messages) /\ Len(r) = l
        /\ \A j \in 1..l : r[j] = IF j <= 1 THEN s[j] ELSE t[j - 1]
    <3>1. s \in Seq(Messages) /\ t \in Seq(Messages) /\ Len(s) = 1 /\ Len(t) = x
      BY <2>1, <2>2, <2>3, <2>4
    <3>2. r \in Seq(Messages) /\ Len(r) = Len(s) + Len(t) /\ Joins(Len(s), s, Len(t), t, r)
      BY <3>1, <2>4, Joined
    <3>3. Len(r) = l /\ Joins(1, s, x, t, r) /\ 1 + x = l
      BY <3>1, <3>2, <2>3
    <3> QED BY <3>2, <3>3 DEF Joins
  <2>6. \A j \in 1..l : r[j] = q[j]
    <3>1. s[1] = q[1] /\ \A j \in 1..x : t[j] = q[j + 1]
      BY <2>1, <2>2, <2>3, <2>4
    <3>2. ASSUME NEW j \in 1..l PROVE r[j] = q[j]
      <4>1. CASE j = 1
        BY <4>1, <3>1, <2>5
      <4>2. CASE j # 1
        <5>1. j - 1 \in 1..x /\ (j - 1) + 1 = j
          BY <4>2, <2>3
        <5>2. r[j] = t[j - 1]
          BY <4>2, <2>5
        <5>3. t[j - 1] = q[(j - 1) + 1]
          BY <5>1, <3>1
        <5> QED BY <5>1, <5>2, <5>3
      <4> QED BY <4>1, <4>2
    <3> QED BY <3>2
  <2> QED BY <2>2, <2>4, <2>5, <2>6, SeqEqual
<1>6. ASSUME NEW k \in 0..Len(q)
      PROVE  m \o SubSeq(q, 1, k) = SubSeq(m \o q, 1, Len(m) + k)
  <2>1. PICK l \in Nat, d \in Nat : l = Len(q) /\ d = Len(m)
    OBVIOUS
  <2>2. PICK s : s = SubSeq(q, 1, k)
    OBVIOUS
  <2>3. s \in Seq(Messages) /\ Len(s) = k /\ \A j \in 1..k : s[j] = q[j]
    BY <2>1, <2>2
  <2>4. PICK r : r = m \o s
    OBVIOUS
  <2>5. /\ r \in Seq(Messages) /\ Len(r) = d + k
        /\ \A j \in 1..(d + k) : r[j] = IF j <= d THEN m[j] ELSE s[j - d]
    <3>1. r \in Seq(Messages) /\ Len(r) = Len(m) + Len(s) /\ Joins(Len(m), m, Len(s), s, r)
      BY <2>3, <2>4, Joined
    <3>2. Len(r) = d + k /\ Joins(d, m, k, s, r)
      BY <3>1, <2>1, <2>3
    <3> QED BY <3>1, <3>2 DEF Joins
  <2>6. PICK c : c = m \o q
    OBVIOUS
  <2>7. /\ c \in Seq(Messages) /\ Len(c) = d + l
        /\ \A j \in 1..(d + l) : c[j] = IF j <= d THEN m[j] ELSE q[j - d]
    <3>1. c \in Seq(Messages) /\ Len(c) = Len(m) + Len(q) /\ Joins(Len(m), m, Len(q), q, c)
      BY <2>6, Joined
    <3>2. Len(c) = d + l /\ Joins(d, m, l, q, c)
      BY <3>1, <2>1
    <3> QED BY <3>1, <3>2 DEF Joins
  <2>8. PICK e : e = SubSeq(c, 1, d + k)
    OBVIOUS
  <2>9. e \in Seq(Messages) /\ Len(e) = d + k /\ \A j \in 1..(d + k) : e[j] = c[j]
    BY <2>1, <2>7, <2>8
  <2>10. ASSUME NEW j \in 1..(d + k) PROVE r[j] = e[j]
    <3>1. CASE j <= d
      BY <3>1, <2>1, <2>5, <2>7, <2>9
    <3>2. CASE ~ (j <= d)
      <4>1. j - d \in 1..k /\ j \in 1..(d + l)
        BY <3>2, <2>1
      <4>2. r[j] = s[j - d] /\ s[j - d] = q[j - d]
        BY <4>1, <3>2, <2>3, <2>5
      <4>3. e[j] = c[j] /\ c[j] = q[j - d]
        BY <4>1, <3>2, <2>7, <2>9
      <4> QED BY <4>2, <4>3
    <3> QED BY <3>1, <3>2
  <2>11. r = e
    BY <2>1, <2>5, <2>9, <2>10, SeqEqual
  <2> QED BY <2>1, <2>2, <2>4, <2>6, <2>8, <2>11
<1> QED BY <1>1, <1>2, <1>3, <1>4, <1>5, <1>6

\* ... and of the messages under way they lose the last ones at most.
LEMMA WsCutsQueue ==
    ASSUME Carried, WsStep \/ WsEnvironment
    PROVE  /\ Carried'
           /\ \E k \in 0..Len(msg \o inbox) : (msg \o inbox)' = SubSeq(msg \o inbox, 1, k)
<1>1. PICK q \in Seq(Messages), m \in Seq(Messages) : q = inbox /\ m = msg
  BY DEF Carried
<1>2. PICK c \in Seq(Messages) : c = m \o q
  BY ConcatProperties
<1>3. /\ c = SubSeq(c, 1, Len(c)) /\ <<>> = SubSeq(c, 1, 0)
      /\ Len(c) \in Nat /\ Len(c) \in 0..Len(c) /\ 0 \in 0..Len(c)
  BY <1>2, Queues
<1>4. CASE UNCHANGED <<msg, inbox>> /\ (wsPc' = "handle" <=> wsPc = "handle")
  <2>1. Carried' /\ (msg \o inbox)' = c
    BY <1>1, <1>2, <1>4 DEF Carried
  <2> QED BY <2>1, <1>1, <1>2, <1>3
<1>5. CASE msg = <<>> /\ msg' = <<>> /\ inbox' = <<>> /\ wsPc' # "handle"
  <2>1. Carried'
    BY <1>5 DEF Carried
  <2>2. (msg \o inbox)' = <<>>
    BY <1>5
  <2> QED BY <2>1, <2>2, <1>1, <1>2, <1>3
<1>6. CASE Recv
  <2>1. q # <<>> /\ m = <<>> /\ msg' = <<Head(q)>> /\ inbox' = Tail(q) /\ wsPc' = "handle"
    BY <1>1, <1>6 DEF Recv, Carried
  <2>2. Head(q) \in Messages /\ Tail(q) \in Seq(Messages)
    BY <2>1
  <2>3. Carried'
    BY <2>1, <2>2 DEF Carried
  <2>4. (msg \o inbox)' = c
    BY <2>1, <1>2, Queues
  <2> QED BY <2>3, <2>4, <1>1, <1>2, <1>3
<1>7. CASE Cut
  <2>1. PICK n \in 0..Len(q) : inbox' = SubSeq(q, 1, n)
    BY <1>1, <1>7 DEF Cut
  <2>2. msg' = m /\ wsPc' = wsPc
    BY <1>1, <1>7 DEF Cut
  <2>3. SubSeq(q, 1, n) \in Seq(Messages)
    BY <2>1
  <2>4. Carried'
    BY <2>1, <2>2, <2>3, <1>1 DEF Carried
  <2>5. (msg \o inbox)' = SubSeq(c, 1, Len(m) + n)
    BY <2>1, <2>2, <1>2, Queues
  <2>6. Len(m) + n \in 0..Len(c)
    BY <2>1, <1>2, Queues
  <2> QED BY <2>4, <2>5, <2>6, <1>1, <1>2
<1>8. CASE Connect \/ WriteJSON \/ Top \/ Dial \/ DialFails \/ Wait \/ Read \/ RecvFails \/ Clean
  BY <1>4, <1>5, <1>8 DEF Connect, WriteJSON, Top, Dial, DialFails, Wait, Read, RecvFails,
     Clean, Dialled, Dropped, Carried, closeVars, socketVars
<1>9. CASE Close \/ CloseConn \/ Cancel
  BY <1>4, <1>9 DEF Close, CloseConn, Cancel, closeVars, socketVars
<1> QED BY <1>6, <1>7, <1>8, <1>9 DEF WsStep, WsEnvironment
-----------------------------------------------------------------------------
(* The handler and Kraken *)

\* The message that is handled is the first one under way.
LEMMA HandledFirst ==
    ASSUME NEW s \in Seq(Messages), NEW q \in Seq(Messages), Len(s) = 1
    PROVE  /\ s \o q \in Seq(Messages) /\ s \o q # <<>> /\ (s \o q)[1] = s[1]
           /\ Tail(s \o q) = q /\ s[1] \in Messages
<1>0. PICK l \in Nat : l = Len(q)
  OBVIOUS
<1>1. PICK c : l = Len(q) /\ c = s \o q
  BY <1>0
<1>2. c \in Seq(Messages) /\ Len(c) = Len(s) + Len(q) /\ Joins(Len(s), s, Len(q), q, c)
  BY <1>1, Joined
<1>3. /\ Len(c) = 1 + l /\ c[1] = s[1]
      /\ \A j \in 1..(1 + l) : c[j] = IF j <= 1 THEN s[j] ELSE q[j - 1]
  <2>1. Len(c) = 1 + l /\ Joins(1, s, l, q, c)
    BY <1>1, <1>2
  <2> QED BY <1>1, <2>1 DEF Joins
<1>4. PICK r : r = Tail(c)
  OBVIOUS
<1>5. r \in Seq(Messages) /\ Len(r) = l /\ \A j \in 1..l : r[j] = c[j + 1]
  BY <1>2, <1>3, <1>4
<1>6. ASSUME NEW j \in 1..l PROVE r[j] = q[j]
  <2>1. j + 1 \in 1..(1 + l) /\ ~ (j + 1 <= 1) /\ (j + 1) - 1 = j
    OBVIOUS
  <2>2. c[j + 1] = q[(j + 1) - 1]
    BY <2>1, <1>3
  <2> QED BY <2>1, <2>2, <1>5
<1>7. r = q
  BY <1>1, <1>5, <1>6, SeqEqual
<1>8. c # <<>>
  <2>1. Len(c) # 0
    BY <1>3
  <2> QED BY <2>1
<1> QED BY <1>1, <1>2, <1>3, <1>4, <1>7, <1>8

\* A side of a book is a finite set of prices.
LEMMA Sides ==
    ASSUME NEW b \in Book
    PROVE  /\ b.bids \in SUBSET Prices /\ IsFiniteSet(b.bids) /\ b.bids \subseteq Bids
           /\ b.asks \in SUBSET Prices /\ IsFiniteSet(b.asks) /\ b.asks \subseteq Asks
<1>1. b.bids \in SUBSET Bids /\ b.asks \in SUBSET Asks
  BY DEF Book
<1>2. Bids \subseteq Prices /\ IsFiniteSet(Bids) /\ Asks \subseteq Prices /\ IsFiniteSet(Asks)
  BY KrakenAssumption
<1>3. IsFiniteSet(b.bids) /\ IsFiniteSet(b.asks)
  BY <1>1, <1>2, FS_Subset
<1> QED BY <1>1, <1>2, <1>3

\* What emitUpdate sends.
LEMMA Emitted ==
    ASSUME NEW b \in Book, NEW bs \in CollectLevels(b.bids, TRUE),
           NEW as \in CollectLevels(b.asks, FALSE),
           NEW t, t = [bids |-> bs, asks |-> as, of |-> b]
    PROVE  /\ Lists(t)
           /\ t.bids \in Seq(Bids) /\ t.asks \in Seq(Asks) /\ t.of \in Book
<1>1. bs \in Seq(b.bids) /\ FirstOf(bs, b.bids, TRUE)
  BY Sides, CollectedAreFirst
<1>2. as \in Seq(b.asks) /\ FirstOf(as, b.asks, FALSE)
  BY Sides, CollectedAreFirst
<1>3. bs \in Seq(Bids) /\ as \in Seq(Asks)
  BY <1>1, <1>2, Sides, SeqMonotonic
<1>4. t.bids = bs /\ t.asks = as /\ t.of = b
  OBVIOUS
<1> QED BY <1>1, <1>2, <1>3, <1>4 DEF Lists

\* The best levels of a book are a book, a part of it.
LEMMA Scopes ==
    ASSUME NEW b \in Book
    PROVE  /\ Scope(b) \in Book
           /\ Scope(b).bids \subseteq b.bids /\ Scope(b).asks \subseteq b.asks
  BY DEF Scope, Book

\* The parts of a book and of a message.
LEMMA Parts ==
    ASSUME NEW m \in Messages
    PROVE  /\ m.kind \in {"full", "change"}
           /\ m.bids \in SUBSET Bids /\ m.asks \in SUBSET Asks
           /\ m.off \in Book /\ m.gone \in Book /\ m.after \in Book
  BY DEF Messages

\* What the handler makes of a message that follows the last one handled.
LEMMA Applied ==
    ASSUME NEW m \in Messages, FeedTypeOK, Exact, Whole(m), at < m.n,
           at > 0 /\ m.n = at + 1 => Follows(want, m), Apply(m)
    PROVE  /\ book' \in Book /\ zero' \in Book /\ fell' \in Book
           /\ lastSeq' \in {"zero", "set"} /\ missed' \in BOOLEAN
           /\ ~ missed' => /\ Matches(book'.bids, zero'.bids, m.after.bids, fell'.bids)
                           /\ Matches(book'.asks, zero'.asks, m.after.asks, fell'.asks)
<1>1. /\ book \in Book /\ zero \in Book /\ want \in Book /\ fell \in Book
      /\ lastSeq \in {"zero", "set"} /\ missed \in BOOLEAN /\ at \in Nat /\ Empty \in Book
  BY KrakenAssumption DEF FeedTypeOK, Empty, Book
<1>2. CASE ApplySnapshot(m)
  <2>1. /\ book' = [bids |-> m.bids, asks |-> m.asks] /\ zero' = m.off /\ fell' = Empty
        /\ missed' = (m.kind # "full") /\ lastSeq' = lastSeq
    BY <1>2 DEF ApplySnapshot
  <2>2. book' \in Book
    BY <2>1, Parts DEF Book
  <2>3. zero' \in Book /\ fell' \in Book /\ missed' \in BOOLEAN /\ lastSeq' \in {"zero", "set"}
    BY <1>1, <2>1, Parts
  <2>4. ASSUME m.kind = "full"
        PROVE  /\ Matches(book'.bids, zero'.bids, m.after.bids, fell'.bids)
               /\ Matches(book'.asks, zero'.asks, m.after.asks, fell'.asks)
    <3>1. /\ book'.bids = m.after.bids /\ book'.asks = m.after.asks
          /\ zero'.bids = {} /\ zero'.asks = {}
      BY <2>1, <2>4 DEF Whole, Empty
    <3> QED BY <3>1 DEF Matches
  <2> QED BY <2>1, <2>2, <2>3, <2>4
<1>3. ASSUME NEW elapsed \in 0..2, ApplyDiff(m, elapsed)
      PROVE  /\ book' \in Book /\ zero' \in Book /\ fell' \in Book
             /\ lastSeq' \in {"zero", "set"} /\ missed' \in BOOLEAN
             /\ ~ missed' => /\ Matches(book'.bids, zero'.bids, m.after.bids, fell'.bids)
                             /\ Matches(book'.asks, zero'.asks, m.after.asks, fell'.asks)
  <2>1. Diffed(m) \in Book /\ Zeroed(m) \in Book /\ Fallen(m) \in Book
    <3>1. /\ m.off.bids \subseteq Bids /\ m.off.asks \subseteq Asks
          /\ m.bids \subseteq Bids /\ m.asks \subseteq Asks
      BY Parts DEF Book
    <3>2. /\ book.bids \subseteq Bids /\ book.asks \subseteq Asks
          /\ zero.bids \subseteq Bids /\ zero.asks \subseteq Asks
          /\ want.bids \subseteq Bids /\ want.asks \subseteq Asks
          /\ fell.bids \subseteq Bids /\ fell.asks \subseteq Asks
      BY <1>1 DEF Book
    <3>3. Diffed(m) \in Book
      BY <3>1, <3>2 DEF Diffed, Book
    <3>4. Zeroed(m) \in Book
      BY <3>1, <3>2 DEF Zeroed, Book
    <3>5. Fallen(m) \in Book
      BY <3>1, <3>2 DEF Fallen, Book
    <3> QED BY <3>3, <3>4, <3>5
  <2>2. book' \in Book /\ zero' \in Book /\ fell' \in Book
    BY <1>1, <1>3, <2>1 DEF ApplyDiff
  <2>3. lastSeq' \in {"zero", "set"}
    BY <1>1, <1>3 DEF ApplyDiff
  <2>4. missed' \in BOOLEAN
    BY <1>1, <1>3 DEF ApplyDiff
  <2>5. ASSUME ~ missed'
        PROVE  /\ Matches(book'.bids, zero'.bids, m.after.bids, fell'.bids)
               /\ Matches(book'.asks, zero'.asks, m.after.asks, fell'.asks)
    <3>1. /\ ~ missed /\ m.kind # "full" /\ m.n = at + 1
          /\ book' = Diffed(m) /\ zero' = Zeroed(m) /\ fell' = Fallen(m)
      BY <1>3, <2>5 DEF ApplyDiff
    <3>2. m.kind = "change"
      BY <3>1, Parts
    <3>3. at > 0 /\ Tracks(want, fell)
      BY <3>1 DEF Exact
    <3>4. /\ Leads(want.bids, m.bids, m.off.bids, m.gone.bids, m.after.bids)
          /\ Leads(want.asks, m.asks, m.off.asks, m.gone.asks, m.after.asks)
      BY <3>1, <3>2, <3>3 DEF Follows
    <3>5. /\ Matches(book.bids, zero.bids, want.bids, fell.bids)
          /\ Matches(book.asks, zero.asks, want.asks, fell.asks)
      BY <3>3 DEF Tracks
    <3>6. Matches((book.bids \cup m.bids) \ m.gone.bids,
                  (zero.bids \ m.bids) \cup (m.off.bids \ m.gone.bids), m.after.bids,
                  (fell.bids \cup (want.bids \ m.after.bids)) \ m.bids)
      BY <3>4, <3>5, DiffMatches
    <3>7. Matches((book.asks \cup m.asks) \ m.gone.asks,
                  (zero.asks \ m.asks) \cup (m.off.asks \ m.gone.asks), m.after.asks,
                  (fell.asks \cup (want.asks \ m.after.asks)) \ m.asks)
      BY <3>4, <3>5, DiffMatches
    <3> QED BY <3>1, <3>6, <3>7 DEF Diffed, Zeroed, Fallen
  <2> QED BY <2>2, <2>3, <2>4, <2>5
<1>4. CASE missed' = TRUE /\ UNCHANGED <<book, zero, lastSeq, fell>>
  BY <1>1, <1>4
<1> QED BY <1>2, <1>3, <1>4 DEF Apply

\* The handler keeps the invariant.
LEMMA HandleKeeps ==
    ASSUME FeedIInv, Handle
    PROVE  FeedIInv'
<1>1. FeedTypeOK /\ Carried /\ Sequel /\ Exact /\ Held /\ Lists(top)
  BY DEF FeedIInv
<1>2. PICK s \in Seq(Messages), q \in Seq(Messages) : s = msg /\ q = inbox /\ Len(s) = 1
  BY <1>1 DEF Handle, Carried
<1>3. PICK m \in Messages : m = msg[1]
  BY <1>2
<1>4. PICK c \in Seq(Messages) : c = s \o q /\ c # <<>> /\ c[1] = m /\ Tail(c) = q
  BY <1>2, <1>3, HandledFirst
<1>5. at \in Nat /\ pushes \in Nat /\ m.n \in Nat /\ m.n \in 1..MaxPushes /\ m.after \in Book
  BY <1>1, Numbered, KrakenAssumption DEF FeedTypeOK
<1>6. Chain(c, at, want, pushes, Scope(venue))
  BY <1>1, <1>2, <1>4 DEF Sequel
<1>7. at < m.n /\ Whole(m) /\ (at > 0 /\ m.n = at + 1 => Follows(want, m))
  <2>1. 1 \in 1..Len(c)
    BY <1>4
  <2> QED BY <2>1, <1>4, <1>6 DEF Chain
<1>8. Chain(q, m.n, m.after, pushes, Scope(venue))
  BY <1>4, <1>5, <1>6, ChainHandled
<1>9. /\ Apply(m) /\ EmitUpdate(book') /\ at' = m.n /\ want' = m.after
      /\ msg' = <<>> /\ wsPc' = "read"
  BY <1>3 DEF Handle
<1>10. UNCHANGED <<conn, wsBackoff, closeVars, socketVars, unasked, venue, pushes>>
  BY DEF Handle
<1>11. /\ book' \in Book /\ zero' \in Book /\ fell' \in Book
       /\ lastSeq' \in {"zero", "set"} /\ missed' \in BOOLEAN
       /\ ~ missed' => /\ Matches(book'.bids, zero'.bids, m.after.bids, fell'.bids)
                       /\ Matches(book'.asks, zero'.asks, m.after.asks, fell'.asks)
  BY <1>1, <1>7, <1>9, Applied
<1>12. /\ Lists(top)' /\ top'.bids \in Seq(Bids) /\ top'.asks \in Seq(Asks)
       /\ top'.of \in Book
  <2>1. CASE UNCHANGED top
    BY <1>1, <2>1 DEF FeedTypeOK, Lists
  <2>2. PICK b \in Book : b = book'
    BY <1>11
  <2>3. CASE \E bs \in CollectLevels(b.bids, TRUE), as \in CollectLevels(b.asks, FALSE) :
               top' = [bids |-> bs, asks |-> as, of |-> b]
    <3>1. PICK t : t = top'
      OBVIOUS
    <3>2. /\ Lists(t)
          /\ t.bids \in Seq(Bids) /\ t.asks \in Seq(Asks) /\ t.of \in Book
      BY <2>3, <3>1, Emitted
    <3> QED BY <3>1, <3>2 DEF Lists
  <2> QED BY <1>9, <2>1, <2>2, <2>3 DEF EmitUpdate
<1>13. WsTypeOK'
  BY <1>1, <1>9, <1>10 DEF FeedTypeOK, WsTypeOK, closeVars, socketVars
<1>14. FeedTypeOK'
  <2>1. unasked' \in BOOLEAN /\ venue' \in Book /\ pushes' \in 0..MaxPushes
    BY <1>1, <1>10 DEF FeedTypeOK
  <2>2. at' \in 0..MaxPushes /\ want' \in Book
    BY <1>5, <1>9
  <2> QED BY <1>11, <1>12, <1>13, <2>1, <2>2 DEF FeedTypeOK
<1>15. Carried'
  BY <1>2, <1>9, <1>10 DEF Carried, socketVars
<1>16. Sequel'
  <2>1. (msg \o inbox)' = q
    BY <1>2, <1>9, <1>10, ConcatEmptySeq DEF socketVars
  <2> QED BY <1>8, <1>9, <1>10, <2>1 DEF Sequel
<1>17. Exact'
  BY <1>5, <1>7, <1>9, <1>11 DEF Exact, Tracks
<1>18. Held'
  BY <1>1, <1>9, <1>10 DEF Held, closeVars, socketVars
<1> QED BY <1>12, <1>14, <1>15, <1>16, <1>17, <1>18 DEF FeedIInv

\* A step of the client keeps the invariant.
LEMMA WsKeeps ==
    ASSUME FeedIInv, WsStep \/ WsEnvironment, UNCHANGED feed
    PROVE  FeedIInv'
<1>1. FeedTypeOK /\ Carried /\ Sequel /\ Exact /\ Held /\ Lists(top)
  BY DEF FeedIInv
<1>2. WsTypeOK' /\ Held' /\ Carried'
  BY <1>1, WsKeepsTypes, WsKeepsHeld, WsCutsQueue DEF FeedTypeOK
<1>3. FeedTypeOK' /\ Exact' /\ Lists(top)'
  BY <1>1, <1>2 DEF FeedTypeOK, Exact, Tracks, Lists, feed, bookVars
<1>4. PICK k \in 0..Len(msg \o inbox) : (msg \o inbox)' = SubSeq(msg \o inbox, 1, k)
  BY <1>1, WsCutsQueue
<1>5. PICK q \in Seq(Messages) : q = msg \o inbox
  BY <1>1, ConcatProperties DEF Carried
<1>6. PICK r : r = (msg \o inbox)'
  OBVIOUS
<1>7. at \in Nat /\ pushes \in Nat
  BY <1>1, KrakenAssumption DEF FeedTypeOK
<1>8. Chain(r, at, want, pushes, Scope(venue))
  BY <1>1, <1>4, <1>5, <1>6, <1>7, ChainCut DEF Sequel
<1>9. Sequel'
  BY <1>6, <1>8 DEF Sequel, feed, bookVars
<1> QED BY <1>2, <1>3, <1>9 DEF FeedIInv

\* Kraken's messages keep the invariant.
LEMMA PushKeeps ==
    ASSUME FeedIInv, NEW m, m.n = pushes + 1, Whole(m), Follows(Scope(venue), m),
           pushes < MaxPushes => m \in Messages, Push(m), venue' \in Book,
           Scope(venue') = m.after
    PROVE  FeedIInv'
<1>1. FeedTypeOK /\ Carried /\ Sequel /\ Exact /\ Held /\ Lists(top)
  BY DEF FeedIInv
<1>2. /\ m \in Messages /\ pushes \in Nat /\ pushes' = pushes + 1 /\ pushes' \in 0..MaxPushes
      /\ at \in Nat /\ m.after \in Book
  BY <1>1, KrakenAssumption, Numbered DEF Push, FeedTypeOK
<1>3. /\ UNCHANGED <<wsPc, conn, msg, wsBackoff, closeVars, dials, open, broken, subscribed,
                     unasked, bookVars>>
      /\ inbox' = inbox \/ inbox' = Append(inbox, m)
  BY DEF Push
<1>4. FeedTypeOK'
  BY <1>1, <1>2, <1>3 DEF FeedTypeOK, WsTypeOK, closeVars, bookVars
<1>5. Carried'
  BY <1>1, <1>2, <1>3 DEF Carried
<1>6. Exact' /\ Held' /\ Lists(top)'
  BY <1>1, <1>3 DEF Exact, Tracks, Held, Lists, closeVars, bookVars
<1>7. PICK s \in Seq(Messages), q \in Seq(Messages) : s = msg /\ q = inbox
  BY <1>1 DEF Carried
<1>8. PICK c \in Seq(Messages) : c = s \o q
  BY ConcatProperties
<1>9. Chain(c, at, want, pushes, Scope(venue))
  BY <1>1, <1>7, <1>8 DEF Sequel
<1>10. CASE inbox' = inbox
  <2>1. Chain(c, at, want, pushes + 1, m.after)
    BY <1>2, <1>9, ChainMissed
  <2>2. (msg \o inbox)' = c
    BY <1>3, <1>7, <1>8, <1>10
  <2> QED BY <1>2, <1>3, <1>4, <1>5, <1>6, <2>1, <2>2 DEF Sequel, bookVars, FeedIInv
<1>11. CASE inbox' = Append(inbox, m)
  <2>1. PICK r : r = Append(c, m)
    OBVIOUS
  <2>2. Chain(r, at, want, pushes + 1, m.after)
    BY <1>2, <1>9, <2>1, ChainPushed
  <2>3. s \o Append(q, m) = Append(s \o q, m)
    BY <1>2, AppendIsConcat, ConcatAssociative, ConcatProperties
  <2>4. (msg \o inbox)' = r
    BY <1>3, <1>7, <1>8, <1>11, <2>1, <2>3
  <2> QED BY <1>2, <1>3, <1>4, <1>5, <1>6, <2>2, <2>4 DEF Sequel, bookVars, FeedIInv
<1> QED BY <1>3, <1>10, <1>11

\* A full book ...
LEMMA PushFullKeeps ==
    ASSUME FeedIInv, PushFull
    PROVE  FeedIInv'
<1>1. venue \in Book /\ pushes \in Nat
  BY KrakenAssumption DEF FeedIInv, FeedTypeOK
<1>2. PICK b \in Book : b = Scope(venue)
  BY <1>1, Scopes
<1>3. PICK m : m = Message("full", b.bids, b.asks, Empty, Empty, b)
  OBVIOUS
<1>4. m = [kind |-> "full", bids |-> b.bids, asks |-> b.asks, off |-> Empty, gone |-> Empty,
           n |-> pushes + 1, after |-> b]
  BY <1>3 DEF Message
<1>5. Empty \in Book /\ b.bids \in SUBSET Bids /\ b.asks \in SUBSET Asks
  BY <1>2 DEF Book, Empty
<1>6. pushes < MaxPushes => m \in Messages
  <2>1. pushes < MaxPushes => pushes + 1 \in 1..MaxPushes
    BY <1>1, KrakenAssumption
  <2> QED BY <1>2, <1>4, <1>5, <2>1 DEF Messages
<1>7. m.n = pushes + 1 /\ Whole(m) /\ Follows(Scope(venue), m) /\ m.after = b
  BY <1>4 DEF Whole, Follows
<1>8. Push(m) /\ venue' = venue
  BY <1>2, <1>3 DEF PushFull
<1> QED BY <1>1, <1>2, <1>6, <1>7, <1>8, PushKeeps

\* Levels that come and go leave a book.
LEMMA Changes == venue \in Book /\ Change => venue' \in Book
<1> SUFFICES ASSUME venue \in Book, Change PROVE venue' \in Book
  OBVIOUS
<1>1. PICK bs \in SUBSET Bids, as \in SUBSET Asks :
        venue' = [bids |-> Flip(venue.bids, bs), asks |-> Flip(venue.asks, as)]
  BY DEF Change
<1>2. Flip(venue.bids, bs) \in SUBSET Bids /\ Flip(venue.asks, as) \in SUBSET Asks
  BY DEF Flip, Book
<1> QED BY <1>1, <1>2 DEF Book

\* ... the levels that change ...
LEMMA PushChangeKeeps ==
    ASSUME FeedIInv, PushChange
    PROVE  FeedIInv'
<1>1. venue \in Book /\ pushes \in Nat
  BY KrakenAssumption DEF FeedIInv, FeedTypeOK
<1>2. PICK v \in Book : v = venue'
  BY <1>1, Changes DEF PushChange
<1>3. PICK old \in Book, new \in Book : old = Scope(venue) /\ new = Scope(v)
  BY <1>1, <1>2, Scopes
<1>4. PICK off : off = Off(old, v)
  OBVIOUS
<1>5. PICK gone \in {off, Empty} :
        Push(Message("change", off.bids \cup (new.bids \ old.bids),
                     off.asks \cup (new.asks \ old.asks), off, gone, new))
  BY <1>2, <1>3, <1>4 DEF PushChange
<1>6. PICK bs, as : bs = off.bids \cup (new.bids \ old.bids) /\ as = off.asks \cup (new.asks \ old.asks)
  OBVIOUS
<1>7. PICK m : m = Message("change", bs, as, off, gone, new)
  OBVIOUS
<1>8. m = [kind |-> "change", bids |-> bs, asks |-> as, off |-> off, gone |-> gone,
           n |-> pushes + 1, after |-> new]
  BY <1>7 DEF Message
<1>9. /\ off.bids = old.bids \ v.bids /\ off.asks = old.asks \ v.asks
      /\ gone.bids \subseteq off.bids /\ gone.asks \subseteq off.asks
      /\ new.bids \subseteq v.bids /\ new.asks \subseteq v.asks
  <2>1. off.bids = old.bids \ v.bids /\ off.asks = old.asks \ v.asks
    BY <1>4 DEF Off
  <2>2. gone.bids \subseteq off.bids /\ gone.asks \subseteq off.asks
    BY <1>5 DEF Empty
  <2> QED BY <2>1, <2>2, <1>2, <1>3, Scopes
<1>10. off \in Book /\ gone \in Book /\ bs \in SUBSET Bids /\ as \in SUBSET Asks
  <2>1. /\ old.bids \subseteq Bids /\ old.asks \subseteq Asks
        /\ new.bids \subseteq Bids /\ new.asks \subseteq Asks
    BY <1>3 DEF Book
  <2>2. off \in Book
    BY <1>4, <2>1 DEF Off, Book
  <2>3. gone \in Book
    BY <1>5, <2>2 DEF Empty, Book
  <2> QED BY <2>1, <2>2, <2>3, <1>6, <1>9
<1>11. pushes < MaxPushes => m \in Messages
  <2>1. pushes < MaxPushes => pushes + 1 \in 1..MaxPushes
    BY <1>1, KrakenAssumption
  <2> QED BY <1>3, <1>8, <1>10, <2>1 DEF Messages
<1>12. Leads(old.bids, bs, off.bids, gone.bids, new.bids)
  BY <1>6, <1>9 DEF Leads
<1>13. Leads(old.asks, as, off.asks, gone.asks, new.asks)
  BY <1>6, <1>9 DEF Leads
<1>14. m.n = pushes + 1 /\ Whole(m) /\ Follows(Scope(venue), m) /\ m.after = new
  <2>1. /\ m.kind = "change" /\ m.bids = bs /\ m.asks = as /\ m.off = off /\ m.gone = gone
        /\ m.n = pushes + 1 /\ m.after = new
    BY <1>8
  <2> QED BY <2>1, <1>3, <1>12, <1>13 DEF Whole, Follows
<1>15. Push(m)
  BY <1>5, <1>6, <1>7
<1> QED BY <1>2, <1>3, <1>11, <1>14, <1>15, PushKeeps

\* ... and those that change below the depth.
LEMMA ChangeBelowKeeps ==
    ASSUME FeedIInv, ChangeBelow
    PROVE  FeedIInv'
<1>1. FeedTypeOK /\ Carried /\ Sequel /\ Exact /\ Held /\ Lists(top)
  BY DEF FeedIInv
<1>2. venue' \in Book
  BY <1>1, Changes DEF ChangeBelow, FeedTypeOK
<1>3. Scope(venue') = Scope(venue) /\ UNCHANGED <<wsVars, unasked, pushes, bookVars>>
  BY DEF ChangeBelow
<1>4. FeedTypeOK' /\ Held'
  BY <1>1, <1>2, <1>3 DEF wsVars, bookVars, closeVars, socketVars, FeedTypeOK, WsTypeOK, Held
<1>5. Carried' /\ Exact' /\ Lists(top)'
  BY <1>1, <1>3 DEF wsVars, bookVars, closeVars, socketVars, Carried, Exact, Tracks, Lists
<1>6. Sequel'
  BY <1>1, <1>3 DEF wsVars, bookVars, closeVars, socketVars, Sequel
<1> QED BY <1>4, <1>5, <1>6 DEF FeedIInv
-----------------------------------------------------------------------------
(* The invariant and what follows from it *)

\* It holds at the start ...
LEMMA FeedInitIInv == FeedInit => FeedIInv
<1> SUFFICES ASSUME FeedInit PROVE FeedIInv
  OBVIOUS
<1>1. Empty \in Book /\ venue \in Book
  BY KrakenAssumption DEF FeedInit, Empty, Book
<1>2. WsTypeOK /\ Held
  <2>1. /\ wsPc = "connect" /\ conn = 0 /\ captured = 0 /\ wsBackoff = MinBackoff
        /\ closed = FALSE /\ done = FALSE /\ closer = "idle"
        /\ dials = 0 /\ open = {} /\ subscribed = {} /\ broken = FALSE
    BY DEF FeedInit, WsInit, None
  <2>2. MinBackoff \in MinBackoff..MaxBackoff /\ 0 \in 0..MaxDials
    BY WsAssumption
  <2>3. WsTypeOK
    BY <2>1, <2>2 DEF WsTypeOK, None
  <2>4. Held
    BY <2>1 DEF Held, None
  <2> QED BY <2>3, <2>4
<1>3. top.bids = <<>> /\ top.asks = <<>> /\ top.of = Empty
  BY DEF FeedInit, NoUpdate
<1>4. FeedTypeOK
  BY <1>1, <1>2, <1>3, KrakenAssumption DEF FeedInit, FeedTypeOK
<1>5. Carried
  BY DEF FeedInit, WsInit, Carried
<1>6. Sequel
  <2>1. msg \o inbox = <<>>
    BY DEF FeedInit, WsInit
  <2>2. Chain(<<>>, 0, want, 0, Scope(venue))
    BY DEF Chain
  <2> QED BY <2>1, <2>2 DEF FeedInit, Sequel
<1>7. Exact
  BY DEF FeedInit, Exact
<1>8. \A d \in BOOLEAN : FirstOf(<<>>, {}, d)
  BY FS_EmptySet, KrakenAssumption DEF FirstOf, ToSet
<1>9. Lists(top)
  <2>1. top.of.bids = {} /\ top.of.asks = {}
    BY <1>3 DEF Empty
  <2>2. <<>> \in Seq({})
    OBVIOUS
  <2> QED BY <1>3, <1>8, <2>1, <2>2 DEF Lists
<1> QED BY <1>2, <1>4, <1>5, <1>6, <1>7, <1>9 DEF FeedIInv

\* ... and every step keeps it.
LEMMA FeedNextIInv == FeedIInv /\ [FeedNext]_feedVars => FeedIInv'
<1> SUFFICES ASSUME FeedIInv, [FeedNext]_feedVars PROVE FeedIInv'
  OBVIOUS
<1>1. CASE (WsStep \/ WsEnvironment) /\ UNCHANGED feed
  BY <1>1, WsKeeps
<1>2. CASE Handle
  BY <1>2, HandleKeeps
<1>3. CASE PushFull
  BY <1>3, PushFullKeeps
<1>4. CASE PushChange \/ ChangeBelow
  BY <1>4, PushChangeKeeps, ChangeBelowKeeps
<1>5. CASE UNCHANGED feedVars
  <2>1. FeedTypeOK' /\ Held'
    BY <1>5 DEF feedVars, wsVars, bookVars, closeVars, socketVars, FeedIInv, FeedTypeOK,
       WsTypeOK, Held
  <2>2. Carried' /\ Exact' /\ Lists(top)'
    BY <1>5 DEF feedVars, wsVars, bookVars, closeVars, socketVars, FeedIInv, Carried, Exact,
       Tracks, Lists
  <2>3. Sequel'
    BY <1>5 DEF feedVars, wsVars, bookVars, closeVars, socketVars, FeedIInv, Sequel
  <2> QED BY <2>1, <2>2, <2>3 DEF FeedIInv
<1> QED BY <1>1, <1>2, <1>3, <1>4, <1>5 DEF FeedNext, Step

\* The invariant holds of every behaviour of the feed.
LEMMA FeedInvariant == FeedSpec => []FeedIInv
  BY FeedInitIInv, FeedNextIInv, PTL DEF FeedSpec

\* Type correctness of the web socket client, the handler and the reconstructed
\* book (ws.go:19-160, 162-276; kraken/book.go:48-116).
THEOREM FeedTypes == FeedSpec => []FeedTypeOK
<1>1. FeedIInv => FeedTypeOK
  BY DEF FeedIInv
<1> QED BY <1>1, FeedInvariant, PTL

\* For any number of dials: besides conn the client leaves no socket open but the
\* one of Connect, and once Run has ended without a cancelled context no other
\* (ws.go:52-64, 77-119).
THEOREM Leaks == FeedSpec => []LeakBound
<1>1. FeedIInv => LeakBound
  BY DEF FeedIInv, FeedTypeOK, WsTypeOK, Held, LeakBound, None
<1> QED BY <1>1, FeedInvariant, PTL

\* For all sets of prices, every depth and any number of messages, cuts and dials:
\* from a full book until the first loss or mistake the reconstructed book has every
\* level of Kraken's to that depth, and besides them only levels of quantity zero
\* and levels that fell below it (kraken/book.go:43, 65-76, ws.go:183-223).
THEOREM ExactBook == FeedSpec => []ExactUnlessMissed
<1>1. FeedIInv => ExactUnlessMissed
  BY DEF FeedIInv, Exact, Tracks, Matches, Quoted, ExactUnlessMissed
<1> QED BY <1>1, FeedInvariant, PTL

\* For all sets of prices, of any number of digits, every depth and every order in
\* which a map is ranged over: an update lists the first levels of each side in
\* order, and the first one is the best where prices are as long
\* (ws.go:249-276).
THEOREM BestFirst == FeedSpec => []TopBest
<1>1. FeedIInv => TopBest
  <2> SUFFICES ASSUME FeedIInv PROVE TopBest
    OBVIOUS
  <2>1. top.of \in Book /\ Lists(top)
    BY DEF FeedIInv, FeedTypeOK
  <2>2. ASSUME SameWidth(top.of.bids), NEW p \in top.of.bids
        PROVE  Value(p) <= Value(top.bids[1])
    BY <2>1, <2>2, Sides, FirstIsBest DEF Lists
  <2>3. ASSUME SameWidth(top.of.asks), NEW p \in top.of.asks
        PROVE  Value(p) >= Value(top.asks[1])
    BY <2>1, <2>3, Sides, FirstIsBest DEF Lists
  <2> QED BY <2>1, <2>2, <2>3 DEF Lists, TopBest
<1> QED BY <1>1, FeedInvariant, PTL
=============================================================================
