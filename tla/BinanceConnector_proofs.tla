----------------------- MODULE BinanceConnector_proofs -----------------------
(***************************************************************************)
(* For every budget, weights, times and set of callers: the weight Binance *)
(* meters in one of its windows, and the silence after a 429.              *)
(***************************************************************************)
EXTENDS BinanceConnector, FiniteSetTheorems, TLAPS

\* The clock bounds every instant that is remembered.
Past == lastFill <= now /\ lastSent <= now /\ limitedAt <= now

Backing == limitedAt >= 0 => backoff = limitedAt + BackoffTime

\* A request under way has a weight within the budget, an answered one a header.
Admitted ==
    \A c \in Callers :
        /\ pc[c] \in {"sent", "orphan"} => weight[c] <= Budget
        /\ pc[c] \in {"answered", "throttled"} => header[c] \in Nat

\* Age of Binance's window.  The limiter has not refilled in that window yet, and
\* can do so at most once more before it ends.
VenueAge == (now - phase) % Refill
Fresh == now - lastFill > VenueAge

\* Calls one at a time: all that Binance has metered or is about to is in the
\* limiter's count, but for a budget counted before the refill in this window; an
\* answer to be read reports at least the meter.
Spent == IF Fresh THEN 0 ELSE Budget
Metered(w) == meter + w <= Budget + Spent /\ meter + w <= used + Spent
Alone ==
    ~ overlapped =>
        /\ \A c, d \in Callers : pc[c] # "idle" /\ pc[d] # "idle" => c = d
        /\ Metered(0)
        /\ \A c \in Callers :
             pc[c] \in {"sent", "orphan"} => weight[c] <= used /\ Metered(weight[c])
        /\ \A c \in Callers : pc[c] \in {"answered", "throttled"} => meter <= header[c]

\* Overlapping calls: what the limiter would still admit, what its refill in this
\* window will add, and for each caller a credit of at most a budget.  A credit
\* covers a request under way that the count may have forgotten, and the weight
\* that a header below the budget, read late, can take off the count.
Spare == IF used < Budget THEN Budget - used ELSE 0
Bonus == IF Fresh THEN Budget ELSE 0
Cover(c, x) ==
    /\ pc[c] \in {"sent", "orphan"} => weight[c] <= x
    /\ pc[c] \in {"idle", "signed", "sent", "orphan"} => Budget - meter <= x
    /\ pc[c] \in {"answered", "throttled"} => Budget - header[c] <= x
Covers(a) == \A c \in Callers : Cover(c, a[c])

\* s[S] is the sum of the credits a of the callers in S.
IsSum(s, a) ==
    /\ \A S \in SUBSET Callers : s[S] <= Budget * Cardinality(S)
    /\ \A S \in SUBSET Callers, c \in Callers :
         c \notin S => s[S \cup {c}] = s[S] + a[c]

Credits == [Callers -> 0..Budget]
Sums == [SUBSET Callers -> Nat]
Limit == Budget * (Cardinality(Callers) + 2)

\* The meter, with all that may still be added to it in this window.
Credit ==
    \E a \in Credits, s \in Sums :
        /\ IsSum(s, a) /\ Covers(a)
        /\ meter + Spare + Bonus + s[Callers] <= Limit

IInv == TypeOK /\ Past /\ Backing /\ SignedQuietAfter429 /\ Admitted /\ Alone /\ Credit
-----------------------------------------------------------------------------
\* One more unit of time in quotient and remainder.
LEMMA OneMore ==
    ASSUME NEW a \in Int, NEW d \in Nat \ {0}
    PROVE  /\ a % d \in 0..(d - 1) /\ a \div d \in Int
           /\ (a + 1) % d = IF a % d = d - 1 THEN 0 ELSE (a % d) + 1
           /\ (a + 1) \div d = IF a % d = d - 1 THEN (a \div d) + 1 ELSE a \div d
  OBVIOUS

\* Binance's window is new when its age is zero.
LEMMA NewWindow ==
    ASSUME NEW d \in Nat \ {0}, NEW n \in Int, NEW f \in 0..(d - 1)
    PROVE  (n % d = f) <=> ((n - f) % d = 0)
<1> DEFINE q == n \div d
           r == n % d
<1>1. q \in Int /\ r \in 0..(d - 1) /\ n = (d * q) + r
  OBVIOUS
<1>2. \A k \in Int, x \in 0..(d - 1) : ((d * k) + x) % d = x
  OBVIOUS
<1> HIDE DEF q, r
<1>3. CASE r >= f
  <2>1. n - f = (d * q) + (r - f) /\ r - f \in 0..(d - 1)
    BY <1>1, <1>3
  <2>2. (n - f) % d = r - f
    BY <1>1, <1>2, <2>1
  <2> QED
    BY <1>1, <2>2 DEF r
<1>4. CASE r < f
  <2> DEFINE k == q - 1
             x == r - f + d
  <2>1. n - f = (d * k) + x /\ k \in Int /\ x \in 0..(d - 1)
    BY <1>1, <1>4
  <2> HIDE DEF k, x
  <2>2. ((d * k) + x) % d = x
    BY <1>2, <2>1
  <2>3. (n - f) % d = r - f + d
    BY <2>1, <2>2 DEF x
  <2> QED
    BY <1>1, <1>4, <2>3 DEF r
<1> QED
  BY <1>1, <1>3, <1>4

\* The callers are finitely many.
LEMMA FiniteCallers ==
    /\ Cardinality(Callers) \in Nat
    /\ Cardinality({}) = 0
    /\ \A S \in SUBSET Callers : IsFiniteSet(S) /\ Cardinality(S) \in Nat
    /\ \A S \in SUBSET Callers, c \in Callers :
         /\ c \notin S => Cardinality(S \cup {c}) = Cardinality(S) + 1
         /\ c \in S => Cardinality(S \ {c}) = Cardinality(S) - 1
<1>1. \A S \in SUBSET Callers : IsFiniteSet(S) /\ Cardinality(S) \in Nat
  BY CallersAssumption, FS_Subset, FS_CardinalityType
<1>2. \A S \in SUBSET Callers, c \in Callers :
        c \notin S => Cardinality(S \cup {c}) = Cardinality(S) + 1
  BY <1>1, FS_AddElement
<1>3. \A S \in SUBSET Callers, c \in Callers :
        c \in S => Cardinality(S \ {c}) = Cardinality(S) - 1
  BY <1>1, FS_RemoveElement
<1> QED
  BY <1>1, <1>2, <1>3, FS_EmptySet

\* A product grows with its second factor by its first.
LEMMA OneBudgetMore ==
    ASSUME NEW b \in Nat, NEW n \in Nat
    PROVE  b * n \in Nat /\ b * (n + 1) = b * n + b /\ b * (n + 2) = b * n + 2 * b
  OBVIOUS

\* What is left of a budget.
LEMMA RestRange ==
    ASSUME NEW b \in Nat, NEW u \in Nat
    PROVE  (IF u < b THEN b - u ELSE 0) \in 0..b
  OBVIOUS

\* What the limiter would still admit, before and after a step.
LEMMA SpareRange ==
    /\ used \in Nat => Spare \in 0..Budget
    /\ used' \in Nat => Spare' \in 0..Budget
<1>1. used \in Nat => Spare \in 0..Budget
  BY WeightsAssumption, RestRange DEF Spare
<1>2. used' \in Nat => Spare' \in 0..Budget
  BY WeightsAssumption, RestRange DEF Spare
<1> QED
  BY <1>1, <1>2

\* The sum of all credits is that of the others and one caller's.
LEMMA SumSplit ==
    ASSUME NEW a \in Credits, NEW s \in Sums, IsSum(s, a), NEW c \in Callers
    PROVE  /\ s[Callers] = s[Callers \ {c}] + a[c]
           /\ s[Callers \ {c}] \in Nat /\ s[Callers] \in Nat /\ a[c] \in 0..Budget
           /\ Budget * Cardinality(Callers) \in Nat
           /\ s[Callers \ {c}] + Budget <= Budget * Cardinality(Callers)
<1> DEFINE S == Callers \ {c}
<1>1. S \in SUBSET Callers /\ c \notin S /\ S \cup {c} = Callers /\ Callers \in SUBSET Callers
  OBVIOUS
<1>2. s[S \cup {c}] = s[S] + a[c] /\ s[S] <= Budget * Cardinality(S)
  BY <1>1 DEF IsSum
<1>3. s[S] \in Nat /\ s[Callers] \in Nat /\ a[c] \in 0..Budget
  BY <1>1 DEF Sums, Credits
<1>4. Cardinality(Callers) = Cardinality(S) + 1 /\ Cardinality(S) \in Nat
  BY <1>1, FiniteCallers
<1>5. /\ Budget * Cardinality(Callers) = Budget * Cardinality(S) + Budget
      /\ Budget * Cardinality(S) \in Nat /\ Budget * Cardinality(Callers) \in Nat
  BY <1>4, WeightsAssumption, OneBudgetMore
<1>6. s[Callers] = s[S] + a[c]
  BY <1>1, <1>2
<1>7. s[S] + Budget <= Budget * Cardinality(Callers)
  <2> DEFINE m == Budget * Cardinality(S)
             n == Budget * Cardinality(Callers)
  <2>1. s[S] \in Nat /\ s[S] <= m /\ n = m + Budget /\ m \in Nat /\ n \in Nat
    BY <1>2, <1>3, <1>5
  <2> HIDE DEF m, n, S
  <2>2. s[S] + Budget <= n
    BY <2>1, WeightsAssumption
  <2> QED
    BY <2>2 DEF n
<1> QED
  BY <1>3, <1>5, <1>6, <1>7

\* One credit changes, and the sum with it.
LEMMA SumUpdate ==
    ASSUME NEW a \in Credits, NEW s \in Sums, IsSum(s, a), NEW c \in Callers,
           NEW v \in 0..Budget
    PROVE  \E t \in Sums : /\ IsSum(t, [a EXCEPT ![c] = v])
                           /\ t[Callers] = s[Callers \ {c}] + v
<1> DEFINE t == [S \in SUBSET Callers |-> IF c \in S THEN s[S \ {c}] + v ELSE s[S]]
           b == [a EXCEPT ![c] = v]
<1>1. \A S \in SUBSET Callers : s[S] \in Nat /\ s[S] <= Budget * Cardinality(S)
  BY DEF Sums, IsSum
<1>2. \A S \in SUBSET Callers, d \in Callers : d \notin S => s[S \cup {d}] = s[S] + a[d]
  BY DEF IsSum
<1>3. \A d \in Callers : b[d] = IF d = c THEN v ELSE a[d]
  BY DEF Credits
<1>4. t \in Sums
  BY <1>1, WeightsAssumption DEF Sums
<1>5. ASSUME NEW S \in SUBSET Callers, NEW d \in Callers, d \notin S
      PROVE  t[S \cup {d}] = t[S] + b[d]
  <2>0. S \cup {d} \in SUBSET Callers
    OBVIOUS
  <2>1. CASE d = c
    <3>1. (S \cup {c}) \ {c} = S /\ c \in S \cup {c} /\ c \notin S
      BY <1>5, <2>1
    <3> QED
      BY <1>3, <2>0, <2>1, <3>1
  <2>2. CASE d # c /\ c \in S
    <3>1. (S \cup {d}) \ {c} = (S \ {c}) \cup {d} /\ d \notin S \ {c} /\ S \ {c} \in SUBSET Callers
      BY <1>5, <2>2
    <3>2. s[(S \ {c}) \cup {d}] = s[S \ {c}] + a[d]
      BY <1>2, <3>1
    <3>3. s[S \ {c}] \in Nat /\ a[d] \in Nat /\ v \in Nat
      BY <1>1, <3>1, WeightsAssumption DEF Credits
    <3>4. t[S \cup {d}] = s[(S \ {c}) \cup {d}] + v /\ t[S] = s[S \ {c}] + v
      BY <2>0, <2>2, <3>1
    <3> QED
      BY <1>3, <2>2, <3>2, <3>3, <3>4
  <2>3. CASE d # c /\ c \notin S
    <3>1. t[S \cup {d}] = s[S \cup {d}] /\ t[S] = s[S]
      BY <2>0, <2>3
    <3> QED
      BY <1>2, <1>3, <1>5, <2>3, <3>1
  <2> QED
    BY <2>1, <2>2, <2>3
<1>6. ASSUME NEW S \in SUBSET Callers
      PROVE  t[S] <= Budget * Cardinality(S)
  <2>1. CASE c \in S
    <3>1. S \ {c} \in SUBSET Callers /\ Cardinality(S) = Cardinality(S \ {c}) + 1
          /\ Cardinality(S \ {c}) \in Nat
      BY <2>1, FiniteCallers
    <3>2. /\ Budget * Cardinality(S) = Budget * Cardinality(S \ {c}) + Budget
          /\ Budget * Cardinality(S \ {c}) \in Nat
      BY <3>1, WeightsAssumption, OneBudgetMore
    <3>3. s[S \ {c}] \in Nat /\ s[S \ {c}] <= Budget * Cardinality(S \ {c})
      BY <1>1, <3>1
    <3>4. t[S] = s[S \ {c}] + v
      BY <2>1
    <3> QED
      BY <3>2, <3>3, <3>4, WeightsAssumption
  <2>2. CASE c \notin S
    BY <1>1, <2>2
  <2> QED
    BY <2>1, <2>2
<1>7. t[Callers] = s[Callers \ {c}] + v
  OBVIOUS
<1>8. IsSum(t, b)
  BY <1>5, <1>6 DEF IsSum
<1> QED
  BY <1>4, <1>7, <1>8

\* Every caller has a whole budget.
LEMMA SumAll ==
    \E s \in Sums : /\ IsSum(s, [c \in Callers |-> Budget])
                    /\ s[Callers] = Budget * Cardinality(Callers)
<1> DEFINE s == [S \in SUBSET Callers |-> Budget * Cardinality(S)]
           a == [c \in Callers |-> Budget]
<1>1. \A S \in SUBSET Callers : Cardinality(S) \in Nat /\ Budget * Cardinality(S) \in Nat
  BY FiniteCallers, WeightsAssumption, OneBudgetMore
<1>2. s \in Sums
  BY <1>1 DEF Sums
<1>3. ASSUME NEW S \in SUBSET Callers, NEW c \in Callers, c \notin S
      PROVE  s[S \cup {c}] = s[S] + a[c]
  <2>1. S \cup {c} \in SUBSET Callers /\ Cardinality(S \cup {c}) = Cardinality(S) + 1
    BY <1>3, FiniteCallers
  <2>2. Budget * (Cardinality(S) + 1) = Budget * Cardinality(S) + Budget
    BY <1>1, WeightsAssumption, OneBudgetMore
  <2> QED
    BY <2>1, <2>2
<1>4. \A S \in SUBSET Callers : s[S] <= Budget * Cardinality(S)
  BY <1>1
<1>5. IsSum(s, a)
  BY <1>3, <1>4 DEF IsSum
<1> QED
  BY <1>2, <1>5
-----------------------------------------------------------------------------
\* The constants, and the types of what the arithmetic is about.
LEMMA Numbers ==
    ASSUME TypeOK
    PROVE  /\ Budget \in Nat /\ OrderWeight \in Nat /\ BalancesWeight \in Nat
           /\ FillsWeight \in Nat /\ Refill \in Nat \ {0} /\ BackoffTime \in Nat
           /\ now \in Nat /\ used \in Nat /\ lastFill \in Nat /\ backoff \in Nat
           /\ nonce \in Nat /\ meter \in Nat /\ phase \in 0..(Refill - 1)
           /\ lastSent \in Int /\ limitedAt \in Int
           /\ VenueAge \in 0..(Refill - 1)
           /\ Spare \in 0..Budget /\ Bonus \in {0, Budget} /\ Spent \in {0, Budget}
           /\ pc \in [Callers -> Steps]
           /\ \A c \in Callers : weight[c] \in Nat /\ header[c] \in Int
<1>1. /\ Budget \in Nat /\ OrderWeight \in Nat /\ BalancesWeight \in Nat
      /\ FillsWeight \in Nat /\ Refill \in Nat \ {0} /\ BackoffTime \in Nat
  BY WeightsAssumption, TimesAssumption DEF Weights
<1>2. /\ now \in Nat /\ used \in Nat /\ lastFill \in Nat /\ backoff \in Nat
      /\ nonce \in Nat /\ meter \in Nat /\ phase \in 0..(Refill - 1)
      /\ lastSent \in Int /\ limitedAt \in Int /\ pc \in [Callers -> Steps]
  BY DEF TypeOK
<1>3. VenueAge \in 0..(Refill - 1)
  BY <1>1, <1>2, OneMore DEF VenueAge
<1>4. Spare \in 0..Budget /\ Bonus \in {0, Budget} /\ Spent \in {0, Budget}
  BY <1>2, SpareRange DEF Bonus, Spent
<1>5. ASSUME NEW c \in Callers PROVE weight[c] \in Nat /\ header[c] \in Int
  BY <1>1 DEF TypeOK, Weights, NoHeader
<1> QED
  BY <1>1, <1>2, <1>3, <1>4, <1>5

\* A refill is due only if there was none in Binance's window, and there is none
\* after it.
LEMMA RefillFresh ==
    ASSUME TypeOK
    PROVE  /\ RefillDue => Fresh
           /\ lastFill' = now /\ now' = now /\ phase' = phase => ~ Fresh'
<1>1. RefillDue => Fresh
  BY Numbers DEF RefillDue, Fresh
<1>2. ASSUME lastFill' = now, now' = now, phase' = phase PROVE ~ Fresh'
  <2>1. VenueAge' = VenueAge
    BY <1>2 DEF VenueAge
  <2> QED
    BY <1>2, <2>1, Numbers DEF Fresh
<1> QED
  BY <1>1, <1>2

\* One caller's credit changes.
LEMMA Recredit ==
    ASSUME NEW a \in Credits, NEW s \in Sums, IsSum(s, a), NEW c \in Callers,
           NEW v \in 0..Budget, Covers([a EXCEPT ![c] = v])',
           meter' + Spare' + Bonus' + (s[Callers \ {c}] + v) <= Limit
    PROVE  Credit'
<1> DEFINE b == [a EXCEPT ![c] = v]
<1>1. b \in Credits
  BY DEF Credits
<1>2. PICK t \in Sums : IsSum(t, b) /\ t[Callers] = s[Callers \ {c}] + v
  BY SumUpdate
<1>3. meter' + Spare' + Bonus' + t[Callers] <= Limit
  BY <1>2
<1>4. Covers(b)'
  OBVIOUS
<1> HIDE DEF b
<1> QED
  BY <1>1, <1>2, <1>3, <1>4 DEF Credit

\* A caller whose request and answer stay what they are keeps its credit.
LEMMA KeepsCover ==
    ASSUME NEW d \in Callers, NEW x \in Int, Cover(d, x), meter \in Nat, meter' \in Nat,
           meter <= meter', Budget \in Nat,
           pc'[d] = pc[d], weight'[d] = weight[d], header'[d] = header[d]
    PROVE  Cover(d, x)'
<1>1. pc'[d] \in {"sent", "orphan"} => weight'[d] <= x
  BY DEF Cover
<1>2. pc'[d] \in {"idle", "signed", "sent", "orphan"} => Budget - meter' <= x
  <2>1. pc[d] \in {"idle", "signed", "sent", "orphan"} => Budget - meter <= x
    BY DEF Cover
  <2>2. \A b, m, n \in Nat, y \in Int : m <= n /\ b - m <= y => b - n <= y
    OBVIOUS
  <2>3. Budget - meter <= x => Budget - meter' <= x
    BY <2>2
  <2> QED
    BY <2>1, <2>3
<1>3. pc'[d] \in {"answered", "throttled"} => Budget - header'[d] <= x
  BY DEF Cover
<1> QED
  BY <1>1, <1>2, <1>3 DEF Cover

\* The sum of a step that changes neither credits nor the meter.
LEMMA SameSum ==
    ASSUME IInv, TypeOK', meter' = meter, Spare' + Bonus' <= Spare + Bonus,
           NEW t \in Nat, meter + Spare + Bonus + t <= Limit
    PROVE  meter' + Spare' + Bonus' + t <= Limit
<1>1. Limit \in Int
  BY FiniteCallers, WeightsAssumption, OneBudgetMore DEF Limit
<1>2. Spare \in 0..Budget /\ Bonus \in {0, Budget} /\ meter \in Nat /\ Budget \in Nat
  BY Numbers DEF IInv
<1>3. used' \in Nat
  BY DEF TypeOK
<1>4. Spare' \in Int /\ Bonus' \in Int /\ Spare \in Int /\ Bonus \in Int
  <2>1. Spare' \in 0..Budget
    BY <1>3, SpareRange
  <2>2. Bonus' \in {0, Budget}
    BY DEF Bonus
  <2> QED
    BY <1>2, <2>1, <2>2
<1>5. PICK x \in Int, y \in Int : x = Spare /\ y = Bonus
  BY <1>4
<1>6. PICK u \in Int, w \in Int : u = Spare' /\ w = Bonus'
  BY <1>4
<1>7. u + w <= x + y /\ meter + x + y + t <= Limit
  BY <1>5, <1>6
<1>8. meter + u + w + t <= Limit
  BY <1>1, <1>2, <1>7
<1> QED
  BY <1>6, <1>8

\* A step that changes neither credits nor the meter.
LEMMA SameCredit ==
    ASSUME IInv, TypeOK', meter' = meter, Spare' + Bonus' <= Spare + Bonus,
           \A d \in Callers, x \in 0..Budget : Cover(d, x) => Cover(d, x)'
    PROVE  Credit'
<1>1. PICK a \in Credits, s \in Sums :
        /\ IsSum(s, a) /\ Covers(a)
        /\ meter + Spare + Bonus + s[Callers] <= Limit
  BY DEF IInv, Credit
<1>2. Covers(a)'
  BY <1>1 DEF Covers, Credits
<1>3. s[Callers] \in Nat
  BY DEF Sums
<1>4. meter' + Spare' + Bonus' + s[Callers] <= Limit
  BY <1>1, <1>3, SameSum
<1> QED
  BY <1>1, <1>2, <1>4 DEF Credit

\* Whatever a call brings back: the count is left alone or taken from its header.
LEMMA ReturnCredit ==
    ASSUME IInv, NEW c \in Callers, Return(c), UNCHANGED <<now, lastFill, phase, meter>>,
           used' \in Nat,
           used' = used \/ (pc[c] \in {"answered", "throttled"} /\ used' = header[c])
    PROVE  Credit'
<1>1. PICK a \in Credits, s \in Sums :
        /\ IsSum(s, a) /\ Covers(a)
        /\ meter + Spare + Bonus + s[Callers] <= Limit
  BY DEF IInv, Credit
<1>2. /\ \A d \in Callers \ {c} : /\ pc'[d] = pc[d] /\ weight'[d] = weight[d]
                                  /\ header'[d] = header[d]
      /\ pc'[c] = "idle"
  BY DEF IInv, TypeOK, Return
<1>3. /\ Budget \in Nat /\ meter \in Nat /\ used \in Nat /\ Spare \in 0..Budget
      /\ Bonus \in {0, Budget} /\ header[c] \in Int
  BY Numbers DEF IInv
<1>4. Bonus' = Bonus /\ Spare' \in 0..Budget
  <2>1. Bonus' = Bonus
    BY DEF Bonus, Fresh, VenueAge
  <2> QED
    BY <2>1, SpareRange
<1>5. /\ s[Callers] = s[Callers \ {c}] + a[c]
      /\ s[Callers \ {c}] \in Nat /\ a[c] \in 0..Budget
      /\ Budget * Cardinality(Callers) \in Nat
      /\ s[Callers \ {c}] + Budget <= Budget * Cardinality(Callers)
  BY <1>1, SumSplit
<1>6. Limit = Budget * Cardinality(Callers) + 2 * Budget
  BY FiniteCallers, WeightsAssumption, OneBudgetMore DEF Limit
<1>7. PICK v \in 0..Budget : v = IF meter < Budget THEN Budget - meter ELSE 0
  BY <1>3
<1>8. Covers([a EXCEPT ![c] = v])'
  <2> SUFFICES ASSUME NEW d \in Callers PROVE Cover(d, [a EXCEPT ![c] = v][d])'
    BY DEF Covers
  <2>1. CASE d = c
    <3>1. [a EXCEPT ![c] = v][d] = v
      BY <2>1 DEF Credits
    <3>2. Cover(c, v)'
      BY <1>2, <1>3, <1>7 DEF Cover
    <3> QED
      BY <2>1, <3>1, <3>2
  <2>2. CASE d # c
    <3>1. [a EXCEPT ![c] = v][d] = a[d] /\ a[d] \in Int
      BY <1>3, <2>2 DEF Credits
    <3>2. Cover(d, a[d])
      BY <1>1 DEF Covers
    <3>3. Cover(d, a[d])'
      BY <1>2, <1>3, <2>2, <3>1, <3>2, KeepsCover
    <3> QED
      BY <3>1, <3>3
  <2> QED
    BY <2>1, <2>2
<1>9. meter' + Spare' + Bonus' + (s[Callers \ {c}] + v) <= Limit
  <2>1. CASE meter < Budget
    BY <1>3, <1>4, <1>5, <1>6, <1>7, <2>1
  <2>2. CASE meter >= Budget
    <3>1. Spare' <= Spare + a[c]
      <4>1. CASE used' = used
        BY <1>3, <1>5, <4>1 DEF Spare
      <4>2. CASE pc[c] \in {"answered", "throttled"} /\ used' = header[c]
        <5>1. Budget - header[c] <= a[c]
          BY <1>1, <4>2 DEF Covers, Cover
        <5> QED
          BY <1>3, <1>5, <4>2, <5>1 DEF Spare
      <4> QED
        BY <4>1, <4>2
    <3>2. meter + Spare + Bonus + (s[Callers \ {c}] + a[c]) <= Limit
      BY <1>1, <1>5
    <3> QED
      BY <1>3, <1>4, <1>5, <1>6, <1>7, <2>2, <3>1, <3>2
  <2> QED
    BY <1>3, <2>1, <2>2
<1> QED
  BY <1>1, <1>8, <1>9, Recredit
-----------------------------------------------------------------------------
\* The inductive invariant holds before any call.
LEMMA InitIInv == Init => IInv
<1> SUFFICES ASSUME Init PROVE IInv
  OBVIOUS
<1>0. /\ Budget \in Nat /\ Refill \in Nat \ {0} /\ BackoffTime \in Nat
      /\ now = 0 /\ used = 0 /\ lastFill = 0 /\ meter = 0 /\ phase \in 0..(Refill - 1)
      /\ \A c \in Callers : pc[c] = "idle"
  BY WeightsAssumption, TimesAssumption DEF Init
<1>1. TypeOK
  <2>1. overlapped \in BOOLEAN
    BY DEF Init
  <2>2. /\ pc \in [Callers -> Steps] /\ weight \in [Callers -> Weights \cup {0}]
        /\ header \in [Callers -> Nat \cup {NoHeader}]
    BY DEF Init, Steps
  <2> QED
    BY <1>0, <2>1, <2>2 DEF Init, TypeOK
<1>2. Past /\ Backing /\ SignedQuietAfter429
  BY DEF Init, Past, Backing, SignedQuietAfter429
<1>3. Admitted
  BY <1>0 DEF Admitted
<1>4. ~ Fresh
  <2>1. VenueAge \in 0..(Refill - 1)
    BY <1>1, Numbers
  <2> QED
    BY <1>0, <2>1 DEF Fresh
<1>5. Alone
  BY <1>0, <1>4 DEF Alone, Metered, Spent
<1>6. Credit
  <2> DEFINE a == [c \in Callers |-> Budget]
  <2>1. PICK s \in Sums : IsSum(s, a) /\ s[Callers] = Budget * Cardinality(Callers)
    BY SumAll
  <2>2. a \in Credits
    BY <1>0 DEF Credits
  <2>3. \A c \in Callers : a[c] = Budget
    OBVIOUS
  <2> HIDE DEF a
  <2>4. Covers(a)
    BY <1>0, <2>3 DEF Covers, Cover
  <2>5. Spare = Budget /\ Bonus = 0
    BY <1>0, <1>4 DEF Spare, Bonus
  <2>6. /\ Limit = Budget * Cardinality(Callers) + 2 * Budget
        /\ Budget * Cardinality(Callers) \in Nat
    BY <1>0, FiniteCallers, OneBudgetMore DEF Limit
  <2>7. meter + Spare + Bonus + s[Callers] <= Limit
    BY <1>0, <2>1, <2>5, <2>6
  <2> QED
    BY <2>1, <2>2, <2>4, <2>7 DEF Credit
<1> QED
  BY <1>1, <1>2, <1>3, <1>5, <1>6 DEF IInv
-----------------------------------------------------------------------------
\* Steps that leave the clock and the recorded instants alone.
LEMMA KeepsTimes ==
    ASSUME IInv, UNCHANGED <<now, backoff, lastSent, limitedAt>>, lastFill' \in {lastFill, now}
    PROVE  Past' /\ Backing' /\ SignedQuietAfter429'
<1>1. lastFill \in Nat /\ now \in Nat
  BY Numbers DEF IInv
<1> QED
  BY <1>1 DEF IInv, Past, Backing, SignedQuietAfter429

\* What the refill leaves behind.
LEMMA RefillApplied ==
    ASSUME IInv
    PROVE  /\ Used0 \in Nat /\ LastFill0 \in Nat /\ LastFill0 \in {lastFill, now}
           /\ RefillDue => Used0 = 0 /\ LastFill0 = now /\ Fresh
           /\ ~ RefillDue => Used0 = used /\ LastFill0 = lastFill
  BY Numbers, RefillFresh DEF IInv, Used0, LastFill0

\* A call returns: the types.
LEMMA ReturnType ==
    ASSUME IInv, NEW c \in Callers, Return(c)
    PROVE  /\ pc' \in [Callers -> Steps] /\ weight' \in [Callers -> Weights \cup {0}]
           /\ header' \in [Callers -> Nat \cup {NoHeader}]
  BY DEF IInv, TypeOK, Return, Steps

\* A call under way is the only one, unless two have overlapped.
LEMMA OnlyOne ==
    ASSUME IInv, ~ overlapped, NEW c \in Callers, pc[c] # "idle", NEW d \in Callers, d # c
    PROVE  pc[d] = "idle"
  BY DEF IInv, Alone

\* A call returns, with the count left alone or taken from its header.
LEMMA ReturnIInv ==
    ASSUME IInv, NEW c \in Callers, Return(c), pc[c] # "idle",
           UNCHANGED <<now, lastFill, phase, meter, overlapped>>,
           used' \in Nat,
           used' = used \/ (pc[c] \in {"answered", "throttled"} /\ used' = header[c])
    PROVE  Admitted' /\ Alone' /\ Credit'
<1>1. /\ \A d \in Callers \ {c} : /\ pc'[d] = pc[d] /\ weight'[d] = weight[d]
                                  /\ header'[d] = header[d]
      /\ pc'[c] = "idle"
  BY DEF IInv, TypeOK, Return
<1>2. Admitted'
  BY <1>1 DEF IInv, Admitted
<1>3. Alone'
  <2> SUFFICES ASSUME ~ overlapped
               PROVE  (\A d \in Callers : pc'[d] = "idle") /\ Metered(0)'
    BY DEF Alone
  <2>1. \A d \in Callers : pc'[d] = "idle"
    BY <1>1, OnlyOne
  <2>2. meter + 0 <= Budget + Spent /\ meter + 0 <= used + Spent
    BY DEF IInv, Alone, Metered
  <2>3. Spent' = Spent
    BY DEF Spent, Fresh, VenueAge
  <2>4. /\ meter \in Nat /\ used \in Nat /\ Budget \in Nat /\ Spent \in {0, Budget}
        /\ header[c] \in Int
    BY Numbers DEF IInv
  <2>5. meter + 0 <= used' + Spent
    <3>1. CASE used' = used
      BY <2>2, <3>1
    <3>2. CASE pc[c] \in {"answered", "throttled"} /\ used' = header[c]
      <4>1. meter <= header[c]
        BY <3>2 DEF IInv, Alone
      <4> QED
        BY <2>4, <3>2, <4>1
    <3> QED
      BY <3>1, <3>2
  <2> QED
    BY <2>1, <2>2, <2>3, <2>5 DEF Metered
<1> QED
  BY <1>2, <1>3, ReturnCredit

\* doSigned: the call has nothing under way yet.
LEMMA SignIInv ==
    ASSUME IInv, NEW c \in Callers, NEW w \in Weights, Sign(c, w)
    PROVE  IInv'
<1>0. pc \in [Callers -> Steps] /\ weight \in [Callers -> Weights \cup {0}]
  BY DEF IInv, TypeOK
<1>1. /\ UNCHANGED <<now, used, lastFill, backoff, header, phase, meter, snapshots, lastSent, limitedAt>>
      /\ pc[c] = "idle" /\ pc'[c] = "signed"
      /\ \A d \in Callers \ {c} : pc'[d] = pc[d] /\ weight'[d] = weight[d]
      /\ overlapped' = (overlapped \/ \E d \in Callers : pc[d] # "idle")
  BY <1>0 DEF Sign, limiter, venue
<1>2. TypeOK'
  <2>1. pc' \in [Callers -> Steps] /\ weight' \in [Callers -> Weights \cup {0}]
    BY <1>0 DEF Sign, Steps
  <2>2. nonce' \in Nat
    BY Numbers DEF IInv, Sign
  <2>3. overlapped' \in BOOLEAN
    BY <1>1
  <2> QED
    BY <1>1, <2>1, <2>2, <2>3 DEF IInv, TypeOK
<1>3. Past' /\ Backing' /\ SignedQuietAfter429'
  BY <1>1, KeepsTimes
<1>4. Admitted'
  BY <1>1 DEF IInv, Admitted
<1>5. Alone'
  <2> SUFFICES ASSUME ~ overlapped'
               PROVE  /\ \A d, e \in Callers : pc'[d] # "idle" /\ pc'[e] # "idle" => d = e
                      /\ Metered(0)'
                      /\ \A d \in Callers : pc'[d] \notin {"sent", "orphan", "answered", "throttled"}
    BY DEF Alone
  <2>1. ~ overlapped /\ \A d \in Callers : pc[d] = "idle"
    BY <1>1
  <2>2. Metered(0)'
    <3>1. Metered(0)
      BY <2>1 DEF IInv, Alone
    <3>2. Spent' = Spent
      BY <1>1 DEF Spent, Fresh, VenueAge
    <3> QED
      BY <1>1, <3>1, <3>2 DEF Metered
  <2> QED
    BY <1>1, <2>1, <2>2
<1>6. Credit'
  <2>1. Spare' = Spare /\ Bonus' = Bonus
    BY <1>1 DEF Spare, Bonus, Fresh, VenueAge
  <2>2. Spare' + Bonus' <= Spare + Bonus
    <3>1. Spare \in 0..Budget /\ Bonus \in {0, Budget} /\ Budget \in Nat
      BY Numbers DEF IInv
    <3> QED
      BY <2>1, <3>1
  <2>3. ASSUME NEW d \in Callers, NEW x \in 0..Budget, Cover(d, x)
        PROVE  Cover(d, x)'
    BY <1>1, <2>3 DEF Cover
  <2> QED
    BY <1>1, <1>2, <2>2, <2>3, SameCredit
<1> QED
  BY <1>2, <1>3, <1>4, <1>5, <1>6 DEF IInv

\* do() turned away by the limiter: a refill that is due has not been in this
\* window, and takes no more off the count than its bonus.
LEMMA LimitedIInv ==
    ASSUME IInv, NEW c \in Callers, Limited(c)
    PROVE  IInv'
<1>0. /\ pc \in [Callers -> Steps] /\ weight \in [Callers -> Weights \cup {0}]
      /\ Budget \in Nat /\ used \in Nat /\ meter \in Nat
  BY Numbers DEF IInv, TypeOK
<1>1. /\ UNCHANGED <<now, backoff, header, phase, meter, snapshots, lastSent, limitedAt, overlapped, nonce>>
      /\ pc[c] = "signed" /\ pc'[c] = "idle"
      /\ \A d \in Callers \ {c} : pc'[d] = pc[d] /\ weight'[d] = weight[d]
      /\ used' = Used0 /\ lastFill' = LastFill0
  BY <1>0 DEF Limited, venue, history
<1>2. TypeOK'
  <2>1. pc' \in [Callers -> Steps] /\ weight' \in [Callers -> Weights \cup {0}]
    BY <1>0 DEF Limited, Steps
  <2>2. used' \in Nat /\ lastFill' \in Nat
    BY <1>1, RefillApplied
  <2> QED
    BY <1>1, <2>1, <2>2 DEF IInv, TypeOK
<1>3. Past' /\ Backing' /\ SignedQuietAfter429'
  BY <1>1, RefillApplied, KeepsTimes
<1>4. Admitted'
  BY <1>1 DEF IInv, Admitted
<1>5. RefillDue => used' = 0 /\ Fresh /\ ~ Fresh'
  BY <1>1, RefillApplied, RefillFresh DEF IInv
<1>6. ~ RefillDue => used' = used /\ (Fresh' <=> Fresh)
  BY <1>1, RefillApplied DEF Fresh, VenueAge
<1>7. Alone'
  <2> SUFFICES ASSUME ~ overlapped
               PROVE  (\A d \in Callers : pc'[d] = "idle") /\ Metered(0)'
    BY <1>1 DEF Alone
  <2>1. \A d \in Callers : pc'[d] = "idle"
    BY <1>1, OnlyOne
  <2>2. meter + 0 <= Budget + Spent /\ meter + 0 <= used + Spent
    BY DEF IInv, Alone, Metered
  <2>3. CASE RefillDue
    BY <1>0, <1>1, <1>5, <2>1, <2>2, <2>3 DEF Metered, Spent
  <2>4. CASE ~ RefillDue
    BY <1>0, <1>1, <1>6, <2>1, <2>2, <2>4 DEF Metered, Spent
  <2> QED
    BY <2>3, <2>4
<1>8. Credit'
  <2>1. Spare' + Bonus' <= Spare + Bonus
    <3>1. CASE RefillDue
      BY <1>0, <1>5, <3>1 DEF Spare, Bonus
    <3>2. CASE ~ RefillDue
      BY <1>0, <1>6, <3>2 DEF Spare, Bonus
    <3> QED
      BY <3>1, <3>2
  <2>2. ASSUME NEW d \in Callers, NEW x \in 0..Budget, Cover(d, x)
        PROVE  Cover(d, x)'
    BY <1>1, <2>2 DEF Cover
  <2> QED
    BY <1>1, <1>2, <2>1, <2>2, SameCredit
<1> QED
  BY <1>2, <1>3, <1>4, <1>7, <1>8 DEF IInv

\* do() admitted: what the count gains the caller's credit gains.
LEMMA SendIInv ==
    ASSUME IInv, NEW c \in Callers, Send(c)
    PROVE  IInv'
<1>0. /\ pc \in [Callers -> Steps] /\ weight[c] \in Nat
      /\ Budget \in Nat /\ used \in Nat /\ meter \in Nat /\ now \in Nat
      /\ lastSent \in Int /\ limitedAt \in Int /\ backoff \in Nat /\ BackoffTime \in Nat
  BY Numbers DEF IInv
<1>1. /\ UNCHANGED <<now, backoff, header, weight, phase, meter, snapshots, limitedAt, overlapped, nonce>>
      /\ pc[c] = "signed" /\ pc'[c] = "sent" /\ lastSent' = now
      /\ \A d \in Callers \ {c} : pc'[d] = pc[d]
      /\ used' = Used0 + weight[c] /\ lastFill' = LastFill0
      /\ now >= backoff /\ Used0 + weight[c] <= Budget
  BY <1>0 DEF Send, WaitAdmits, venue
<1>2. Used0 \in Nat /\ LastFill0 \in Nat /\ LastFill0 \in {lastFill, now}
  BY RefillApplied
<1>3. TypeOK'
  <2>1. pc' \in [Callers -> Steps]
    BY <1>0 DEF Send, Steps
  <2>2. used' \in Nat /\ lastFill' \in Nat /\ lastSent' \in Int
    BY <1>0, <1>1, <1>2
  <2> QED
    BY <1>1, <2>1, <2>2 DEF IInv, TypeOK
<1>4. Past' /\ Backing' /\ SignedQuietAfter429'
  BY <1>0, <1>1, <1>2 DEF IInv, Past, Backing, SignedQuietAfter429
<1>5. Admitted'
  BY <1>0, <1>1, <1>2 DEF IInv, Admitted
<1>6. RefillDue => used' = weight[c] /\ Fresh /\ ~ Fresh'
  BY <1>0, <1>1, RefillApplied, RefillFresh DEF IInv
<1>7. ~ RefillDue => used' = used + weight[c] /\ (Fresh' <=> Fresh)
  BY <1>1, RefillApplied DEF Fresh, VenueAge
<1>8. weight[c] <= used' /\ used' <= Budget /\ weight[c] <= Budget /\ used' \in Nat
  BY <1>0, <1>1, <1>2
<1>9. Alone'
  <2> SUFFICES ASSUME ~ overlapped
               PROVE  /\ \A d \in Callers : d # c => pc'[d] = "idle"
                      /\ Metered(0)'
                      /\ weight[c] <= used'
                      /\ meter' + weight[c] <= Budget + Spent'
                      /\ meter' + weight[c] <= used' + Spent'
    BY <1>1 DEF Alone, Metered
  <2>1. \A d \in Callers : d # c => pc'[d] = "idle"
    BY <1>1, OnlyOne
  <2>2. meter + 0 <= Budget + Spent /\ meter + 0 <= used + Spent
    BY DEF IInv, Alone, Metered
  <2>3. meter + weight[c] <= Budget + Spent' /\ meter + weight[c] <= used' + Spent'
    <3>1. CASE RefillDue
      BY <1>0, <1>6, <1>8, <2>2, <3>1 DEF Spent
    <3>2. CASE ~ RefillDue
      BY <1>0, <1>7, <1>8, <2>2, <3>2 DEF Spent
    <3> QED
      BY <3>1, <3>2
  <2>4. Spent' \in {0, Budget}
    BY DEF Spent
  <2>5. Metered(0)'
    BY <1>0, <1>1, <1>8, <2>3, <2>4 DEF Metered
  <2> QED
    BY <1>1, <1>8, <2>1, <2>3, <2>5
<1>10. Spare' \in 0..Budget
  BY <1>8, SpareRange
<1>11. Credit'
  <2>1. PICK a \in Credits, s \in Sums :
          /\ IsSum(s, a) /\ Covers(a)
          /\ meter + Spare + Bonus + s[Callers] <= Limit
    BY DEF IInv, Credit
  <2>2. s[Callers] = s[Callers \ {c}] + a[c] /\ s[Callers \ {c}] \in Nat /\ a[c] \in 0..Budget
    BY <2>1, SumSplit
  <2>3. Limit \in Int
    BY <1>0, FiniteCallers, OneBudgetMore DEF Limit
  <2>4. PICK v \in 0..Budget :
          v = IF a[c] + weight[c] <= Budget THEN a[c] + weight[c] ELSE Budget
    BY <1>0, <2>2
  <2>5. v >= a[c] /\ v >= weight[c] /\ v <= a[c] + weight[c] /\ v \in Int
    BY <1>0, <1>8, <2>2, <2>4
  <2>6. Covers([a EXCEPT ![c] = v])'
    <3> SUFFICES ASSUME NEW d \in Callers PROVE Cover(d, [a EXCEPT ![c] = v][d])'
      BY DEF Covers
    <3>1. CASE d = c
      <4>1. [a EXCEPT ![c] = v][d] = v
        BY <3>1 DEF Credits
      <4>2. Budget - meter <= a[c]
        BY <1>1, <2>1 DEF Covers, Cover
      <4>3. Cover(c, v)'
        BY <1>0, <1>1, <2>2, <2>5, <4>2 DEF Cover
      <4> QED
        BY <3>1, <4>1, <4>3
    <3>2. CASE d # c
      <4>1. [a EXCEPT ![c] = v][d] = a[d] /\ a[d] \in Int
        BY <1>0, <3>2 DEF Credits
      <4>2. Cover(d, a[d])
        BY <2>1 DEF Covers
      <4>3. Cover(d, a[d])'
        BY <1>0, <1>1, <3>2, <4>1, <4>2, KeepsCover
      <4> QED
        BY <4>1, <4>3
    <3> QED
      BY <3>1, <3>2
  <2>7. /\ Spare \in 0..Budget /\ Bonus \in {0, Budget} /\ Spare' \in 0..Budget
        /\ Bonus' \in {0, Budget}
    <3>1. Spare \in 0..Budget /\ Bonus \in {0, Budget}
      BY Numbers DEF IInv
    <3>2. Bonus' \in {0, Budget}
      BY DEF Bonus
    <3> QED
      BY <1>10, <3>1, <3>2
  <2>8. Spare' + Bonus' + weight[c] <= Spare + Bonus
    <3>1. CASE RefillDue
      BY <1>0, <1>6, <1>8, <3>1 DEF Spare, Bonus
    <3>2. CASE ~ RefillDue
      BY <1>0, <1>7, <1>8, <3>2 DEF Spare, Bonus
    <3> QED
      BY <3>1, <3>2
  <2>9. meter' + Spare' + Bonus' + (s[Callers \ {c}] + v) <= Limit
    <3>1. meter + Spare + Bonus + (s[Callers \ {c}] + a[c]) <= Limit
      BY <2>1, <2>2
    <3> QED
      BY <1>0, <1>1, <2>2, <2>3, <2>5, <2>7, <2>8, <3>1
  <2> QED
    BY <2>1, <2>6, <2>9, Recredit
<1> QED
  BY <1>3, <1>4, <1>5, <1>9, <1>11 DEF IInv

\* Nothing moves but, perhaps, the snapshots.
LEMMA UnmovedIInv ==
    ASSUME IInv, TypeOK',
           UNCHANGED <<now, used, lastFill, backoff, nonce, pc, weight, header, phase, meter,
                       lastSent, limitedAt, overlapped>>
    PROVE  IInv'
<1>2. Past' /\ Backing' /\ SignedQuietAfter429'
  BY KeepsTimes
<1>3. Admitted'
  BY DEF IInv, Admitted
<1>4. Spare' = Spare /\ Bonus' = Bonus /\ Spent' = Spent
  BY DEF Spare, Bonus, Spent, Fresh, VenueAge
<1>5. Alone'
  BY <1>4 DEF IInv, Alone, Metered
<1>6. Credit'
  BY <1>4 DEF IInv, Credit, Covers, Cover
<1> QED
  BY <1>2, <1>3, <1>5, <1>6 DEF IInv

\* Binance takes a request, with or without a caller that waits: the meter grows
\* by what the credit loses.
LEMMA ProcessedKeeps ==
    ASSUME IInv, NEW c \in Callers, pc[c] \in {"sent", "orphan"}, meter' = meter + weight[c],
           UNCHANGED <<now, used, lastFill, phase, overlapped>>,
           \/ pc'[c] = "idle"
           \/ pc'[c] \in {"answered", "throttled"} /\ header'[c] \in Nat /\ header'[c] >= meter',
           \A d \in Callers \ {c} :
               pc'[d] = pc[d] /\ weight'[d] = weight[d] /\ header'[d] = header[d]
    PROVE  Admitted' /\ Alone' /\ Credit'
<1>0. /\ weight[c] \in Nat
      /\ Budget \in Nat /\ used \in Nat /\ meter \in Nat
      /\ Spare \in 0..Budget /\ Bonus \in {0, Budget}
  BY Numbers DEF IInv, TypeOK
<1>1. /\ pc[c] # "idle" /\ pc'[c] \in {"idle", "answered", "throttled"}
      /\ pc'[c] \in {"answered", "throttled"} => header'[c] \in Nat /\ header'[c] >= meter'
      /\ UNCHANGED <<now, used, lastFill, phase, overlapped>> /\ meter' = meter + weight[c]
      /\ \A d \in Callers \ {c} :
               pc'[d] = pc[d] /\ weight'[d] = weight[d] /\ header'[d] = header[d]
  OBVIOUS
<1>2. meter' \in Nat /\ meter <= meter'
  BY <1>0, <1>1
<1>5. Admitted'
  BY <1>1, <1>2 DEF IInv, Admitted
<1>6. Spare' = Spare /\ Bonus' = Bonus /\ Spent' = Spent
  BY <1>1 DEF Spare, Bonus, Spent, Fresh, VenueAge
<1>7. Alone'
  <2> SUFFICES ASSUME ~ overlapped
               PROVE  /\ \A d \in Callers : d # c => pc'[d] = "idle"
                      /\ Metered(0)'
                      /\ pc'[c] \in {"answered", "throttled"} => meter' <= header'[c]
    BY <1>1 DEF Alone
  <2>1. \A d \in Callers : d # c => pc'[d] = "idle"
    BY <1>1, OnlyOne
  <2>2. meter + weight[c] <= Budget + Spent /\ meter + weight[c] <= used + Spent
    BY <1>1 DEF IInv, Alone, Metered
  <2>3. meter' + 0 = meter + weight[c]
    BY <1>0, <1>1
  <2>4. Metered(0)'
    BY <1>1, <1>6, <2>2, <2>3 DEF Metered
  <2> QED
    BY <1>0, <1>1, <2>1, <2>4
<1>8. Credit'
  <2>1. PICK a \in Credits, s \in Sums :
          /\ IsSum(s, a) /\ Covers(a)
          /\ meter + Spare + Bonus + s[Callers] <= Limit
    BY DEF IInv, Credit
  <2>2. s[Callers] = s[Callers \ {c}] + a[c] /\ s[Callers \ {c}] \in Nat /\ a[c] \in 0..Budget
    BY <2>1, SumSplit
  <2>3. Limit \in Int
    BY <1>0, FiniteCallers, OneBudgetMore DEF Limit
  <2>4. weight[c] <= a[c] /\ Budget - meter <= a[c]
    BY <1>1, <2>1 DEF Covers, Cover
  <2>5. PICK v \in 0..Budget : v = a[c] - weight[c]
    <3>1. a[c] - weight[c] \in 0..Budget
      BY <1>0, <2>2, <2>4
    <3> QED
      BY <3>1
  <2>6. Covers([a EXCEPT ![c] = v])'
    <3> SUFFICES ASSUME NEW d \in Callers PROVE Cover(d, [a EXCEPT ![c] = v][d])'
      BY DEF Covers
    <3>1. CASE d = c
      <4>1. [a EXCEPT ![c] = v][d] = v
        BY <3>1 DEF Credits
      <4>2. /\ Budget - meter' <= v
            /\ pc'[c] \in {"answered", "throttled"} => Budget - header'[c] <= v
        BY <1>0, <1>1, <1>2, <2>2, <2>4, <2>5
      <4>3. Cover(c, v)'
        BY <1>1, <4>2 DEF Cover
      <4> QED
        BY <3>1, <4>1, <4>3
    <3>2. CASE d # c
      <4>1. [a EXCEPT ![c] = v][d] = a[d] /\ a[d] \in Int
        BY <1>0, <3>2 DEF Credits
      <4>2. Cover(d, a[d])
        BY <2>1 DEF Covers
      <4>3. Cover(d, a[d])'
        BY <1>0, <1>1, <1>2, <3>2, <4>1, <4>2, KeepsCover
      <4> QED
        BY <4>1, <4>3
    <3> QED
      BY <3>1, <3>2
  <2>7. meter' + Spare' + Bonus' + (s[Callers \ {c}] + v) <= Limit
    <3>1. meter + Spare + Bonus + (s[Callers \ {c}] + a[c]) <= Limit
      BY <2>1, <2>2
    <3> QED
      BY <1>0, <1>1, <1>6, <2>2, <2>3, <2>5, <3>1
  <2> QED
    BY <2>1, <2>6, <2>7, Recredit
<1> QED
  BY <1>5, <1>7, <1>8

\* Binance takes a request and answers it.
LEMMA ProcessIInv ==
    ASSUME IInv, NEW c \in Callers, Process(c)
    PROVE  IInv'
<1>0. /\ pc \in [Callers -> Steps] /\ weight[c] \in Nat
      /\ header \in [Callers -> Nat \cup {NoHeader}]
      /\ meter \in Nat /\ snapshots \in Nat
  BY Numbers DEF IInv, TypeOK
<1>1. /\ UNCHANGED <<now, used, lastFill, backoff, weight, phase, snapshots, lastSent, limitedAt,
                     overlapped, nonce>>
      /\ pc[c] = "sent" /\ pc'[c] \in {"answered", "throttled"}
      /\ meter' = meter + weight[c] /\ header'[c] = meter' + snapshots
      /\ \A d \in Callers \ {c} : pc'[d] = pc[d] /\ header'[d] = header[d]
  BY <1>0 DEF Process, limiter, history
<1>2. meter' \in Nat /\ header'[c] \in Nat /\ header'[c] >= meter'
  BY <1>0, <1>1
<1>3. TypeOK'
  <2>1. pc' \in [Callers -> Steps]
    BY <1>0 DEF Process, Steps
  <2>2. header' = [header EXCEPT ![c] = meter' + snapshots] /\ meter' + snapshots \in Nat
    BY <1>0, <1>2 DEF Process
  <2>3. header' \in [Callers -> Nat \cup {NoHeader}]
    BY <1>0, <2>2
  <2> QED
    BY <1>1, <1>2, <2>1, <2>3 DEF IInv, TypeOK
<1>4. Past' /\ Backing' /\ SignedQuietAfter429'
  BY <1>1, KeepsTimes
<1>5. Admitted' /\ Alone' /\ Credit'
  BY <1>1, <1>2, ProcessedKeeps
<1> QED
  BY <1>3, <1>4, <1>5 DEF IInv

\* Binance takes a request nobody waits for.
LEMMA OrphanProcessedIInv ==
    ASSUME IInv, NEW c \in Callers, OrphanProcessed(c)
    PROVE  IInv'
<1>1. /\ UNCHANGED <<now, used, lastFill, backoff, phase, snapshots, lastSent, limitedAt,
                     overlapped, nonce>>
      /\ pc[c] = "orphan" /\ Return(c) /\ meter' = meter + weight[c]
  BY DEF OrphanProcessed, limiter, history
<1>2. /\ pc'[c] = "idle"
      /\ \A d \in Callers \ {c} :
               pc'[d] = pc[d] /\ weight'[d] = weight[d] /\ header'[d] = header[d]
  BY <1>1 DEF IInv, TypeOK, Return
<1>3. TypeOK'
  <2>1. meter' \in Nat
    BY <1>1, Numbers DEF IInv
  <2> QED
    BY <1>1, <2>1, ReturnType DEF IInv, TypeOK
<1>4. Past' /\ Backing' /\ SignedQuietAfter429'
  BY <1>1, KeepsTimes
<1>5. Admitted' /\ Alone' /\ Credit'
  BY <1>1, <1>2, ProcessedKeeps
<1> QED
  BY <1>3, <1>4, <1>5 DEF IInv

\* A call ends while its request is on the wire: the request keeps its credit.
LEMMA GiveUpIInv ==
    ASSUME IInv, NEW c \in Callers, GiveUp(c)
    PROVE  IInv'
<1>0. pc \in [Callers -> Steps]
  BY DEF IInv, TypeOK
<1>1. /\ UNCHANGED <<now, used, lastFill, backoff, weight, header, phase, meter, snapshots,
                     lastSent, limitedAt, overlapped, nonce>>
      /\ pc[c] = "sent" /\ pc'[c] = "orphan"
      /\ \A d \in Callers \ {c} : pc'[d] = pc[d]
  BY <1>0 DEF GiveUp, limiter, venue, history
<1>2. TypeOK'
  <2>1. pc' \in [Callers -> Steps]
    BY <1>0 DEF GiveUp, Steps
  <2> QED
    BY <1>1, <2>1 DEF IInv, TypeOK
<1>3. Past' /\ Backing' /\ SignedQuietAfter429'
  BY <1>1, KeepsTimes
<1>4. Admitted'
  BY <1>1 DEF IInv, Admitted
<1>5. Spare' = Spare /\ Bonus' = Bonus /\ Spent' = Spent
  BY <1>1 DEF Spare, Bonus, Spent, Fresh, VenueAge
<1>6. Alone'
  <2>1. \A d \in Callers : /\ pc'[d] # "idle" => pc[d] # "idle"
                           /\ pc'[d] \in {"sent", "orphan"} => pc[d] \in {"sent", "orphan"}
                           /\ pc'[d] \in {"answered", "throttled"} => pc'[d] = pc[d]
    BY <1>1
  <2>2. \A w : Metered(w)' <=> Metered(w)
    BY <1>1, <1>5 DEF Metered
  <2> QED
    BY <1>1, <2>1, <2>2 DEF IInv, Alone
<1>7. Credit'
  <2>1. ASSUME NEW d \in Callers, NEW x \in 0..Budget, Cover(d, x)
        PROVE  Cover(d, x)'
    BY <1>1, <2>1 DEF Cover
  <2>2. Spare' + Bonus' <= Spare + Bonus
    <3>1. Spare \in 0..Budget /\ Bonus \in {0, Budget} /\ Budget \in Nat
      BY Numbers DEF IInv
    <3> QED
      BY <1>5, <3>1
  <2> QED
    BY <1>1, <1>2, <2>1, <2>2, SameCredit
<1> QED
  BY <1>2, <1>3, <1>4, <1>6, <1>7 DEF IInv

\* The book feed's snapshot: only Binance takes notice.
LEMMA RefreshSnapshotIInv ==
    ASSUME IInv, RefreshSnapshot
    PROVE  IInv'
<1>0. UNCHANGED <<now, used, lastFill, backoff, nonce, pc, weight, header, phase, meter,
                  lastSent, limitedAt, overlapped>>
  BY DEF RefreshSnapshot, limiter, callVars, history
<1>1. TypeOK'
  <2>1. snapshots' \in Nat
    BY SnapshotsAssumption DEF IInv, TypeOK, RefreshSnapshot
  <2> QED
    BY <1>0, <2>1 DEF IInv, TypeOK
<1> QED
  BY <1>0, <1>1, UnmovedIInv

\* An answer is read: its header replaces the count.
LEMMA ReadAnswerIInv ==
    ASSUME IInv, NEW c \in Callers, ReadAnswer(c)
    PROVE  IInv'
<1>1. /\ UNCHANGED <<now, lastFill, backoff, phase, meter, snapshots, lastSent, limitedAt, overlapped, nonce>>
      /\ pc[c] = "answered" /\ used' = header[c] /\ Return(c)
  BY DEF ReadAnswer, venue, history
<1>2. used' \in Nat
  BY <1>1 DEF IInv, Admitted
<1>3. TypeOK'
  BY <1>1, <1>2, ReturnType DEF IInv, TypeOK
<1>4. Past' /\ Backing' /\ SignedQuietAfter429'
  BY <1>1, KeepsTimes
<1>5. Admitted' /\ Alone' /\ Credit'
  BY <1>1, <1>2, ReturnIInv
<1> QED
  BY <1>3, <1>4, <1>5 DEF IInv

\* A 429 or 418: nothing was sent later, and nothing is until the backoff ends.
LEMMA ReadThrottledIInv ==
    ASSUME IInv, NEW c \in Callers, ReadThrottled(c)
    PROVE  IInv'
<1>0. now \in Nat /\ used \in Nat /\ BackoffTime \in Nat /\ lastSent \in Int
  BY Numbers DEF IInv
<1>1. /\ UNCHANGED <<now, lastFill, phase, meter, snapshots, lastSent, overlapped, nonce>>
      /\ pc[c] = "throttled" /\ Return(c)
      /\ backoff' = now + BackoffTime /\ limitedAt' = now
      /\ used' = used \/ used' = header[c]
  BY DEF ReadThrottled, venue
<1>2. used' \in Nat /\ backoff' \in Nat /\ limitedAt' \in Int
  BY <1>0, <1>1 DEF IInv, Admitted
<1>3. TypeOK'
  BY <1>1, <1>2, ReturnType DEF IInv, TypeOK
<1>4. Past' /\ Backing' /\ SignedQuietAfter429'
  BY <1>0, <1>1 DEF IInv, Past, Backing, SignedQuietAfter429
<1>5. Admitted' /\ Alone' /\ Credit'
  BY <1>1, <1>2, ReturnIInv
<1> QED
  BY <1>3, <1>4, <1>5 DEF IInv

\* A call ends without an answer that says anything of the meter.
LEMMA LostIInv ==
    ASSUME IInv, NEW c \in Callers, Lost(c) \/ OrphanLost(c)
    PROVE  IInv'
<1>1. /\ UNCHANGED <<now, used, lastFill, backoff, phase, meter, snapshots, lastSent, limitedAt,
                     overlapped, nonce>>
      /\ pc[c] # "idle" /\ Return(c)
  BY DEF Lost, OrphanLost, limiter, venue, history
<1>2. used' \in Nat
  BY <1>1 DEF IInv, TypeOK
<1>3. TypeOK'
  BY <1>1, ReturnType DEF IInv, TypeOK
<1>4. Past' /\ Backing' /\ SignedQuietAfter429'
  BY <1>1, KeepsTimes
<1>5. Admitted' /\ Alone' /\ Credit'
  BY <1>1, <1>2, ReturnIInv
<1> QED
  BY <1>3, <1>4, <1>5 DEF IInv

\* The clock moves: in a new window of Binance's the limiter has yet to refill,
\* and every credit is a budget again.
LEMMA TickIInv ==
    ASSUME IInv, Tick
    PROVE  IInv'
<1>0. /\ now \in Nat /\ lastFill \in Nat /\ Budget \in Nat /\ used \in Nat /\ meter \in Nat
      /\ Refill \in Nat \ {0} /\ phase \in 0..(Refill - 1) /\ VenueAge \in 0..(Refill - 1)
      /\ lastFill <= now
  BY Numbers DEF IInv, Past
<1>1. /\ now' = now + 1 /\ meter' = IF now' % Refill = phase THEN 0 ELSE meter
      /\ UNCHANGED <<used, lastFill, backoff, pc, weight, header, phase, lastSent, limitedAt,
                     overlapped, nonce>>
  BY DEF Tick, limiter, callVars, history
<1>2. TypeOK'
  <2>1. now' \in Nat /\ meter' \in Nat
    BY <1>0, <1>1
  <2>2. snapshots' \in Nat
    BY DEF IInv, TypeOK, Tick
  <2> QED
    BY <1>1, <2>1, <2>2 DEF IInv, TypeOK
<1>3. Past' /\ Backing' /\ SignedQuietAfter429'
  <2>1. lastSent \in Int /\ limitedAt \in Int
    BY Numbers DEF IInv
  <2> QED
    BY <1>0, <1>1, <2>1 DEF IInv, Past, Backing, SignedQuietAfter429
<1>4. Admitted'
  BY <1>1 DEF IInv, Admitted
<1>5. VenueAge' = IF VenueAge = Refill - 1 THEN 0 ELSE VenueAge + 1
  <2>1. now - phase \in Int /\ (now + 1) - phase = (now - phase) + 1
    BY <1>0
  <2> QED
    BY <1>0, <1>1, <2>1, OneMore DEF VenueAge
<1>6. now' % Refill = phase <=> VenueAge' = 0
  <2>1. now' \in Int
    BY <1>0, <1>1
  <2>2. now' % Refill = phase <=> (now' - phase) % Refill = 0
    BY <1>0, <2>1, NewWindow
  <2> QED
    BY <1>1, <2>2 DEF VenueAge
<1>7. CASE VenueAge' = 0
  <2>1. meter' = 0
    BY <1>1, <1>6, <1>7
  <2>2. Fresh'
    BY <1>0, <1>1, <1>7 DEF Fresh
  <2>3. Alone'
    <3> SUFFICES ASSUME ~ overlapped
                 PROVE  /\ \A c, d \in Callers : pc[c] # "idle" /\ pc[d] # "idle" => c = d
                        /\ Metered(0)'
                        /\ \A c \in Callers :
                             pc[c] \in {"sent", "orphan"} =>
                                 weight[c] <= used /\ Metered(weight[c])'
                        /\ \A c \in Callers :
                             pc[c] \in {"answered", "throttled"} => meter' <= header[c]
      BY <1>1 DEF Alone
    <3>1. Spent' = 0
      BY <2>2 DEF Spent
    <3>2. Metered(0)'
      BY <1>0, <1>1, <2>1, <3>1 DEF Metered
    <3>3. ASSUME NEW c \in Callers, pc[c] \in {"sent", "orphan"}
          PROVE  weight[c] <= used /\ Metered(weight[c])'
      <4>1. weight[c] <= used /\ weight[c] <= Budget /\ weight[c] \in Nat
        BY <3>3, Numbers DEF IInv, Alone, Admitted
      <4> QED
        BY <1>0, <1>1, <2>1, <3>1, <4>1 DEF Metered
    <3>4. ASSUME NEW c \in Callers, pc[c] \in {"answered", "throttled"}
          PROVE  meter' <= header[c]
      BY <2>1, <3>4 DEF IInv, Admitted
    <3> QED
      BY <3>2, <3>3, <3>4 DEF IInv, Alone
  <2>4. Credit'
    <3> DEFINE a == [c \in Callers |-> Budget]
    <3>1. PICK s \in Sums : IsSum(s, a) /\ s[Callers] = Budget * Cardinality(Callers)
      BY SumAll
    <3>2. a \in Credits
      BY <1>0 DEF Credits
    <3>3. \A c \in Callers : a[c] = Budget
      OBVIOUS
    <3> HIDE DEF a
    <3>4. Covers(a)'
      <4> SUFFICES ASSUME NEW c \in Callers PROVE Cover(c, a[c])'
        BY DEF Covers
      <4>1. a[c] = Budget
        BY <3>3
      <4>2. pc[c] \in {"sent", "orphan"} => weight[c] <= Budget
        BY DEF IInv, Admitted
      <4>3. pc[c] \in {"answered", "throttled"} => Budget - header[c] <= Budget
        BY <1>0 DEF IInv, Admitted
      <4>4. Budget - meter' <= Budget
        BY <1>0, <2>1
      <4>5. Cover(c, Budget)'
        BY <1>1, <4>2, <4>3, <4>4 DEF Cover
      <4> QED
        BY <4>1, <4>5
    <3>5. Spare' \in 0..Budget /\ Bonus' = Budget
      <4>1. used' \in Nat
        BY <1>0, <1>1
      <4> QED
        BY <2>2, <4>1, SpareRange DEF Bonus
    <3>6. /\ Limit = Budget * Cardinality(Callers) + 2 * Budget
          /\ Budget * Cardinality(Callers) \in Nat
      BY <1>0, FiniteCallers, OneBudgetMore DEF Limit
    <3>7. meter' + Spare' + Bonus' + s[Callers] <= Limit
      BY <1>0, <2>1, <3>1, <3>5, <3>6
    <3> QED
      BY <3>1, <3>2, <3>4, <3>7 DEF Credit
  <2> QED
    BY <1>2, <1>3, <1>4, <2>3, <2>4 DEF IInv
<1>8. CASE VenueAge' # 0
  <2>1. meter' = meter /\ VenueAge' = VenueAge + 1
    BY <1>1, <1>5, <1>6, <1>8
  <2>2. Fresh' <=> Fresh
    BY <1>0, <1>1, <2>1 DEF Fresh
  <2>3. Spare' = Spare /\ Bonus' = Bonus /\ Spent' = Spent
    BY <1>1, <2>2 DEF Spare, Bonus, Spent
  <2>4. Alone'
    BY <1>1, <2>1, <2>3 DEF IInv, Alone, Metered
  <2>5. Credit'
    <3>1. Spare' + Bonus' <= Spare + Bonus
      <4>1. Spare \in 0..Budget /\ Bonus \in {0, Budget}
        BY Numbers DEF IInv
      <4> QED
        BY <1>0, <2>3, <4>1
    <3>2. ASSUME NEW d \in Callers, NEW x \in 0..Budget, Cover(d, x)
          PROVE  Cover(d, x)'
      BY <1>1, <2>1, <3>2 DEF Cover
    <3> QED
      BY <1>2, <2>1, <3>1, <3>2, SameCredit
  <2> QED
    BY <1>2, <1>3, <1>4, <2>4, <2>5 DEF IInv
<1> QED
  BY <1>7, <1>8

\* Every step of callers, Binance and clock keeps the inductive invariant.
LEMMA StepIInv == IInv /\ [Next]_vars => IInv'
<1> SUFFICES ASSUME IInv, [Next]_vars PROVE IInv'
  OBVIOUS
<1>1. ASSUME NEW c \in Callers,
             PlaceOrder(c) \/ GetOrder(c) \/ CancelOrder(c) \/ GetFills(c) \/ GetBalances(c)
      PROVE  IInv'
  BY <1>1, SignIInv DEF PlaceOrder, GetOrder, CancelOrder, GetFills, GetBalances, Weights
<1>2. ASSUME NEW c \in Callers,
             \/ Send(c) \/ Limited(c) \/ Process(c)
             \/ ReadAnswer(c) \/ ReadThrottled(c) \/ Lost(c)
             \/ GiveUp(c) \/ OrphanProcessed(c) \/ OrphanLost(c)
      PROVE  IInv'
  BY <1>2, SendIInv, LimitedIInv, ProcessIInv, ReadAnswerIInv, ReadThrottledIInv, LostIInv,
     GiveUpIInv, OrphanProcessedIInv
<1>3. CASE UNCHANGED vars
  <2>0. UNCHANGED <<now, used, lastFill, backoff, nonce, pc, weight, header, phase, meter,
                    snapshots, lastSent, limitedAt, overlapped>>
    BY <1>3 DEF vars, limiter, callVars, venue, history
  <2>1. TypeOK'
    BY <2>0 DEF IInv, TypeOK
  <2> QED
    BY <2>0, <2>1, UnmovedIInv
<1> QED
  BY <1>1, <1>2, <1>3, RefreshSnapshotIInv, TickIInv DEF Next

\* The inductive invariant holds of every behaviour.
LEMMA Inductive == Spec => []IInv
  BY InitIInv, StepIInv, PTL DEF Spec
-----------------------------------------------------------------------------
\* Type correctness of the connector and its WeightedLimiter
\* (binance.go:86-134, ratelimit.go:33-104).
THEOREM TypeCorrect == Spec => []TypeOK
<1>1. IInv => TypeOK
  BY DEF IInv
<1> QED
  BY <1>1, Inductive, PTL

\* What Binance meters for signed calls in one of its windows, wherever they start:
\* at most twice the budget while each call finds no other request left, and another
\* budget for each request that can be left otherwise.  The snapshots, which pass by
\* the limiter, come on top (ratelimit.go:33-62, 82-104; binance.go:106-134;
\* book.go:91).
THEOREM Meter == Spec => []MeterBound
<1>1. IInv => MeterBound
  <2> SUFFICES ASSUME IInv PROVE MeterBound
    OBVIOUS
  <2>0. /\ Budget \in Nat /\ meter \in Nat /\ Spent \in {0, Budget} /\ Spare \in 0..Budget
        /\ Bonus \in {0, Budget}
    BY Numbers DEF IInv, TypeOK
  <2>1. CASE ~ overlapped
    <3>1. meter + 0 <= Budget + Spent
      BY <2>1 DEF IInv, Alone, Metered
    <3>2. meter <= Budget * 2
      BY <2>0, <3>1
    <3> QED
      BY <2>0, <2>1, <3>2 DEF MeterBound
  <2>2. CASE overlapped
    <3>1. PICK s \in Sums : meter + Spare + Bonus + s[Callers] <= Limit
      BY DEF IInv, Credit
    <3>2. s[Callers] \in Nat /\ Limit \in Int
      BY <2>0, FiniteCallers, OneBudgetMore DEF Sums, Limit
    <3>3. meter <= Limit
      BY <2>0, <3>1, <3>2
    <3> QED
      BY <2>2, <3>3 DEF MeterBound, Limit
  <2> QED
    BY <2>1, <2>2
<1> QED
  BY <1>1, Inductive, PTL

\* The silence of the signed calls that do() and WeightedLimiter.Backoff promise
\* after a 429 or 418; the snapshots of the book feed do not keep it
\* (binance.go:124-127).
THEOREM Quiet == Spec => []SignedQuietAfter429
<1>1. IInv => SignedQuietAfter429
  BY DEF IInv
<1> QED
  BY <1>1, Inductive, PTL
==============================================================================
