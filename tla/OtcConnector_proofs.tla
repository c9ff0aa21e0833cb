------------------------ MODULE OtcConnector_proofs ------------------------
(***************************************************************************)
(* For every limit, window, backoff time and set of callers: the burst an  *)
(* OTC desk can see, the silence after a 429, and what PlaceOrder returns. *)
(***************************************************************************)
EXTENDS OtcConnector, TLAPS

\* The clock bounds every instant the limiter and the observer remember.
Past ==
    /\ start <= now /\ obsStart <= now
    /\ lastSent <= now /\ limitedAt <= now
    /\ count <= Limit

\* While the observer window is open it holds the admissions of at most two
\* limiter windows: the one in force, and, if that one began inside the
\* observer window, the one before it.
Observed ==
    /\ obs <= 2 * Limit
    /\ now - obsStart < Window =>
          IF start >= obsStart THEN obs <= Limit + count ELSE obs <= count

Backing == limitedAt >= 0 => backoff = limitedAt + BackoffTime

\* A call in progress has not been recorded, the desk holds an accept only of a
\* placement that sent one, and it decides each accept once.
InCall ==
    \A c \in Callers :
        /\ pc[c] \in {"accept", "accepting"} => op[c] = "place"
        /\ pc[c] # "idle" => c \notin recorded
        /\ pc[c] \in {"send", "sent", "accept"} => c \notin executed \cup accepts
        /\ c \in accepts => c \notin executed

IInv == TypeOK /\ Past /\ Observed /\ Backing /\ QuietAfter429 /\ InCall /\ PlaceOutcome

\* The inductive invariant holds before any call.
LEMMA InitIInv == Init => IInv
  BY LimitAssumption, TimesAssumption
  DEF Init, IInv, TypeOK, Past, Observed, Backing, QuietAfter429, InCall, PlaceOutcome,
      Ops, Steps, Results, Statuses

\* Steps that only move a caller from one place to another leave the limiter
\* and the history alone.
LEMMA CallersKeepTimes ==
    ASSUME IInv, UNCHANGED <<now, limiter, history>>
    PROVE  Past' /\ Observed' /\ Backing' /\ QuietAfter429'
  BY DEF IInv, Past, Observed, Backing, QuietAfter429, limiter, history

\* Admission: the heart of the burst bound.
LEMMA SendKeepsTimes ==
    ASSUME IInv, NEW c \in Callers, Send(c)
    PROVE  Past' /\ Observed' /\ Backing' /\ QuietAfter429'
<1>0. /\ now \in Nat /\ start \in Nat /\ count \in Nat /\ backoff \in Nat
      /\ obsStart \in Nat /\ obs \in Nat /\ lastSent \in Int /\ limitedAt \in Int
      /\ Limit \in Nat /\ Window \in Nat /\ Window > 0 /\ BackoffTime \in Nat
  BY LimitAssumption, TimesAssumption DEF IInv, TypeOK
<1>1. CASE WindowOver
  BY <1>0, <1>1 DEF IInv, Past, Observed, Backing, QuietAfter429, Send, WaitAdmits, WindowOver, Count0, Start0
<1>2. CASE ~ WindowOver
  BY <1>0, <1>2 DEF IInv, Past, Observed, Backing, QuietAfter429, Send, WaitAdmits, WindowOver, Count0, Start0
<1> QED BY <1>1, <1>2

\* The error a call returns tells whether the accept had been sent.
LEMMA FailureKind ==
    ASSUME IInv, NEW c \in Callers, pc[c] \in {"sent", "accepting"}
    PROVE  /\ Failure(c) \in Results \ Statuses
           /\ Failure(c) # "limited"
           /\ Failure(c) = "unquoted" => pc[c] = "sent"
<1>1. op[c] \in {"place", "single"}
  BY DEF IInv, TypeOK, Ops
<1> QED BY <1>1 DEF Failure, Results, Statuses

\* Every step of callers, desk, clock and observer keeps the inductive invariant.
LEMMA StepIInv == IInv /\ [Next]_vars => IInv'
<1> SUFFICES ASSUME IInv, [Next]_vars PROVE IInv'
  OBVIOUS
<1> USE DEF IInv
<1>0. /\ Limit \in Nat /\ Window \in Nat \ {0} /\ BackoffTime \in Nat
  BY LimitAssumption, TimesAssumption
<1>1. ASSUME NEW c \in Callers, NEW o \in Ops, Start(c, o) PROVE IInv'
  <2>1. TypeOK' /\ InCall' /\ PlaceOutcome'
    BY <1>1 DEF Start, TypeOK, InCall, PlaceOutcome, Steps, limiter, history
  <2> QED BY <1>1, <2>1, CallersKeepTimes DEF Start
<1>2. ASSUME NEW c \in Callers, Send(c) PROVE IInv'
  <2>1. TypeOK'
    BY <1>2 DEF Send, TypeOK, Steps, Count0, Start0
  <2>2. InCall' /\ PlaceOutcome'
    BY <1>2 DEF Send, TypeOK, InCall, PlaceOutcome, Steps, Statuses
  <2> QED BY <1>2, <2>1, <2>2, SendKeepsTimes
<1>3. ASSUME NEW c \in Callers, Limited(c) PROVE IInv'
  <2>1. TypeOK'
    BY <1>3 DEF Limited, Return, TypeOK, Steps, Results, Count0, Start0, history
  <2>2. InCall' /\ PlaceOutcome'
    BY <1>3 DEF Limited, Return, TypeOK, InCall, PlaceOutcome, Steps, Statuses
  <2>3. Past' /\ Observed' /\ Backing' /\ QuietAfter429'
    BY <1>3, <1>0 DEF Limited, TypeOK, Past, Observed, Backing, QuietAfter429, Count0, Start0,
          WindowOver, WaitAdmits, history
  <2> QED BY <2>1, <2>2, <2>3
<1>4. ASSUME NEW c \in Callers, DeskExecutes(c) \/ DeskRejects(c) PROVE IInv'
  <2>1. TypeOK' /\ InCall' /\ PlaceOutcome'
    BY <1>4 DEF DeskExecutes, DeskRejects, TypeOK, InCall, PlaceOutcome, limiter, history
  <2> QED BY <1>4, <2>1, CallersKeepTimes DEF DeskExecutes, DeskRejects
<1>5. ASSUME NEW c \in Callers, RespondOk(c) PROVE IInv'
  <2>1. TypeOK' /\ InCall' /\ PlaceOutcome'
    BY <1>5 DEF RespondOk, Return, TypeOK, InCall, PlaceOutcome, Steps, Results, Statuses,
          limiter, history
  <2> QED BY <1>5, <2>1, CallersKeepTimes DEF RespondOk
<1>6. ASSUME NEW c \in Callers, AcceptOk(c) PROVE IInv'
  <2>0. PICK status \in Answers(c) : Return(c, status)
    BY <1>6 DEF AcceptOk
  <2>1. /\ status \in Statuses
        /\ status = "filled" => c \in executed
        /\ status = "canceled" => c \notin executed \cup accepts
    BY <2>0 DEF Answers, Statuses
  <2>2. TypeOK'
    BY <1>6, <2>0, <2>1 DEF AcceptOk, Return, TypeOK, Steps, Results, limiter, history
  <2>3. InCall'
    BY <1>6, <2>0 DEF AcceptOk, Return, TypeOK, InCall
  <2>4. PlaceOutcome'
    BY <1>6, <2>0, <2>1 DEF AcceptOk, Return, TypeOK, InCall, PlaceOutcome, Statuses
  <2> QED BY <1>6, <2>2, <2>3, <2>4, CallersKeepTimes DEF AcceptOk
<1>7. ASSUME NEW c \in Callers, RespondFailed(c) PROVE IInv'
  <2>1. TypeOK' /\ InCall' /\ PlaceOutcome'
    BY <1>7, FailureKind DEF RespondFailed, Return, TypeOK, InCall, PlaceOutcome, Steps, Results,
          Statuses, limiter, history
  <2> QED BY <1>7, <2>1, CallersKeepTimes DEF RespondFailed
<1>8. ASSUME NEW c \in Callers, RespondThrottled(c) PROVE IInv'
  <2>1. TypeOK' /\ InCall' /\ PlaceOutcome'
    BY <1>8, <1>0, FailureKind DEF RespondThrottled, Return, TypeOK, InCall, PlaceOutcome, Steps,
          Results, Statuses
  <2>2. Past' /\ Observed' /\ Backing' /\ QuietAfter429'
    BY <1>8, <1>0 DEF RespondThrottled, TypeOK, Past, Observed, Backing, QuietAfter429
  <2> QED BY <2>1, <2>2
<1>10. CASE Tick \/ Observe
  <2>1. TypeOK' /\ InCall' /\ PlaceOutcome'
    BY <1>10 DEF Tick, Observe, TypeOK, InCall, PlaceOutcome, limiter, callVars, history
  <2>2. Past' /\ Observed' /\ Backing' /\ QuietAfter429'
    BY <1>10, <1>0 DEF Tick, Observe, TypeOK, Past, Observed, Backing, QuietAfter429,
          limiter, history
  <2> QED BY <2>1, <2>2
<1>11. CASE UNCHANGED vars
  BY <1>11 DEF vars, limiter, callVars, history, TypeOK, Past, Observed, Backing, QuietAfter429,
        InCall, PlaceOutcome
<1> QED
  BY <1>1, <1>2, <1>3, <1>4, <1>5, <1>6, <1>7, <1>8, <1>10, <1>11
  DEF Next, Calls, Progress, PlaceOrder, GetOrder, CancelOrder, GetFills, GetBalances, Ops

\* The inductive invariant holds of every behaviour.
LEMMA Inductive == Spec => []IInv
  BY InitIInv, StepIInv, PTL DEF Spec

\* Type correctness of the OTC connector and its RPSLimiter.
THEOREM TypeCorrect == Spec => []TypeOK
  BY Inductive, PTL DEF IInv

\* No instant at which a desk may start metering sees more than twice the
\* limit in one window of RPSLimiter's length.
THEOREM Burst == Spec => []BurstBound
<1>1. IInv => BurstBound
  BY DEF IInv, Observed, BurstBound
<1> QED BY <1>1, Inductive, PTL

\* The silence do() and RPSLimiter.Backoff promise after a 429.
THEOREM Quiet == Spec => []QuietAfter429
  BY Inductive, PTL DEF IInv

\* What PlaceOrder's return leaves to infer about the trade stays true however
\* late the desk decides on the accept.
THEOREM Outcome == Spec => []PlaceOutcome
  BY Inductive, PTL DEF IInv
=============================================================================
