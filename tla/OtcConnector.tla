---------------------------- MODULE OtcConnector ----------------------------
(***************************************************************************)
(* The OTC connector: RFQ order placement in two REST calls, the other     *)
(* calls in one, all through do() and the RPSLimiter that guards it.       *)
(* Callers are goroutines; time is a clock that any of them may see move   *)
(* between two steps.  The desk (external) decides on an accepted quote    *)
(* when it likes, also after its answer was read or given up, and answers  *)
(* with any status, throttles, or does not answer.  An observer window may *)
(* be opened at any instant: it counts the requests the gateway lets out   *)
(* in the next Window ticks, as a desk that meters with its own clock does.*)
(***************************************************************************)
EXTENDS Integers

CONSTANTS
    Callers,        \* goroutines using the connector
    Limit,          \* RPSLimiter.limit
    Window,         \* RPSLimiter.window (1 s)
    BackoffTime,    \* do(): pause after a 429 (5 s)
    MaxTime         \* bound on the clock

ASSUME LimitAssumption == Limit \in Nat
ASSUME TimesAssumption == Window \in Nat \ {0} /\ BackoffTime \in Nat /\ MaxTime \in Nat

VARIABLES
    now,
    count, start, backoff,  \* RPSLimiter; backoff = 0 is the zero time
    pc,         \* where each caller is
    op,         \* the call it makes
    result,     \* what its last call returned
    accepts,    \* callers whose current or last accept the desk has yet to decide
    executed,   \* callers whose current or last PlaceOrder the desk executed
    recorded,   \* callers whose current or last PlaceOrder is in Connector.orders
    obsStart, obs,          \* the observer window and its count
    lastSent, limitedAt     \* times of the last admission and of the last 429 seen, -1 before

limiter == <<count, start, backoff>>
callVars == <<pc, op, result, accepts, executed, recorded>>
history == <<obsStart, obs, lastSent, limitedAt>>
vars == <<now, limiter, callVars, history>>

Ops == {"place", "single"}     \* two REST calls, or one
Steps == {"idle", "send", "sent", "accept", "accepting"}
Statuses == {"new", "filled", "canceled"}   \* mapStatus; partial counts as filled
\* An error of PlaceOrder is "unquoted" before the accept was sent and "open" after.
Results == {"none", "ok", "limited", "unquoted", "open", "failed"} \cup Statuses

Init ==
    /\ now = 0
    /\ count = 0 /\ start = 0 /\ backoff = 0
    /\ pc = [c \in Callers |-> "idle"]
    /\ op = [c \in Callers |-> "single"]
    /\ result = [c \in Callers |-> "none"]
    /\ accepts = {} /\ executed = {} /\ recorded = {}
    /\ obsStart = 0 /\ obs = 0 /\ lastSent = -1 /\ limitedAt = -1
-----------------------------------------------------------------------------
Return(c, r) ==
    /\ pc' = [pc EXCEPT ![c] = "idle"]
    /\ result' = [result EXCEPT ![c] = r]

\* A caller enters one of the connector's methods.
Start(c, o) ==
    /\ pc[c] = "idle"
    /\ pc' = [pc EXCEPT ![c] = "send"]
    /\ op' = [op EXCEPT ![c] = o]
    /\ accepts' = accepts \ {c}
    /\ executed' = executed \ {c}
    /\ recorded' = recorded \ {c}
    /\ UNCHANGED <<now, limiter, result, history>>

PlaceOrder(c) == Start(c, "place")
GetOrder(c) == Start(c, "single")
CancelOrder(c) == Start(c, "single")
GetFills(c) == Start(c, "single")
GetBalances(c) == Start(c, "single")

\* RPSLimiter.Wait, first half: the window in force at this instant.
WindowOver == now - start >= Window
Count0 == IF WindowOver THEN 0 ELSE count
\* Mutated form of Start0: the window's start is never moved.
Start0Fixed == start
Start0 == IF WindowOver THEN now ELSE start

\* Mutated form of WaitAdmits: the backoff is not looked at.
WaitAdmitsInBackoff == Count0 < Limit
WaitAdmits == now >= backoff /\ Count0 < Limit

\* do() admitted: one more request leaves for the desk; only an accept commits.
Send(c) ==
    /\ pc[c] \in {"send", "accept"}
    /\ WaitAdmits
    /\ start' = Start0
    /\ count' = Count0 + 1
    /\ IF pc[c] = "send"
         THEN pc' = [pc EXCEPT ![c] = "sent"] /\ accepts' = accepts
         ELSE pc' = [pc EXCEPT ![c] = "accepting"] /\ accepts' = accepts \cup {c}
    /\ obs' = IF now - obsStart < Window THEN obs + 1 ELSE obs
    /\ lastSent' = now
    /\ UNCHANGED <<now, backoff, op, result, executed, recorded, obsStart, limitedAt>>

\* Mutated form of Limited: a rejected request gives a place back.
LimitedRefunds(c) ==
    /\ pc[c] \in {"send", "accept"}
    /\ ~ WaitAdmits
    /\ count' = count - 1
    /\ Return(c, "limited")
    /\ UNCHANGED <<now, start, backoff, op, accepts, executed, recorded, history>>

\* do() turned away by the limiter: an open backoff leaves the window alone, a
\* full window is reset first if it is over.
Limited(c) ==
    /\ pc[c] \in {"send", "accept"}
    /\ ~ WaitAdmits
    /\ IF now < backoff THEN UNCHANGED <<start, count>> ELSE start' = Start0 /\ count' = Count0
    /\ Return(c, "limited")
    /\ UNCHANGED <<now, backoff, op, accepts, executed, recorded, history>>

\* The desk takes an accepted quote (external); only then is the trade done.
DeskExecutes(c) ==
    /\ c \in accepts
    /\ accepts' = accepts \ {c}
    /\ executed' = executed \cup {c}
    /\ UNCHANGED <<now, limiter, pc, op, result, recorded, history>>

\* The desk turns an accepted quote down (external).
DeskRejects(c) ==
    /\ c \in accepts
    /\ accepts' = accepts \ {c}
    /\ UNCHANGED <<now, limiter, pc, op, result, executed, recorded, history>>

\* Mutated form of RespondOk: a live quote counts as an order placed.
RespondOkUnaccepted(c) ==
    /\ pc[c] = "sent"
    /\ Return(c, IF op[c] = "place" THEN "filled" ELSE "ok")
    /\ UNCHANGED <<now, limiter, op, accepts, executed, recorded, history>>

\* Success of a single call, or of the RFQ: a live quote goes on to accept.
RespondOk(c) ==
    /\ pc[c] = "sent"
    /\ IF op[c] = "place" THEN pc' = [pc EXCEPT ![c] = "accept"] /\ result' = result
                          ELSE Return(c, "ok")
    /\ UNCHANGED <<now, limiter, op, accepts, executed, recorded, history>>

\* What the desk's answer to an accept may say: the decision, or, when it was
\* written before that, that the order is open (external).
Answers(c) ==
    {"new"} \cup (IF c \in executed THEN {"filled"}
               ELSE IF c \in accepts THEN {} ELSE {"canceled"})

\* The accept call answered 200: order and fill are kept by the connector
\* whatever the status says; nothing here looks at it.
AcceptOk(c) ==
    /\ pc[c] = "accepting"
    /\ recorded' = recorded \cup {c}
    /\ \E status \in Answers(c) : Return(c, status)
    /\ UNCHANGED <<now, limiter, op, accepts, executed, history>>

Failure(c) ==
    CASE op[c] = "single" -> "failed"
      [] op[c] = "place" /\ pc[c] = "sent" -> "unquoted"
      [] op[c] = "place" /\ pc[c] = "accepting" -> "open"

\* Any other answer: status 400 and up, a rejected or expired quote, a body that
\* does not parse, a transport error, a timeout.  The desk may have acted.
RespondFailed(c) ==
    /\ pc[c] \in {"sent", "accepting"}
    /\ Return(c, Failure(c))
    /\ UNCHANGED <<now, limiter, op, accepts, executed, recorded, history>>

\* 429: RPSLimiter.Backoff.
RespondThrottled(c) ==
    /\ pc[c] \in {"sent", "accepting"}
    /\ backoff' = now + BackoffTime
    /\ limitedAt' = now
    /\ Return(c, Failure(c))
    /\ UNCHANGED <<now, count, start, op, accepts, executed, recorded, obsStart, obs, lastSent>>

Tick ==
    /\ now < MaxTime
    /\ now' = now + 1
    /\ UNCHANGED <<limiter, callVars, history>>

\* A new observer window opens.
Observe ==
    /\ obsStart' = now
    /\ obs' = 0
    /\ UNCHANGED <<now, limiter, callVars, lastSent, limitedAt>>

Calls(c) ==
    \/ PlaceOrder(c) \/ GetOrder(c) \/ CancelOrder(c) \/ GetFills(c) \/ GetBalances(c)

Progress(c) ==
    \/ Send(c) \/ Limited(c)
    \/ RespondOk(c) \/ AcceptOk(c) \/ RespondFailed(c) \/ RespondThrottled(c)

Next ==
    \/ \E c \in Callers : Calls(c) \/ Progress(c) \/ DeskExecutes(c) \/ DeskRejects(c)
    \/ Tick
    \/ Observe

Spec == Init /\ [][Next]_vars
-----------------------------------------------------------------------------
TypeOK ==
    /\ now \in Nat
    /\ count \in Nat /\ start \in Nat /\ backoff \in Nat
    /\ pc \in [Callers -> Steps]
    /\ op \in [Callers -> Ops]
    /\ result \in [Callers -> Results]
    /\ accepts \subseteq Callers /\ executed \subseteq Callers /\ recorded \subseteq Callers
    /\ obsStart \in Nat /\ obs \in Nat
    /\ lastSent \in Int /\ limitedAt \in Int

\* RPSLimiter.Wait resets its window at the first call after it ends, so it is
\* not a sliding limit; but whatever instant the desk starts a window of the
\* same length at, it sees at most twice the limit (ratelimit.go:198-218).
BurstBound == obs <= 2 * Limit

\* After a 429 nothing is sent for the backoff time, even when several callers
\* are answered 429 at different times (otc.go:275, ratelimit.go:201-204).
QuietAfter429 ==
    limitedAt >= 0 => (lastSent <= limitedAt \/ lastSent >= limitedAt + BackoffTime)

\* What PlaceOrder's return leaves to infer about the trade, at any time after
\* it: turned away by the limiter (also between quote and accept) or before the
\* accept, the desk neither traded nor ever will; a filled order was executed
\* and a canceled one never is.  An error after the accept, and "new", leave it
\* open.  The connector keeps order and fill exactly for the calls that return
\* without an error, a canceled one included (otc.go:86-136).
PlaceOutcome ==
    \A c \in Callers : pc[c] = "idle" /\ op[c] = "place" =>
        /\ result[c] \in {"limited", "unquoted", "canceled"} => c \notin executed \cup accepts
        /\ result[c] = "filled" => c \in executed
        /\ c \in recorded <=> result[c] \in Statuses
=============================================================================
