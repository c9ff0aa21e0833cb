----------------------------- MODULE OrderFlow -----------------------------
(***************************************************************************)
(* The order path of the gateway: the HTTP handlers of internal/server,    *)
(* each running in its own goroutine, against the venue connector, the     *)
(* order store, the audit sink and the event bus.  A request is one HTTP   *)
(* call; a client that retries sends another request with the same intent. *)
(* The gateway may crash between any two steps and be restarted.           *)
(***************************************************************************)
EXTENDS Naturals, Sequences, FiniteSets

CONSTANTS
    Requests,       \* the HTTP requests, one handler goroutine each
    Intent,         \* Intent[p]: what the client of request p wants; a retry shares it
    FillsPerOrder,  \* fills in a successful PlaceOrder response (dummy venue: 1)
    Assets,         \* number of assets in a balances response (dummy venue: 3)
    MaxRetries,     \* Bus.maxRetries (3 in the code)
    WriterAttempts, \* attempts of kafka.Writer within one Publish (its default: 10)
    MaxCrashes,     \* bound on the number of crashes of a behaviour
    Wirings,        \* the wirings of connector, store and sink that main() may choose
    NoOrder         \* an order id the gateway never issued

ASSUME RequestsAssumption == NoOrder \notin Requests /\ IsFiniteSet(Requests)
ASSUME SizesAssumption ==
    /\ FillsPerOrder \in Nat \ {0}
    /\ Assets \in Nat \ {0}
    /\ MaxRetries \in Nat
    /\ WriterAttempts \in Nat \ {0}
    /\ MaxCrashes \in Nat

\* selectConnector, newStore, newAuditSink and EVENT_BUS_URL of main: any real
\* exchange is one, and without the URL there is no bus.
Configs == [connector : {"dummy", "exchange"},
            store : {"memory", "postgres"},
            sink : {"memory", "kafka"},
            bus : {"none", "kafka"}]
ASSUME WiringsAssumption == Wirings \subseteq Configs

VARIABLES
    config,     \* the wiring main() chose from the environment
    pc,         \* where each handler is
    kind,       \* which handler serves the request
    target,     \* the order id of a cancel request
    item,       \* index of the loop over fills or assets
    attempt,    \* PublishFill / PublishBalance: attempts that failed before this one
    ctxDone,    \* requests whose context is cancelled or has timed out
    reply,      \* HTTP status sent, 0 before
    orders,     \* venue side: status of every order, "none" when unknown there
    storedOrders, storedFills,  \* rows of the order store
    storeErrors,                \* writes whose error the handler discarded
    audit,      \* the events the audit sink took, in the order in which it took them
    auditLost,  \* events whose write to Kafka reported an error: counted there and dropped
    bus,        \* copies of every fill on the event bus
    deadLetter, \* fills handed to Bus.deadLetter, which main leaves a no-op: kept nowhere
    crashes,
    shown       \* orders that GET /admin/status has shown to a client

vars == <<config, pc, kind, target, item, attempt, ctxDone, reply, orders,
          storedOrders, storedFills, storeErrors, audit, auditLost, bus, deadLetter, crashes,
          shown>>

\* The dummy venue names an order and its trades with fresh uuids: the request
\* that placed the order stands for the one, its index for the others.
Fills == Requests \X (1..FillsPerOrder)
Statuses == {"none", "filled", "canceled"}
Kinds == {"none", "order", "cancel", "balances", "rotate"}
Events == [type : {"order_placed", "fill", "order_canceled", "balance_snapshot",
                   "credential_rotation"},
           order : Requests \cup {NoOrder},
           item : Nat]

Publishing == {"publish", "wait"}
Storing == {"record_order", "record_fill"}
Running == Publishing \cup Storing \cup
    {"place", "audit_order", "audit_item", "cancel", "audit_cancel", "balances",
     "audit_rotate", "reply"}
PCs == Running \cup {"idle", "done", "crashed"}

handlerVars == <<pc, kind, target, item, attempt, reply>>
storeVars == <<storedOrders, storedFills, storeErrors>>
auditVars == <<audit, auditLost>>

Init ==
    /\ config \in Wirings
    /\ pc = [p \in Requests |-> "idle"]
    /\ kind = [p \in Requests |-> "none"]
    /\ target = [p \in Requests |-> NoOrder]
    /\ item = [p \in Requests |-> 1]
    /\ attempt = [p \in Requests |-> 0]
    /\ ctxDone = {}
    /\ reply = [p \in Requests |-> 0]
    /\ orders = [p \in Requests |-> "none"]
    /\ storedOrders = {}
    /\ storedFills = {}
    /\ storeErrors = {}
    /\ audit = <<>>
    /\ auditLost = {}
    /\ bus = [f \in Fills |-> 0]
    /\ deadLetter = {}
    /\ crashes = 0
    /\ shown = {}
-----------------------------------------------------------------------------
\* Control of one handler.
Goto(p, where) == pc' = [pc EXCEPT ![p] = where]

Answer(p, status) ==
    /\ Goto(p, "done")
    /\ reply' = [reply EXCEPT ![p] = status]

\* audit.Sink.Emit returns nothing: when the Kafka sink cannot write the event
\* the handler does not notice.  Emit waits for the acknowledgement, so that the
\* order of audit is that of the time stamps of a handler's events; the topic's
\* partitions have none (LeastBytes ignores the key).
Emit(type, order, i) ==
    LET e == [type |-> type, order |-> order, item |-> i] IN
      \/ audit' = Append(audit, e) /\ auditLost' = auditLost
      \/ config.sink = "kafka" /\ auditLost' = auditLost \cup {e} /\ audit' = audit

\* Order ids a client can know: answered to it, read from the bus, or from the
\* last_fill of GET /admin/status.
Known == shown \cup
    {q \in Requests : \/ kind[q] = "order" /\ reply[q] = 200
                      \/ \E i \in 1..FillsPerOrder : bus[<<q, i>>] > 0}
-----------------------------------------------------------------------------
\* Middleware: a request without a valid, unexpired token reaches no handler.
Unauthorized(p) ==
    /\ pc[p] = "idle"
    /\ Answer(p, 401)
    /\ UNCHANGED <<config, kind, target, item, attempt, ctxDone, orders, storeVars, auditVars,
                   bus, deadLetter, crashes, shown>>

\* A request of any of the three kinds that fails the method, path, JSON, field,
\* amount or price checks of its handler; one status stands for 400 and 405.
Reject(p) ==
    /\ pc[p] = "idle"
    /\ \E k \in {"order", "cancel", "balances"} : kind' = [kind EXCEPT ![p] = k]
    /\ Answer(p, 400)
    /\ UNCHANGED <<config, target, item, attempt, ctxDone, orders, storeVars, auditVars, bus,
                   deadLetter, crashes, shown>>
-----------------------------------------------------------------------------
(* POST /v1/orders *)

AcceptOrder(p) ==
    /\ pc[p] = "idle"
    /\ kind' = [kind EXCEPT ![p] = "order"]
    /\ Goto(p, "place")
    /\ UNCHANGED <<config, target, item, attempt, ctxDone, reply, orders, storeVars, auditVars,
                   bus, deadLetter, crashes, shown>>

\* connector.PlaceOrder.  The handler passes no ClientOrderID: the dummy venue
\* makes one up and fills the order at once ...
DummyPlaceOrder(p) ==
    /\ pc[p] = "place"
    /\ config.connector = "dummy"
    /\ orders' = [orders EXCEPT ![p] = "filled"]
    /\ Goto(p, "record_order")
    /\ UNCHANGED <<config, kind, target, item, attempt, ctxDone, reply, storeVars, auditVars,
                   bus, deadLetter, crashes, shown>>

\* ... and the Binance, Kraken and OTC connectors return an error.
ExchangePlaceOrder(p) ==
    /\ pc[p] = "place"
    /\ config.connector = "exchange"
    /\ Answer(p, 502)
    /\ UNCHANGED <<config, kind, target, item, attempt, ctxDone, orders, storeVars, auditVars,
                   bus, deadLetter, crashes, shown>>

\* store.RecordOrder and store.RecordFill: the row is written (a second write of
\* it would change nothing), or the Postgres insert fails and the error is dropped.
StoreOutcomes == IF config.store = "postgres" THEN BOOLEAN ELSE {TRUE}

\* Mutated form of RecordOrder: the row is forgotten.
RecordOrderSkipped(p) ==
    /\ pc[p] = "record_order"
    /\ Goto(p, "record_fill")
    /\ UNCHANGED <<config, kind, target, item, attempt, ctxDone, reply, orders, storeVars,
                   auditVars, bus, deadLetter, crashes, shown>>

RecordOrder(p) ==
    /\ pc[p] = "record_order"
    /\ \E ok \in StoreOutcomes :
         /\ storedOrders' = IF ok THEN storedOrders \cup {p} ELSE storedOrders
         /\ storeErrors' = IF ok THEN storeErrors ELSE storeErrors \cup {<<p, 0>>}
    /\ Goto(p, "record_fill")
    /\ UNCHANGED <<config, kind, target, item, attempt, ctxDone, reply, orders, storedFills,
                   auditVars, bus, deadLetter, crashes, shown>>

RecordFill(p) ==
    /\ pc[p] = "record_fill"
    /\ \E ok \in StoreOutcomes :
         /\ storedFills' = IF ok THEN storedFills \cup {<<p, item[p]>>} ELSE storedFills
         /\ storeErrors' = IF ok THEN storeErrors ELSE storeErrors \cup {<<p, item[p]>>}
    /\ IF item[p] < FillsPerOrder
         THEN item' = [item EXCEPT ![p] = @ + 1] /\ pc' = pc
         ELSE item' = [item EXCEPT ![p] = 1] /\ Goto(p, "audit_order")
    /\ UNCHANGED <<config, kind, target, attempt, ctxDone, reply, orders, storedOrders,
                   auditVars, bus, deadLetter, crashes, shown>>

\* Mutated form of AuditOrder: order_placed is not emitted.
AuditOrderSkipped(p) ==
    /\ pc[p] = "audit_order"
    /\ Goto(p, "audit_item")
    /\ UNCHANGED <<config, kind, target, item, attempt, ctxDone, reply, orders, storeVars,
                   auditVars, bus, deadLetter, crashes, shown>>

AuditOrder(p) ==
    /\ pc[p] = "audit_order"
    /\ Emit("order_placed", p, 0)
    /\ Goto(p, "audit_item")
    /\ UNCHANGED <<config, kind, target, item, attempt, ctxDone, reply, orders, storeVars,
                   bus, deadLetter, crashes, shown>>

\* The loop over fills (or assets): emit the audit event, then publish.
AuditItem(p) ==
    /\ pc[p] = "audit_item"
    /\ IF kind[p] = "order" THEN Emit("fill", p, item[p])
                            ELSE Emit("balance_snapshot", NoOrder, item[p])
    /\ Goto(p, "publish")
    /\ UNCHANGED <<config, kind, target, item, attempt, ctxDone, reply, orders, storeVars, bus,
                   deadLetter, crashes, shown>>
-----------------------------------------------------------------------------
(* Bus.PublishFill and Bus.PublishBalance *)

Items(p) == IF kind[p] = "order" THEN FillsPerOrder ELSE Assets

\* Publish returned to the handler, whatever the outcome: next iteration.
NextItem(p) ==
    /\ attempt' = [attempt EXCEPT ![p] = 0]
    /\ IF item[p] < Items(p)
         THEN item' = [item EXCEPT ![p] = @ + 1] /\ Goto(p, "audit_item")
         ELSE item' = [item EXCEPT ![p] = 1] /\ Goto(p, "reply")

\* A Publish whose writer put n copies of the event on the bus.
OnBus(p, n) == IF kind[p] = "order" THEN [bus EXCEPT ![<<p, item[p]>>] = @ + n] ELSE bus

\* No event bus: the handler goes on to its next fill or asset.
PublishDisabled(p) ==
    /\ pc[p] = "publish"
    /\ config.bus = "none"
    /\ NextItem(p)
    /\ UNCHANGED <<config, kind, target, ctxDone, reply, orders, storeVars, auditVars, bus,
                   deadLetter, crashes, shown>>

\* The writer retries by itself when an acknowledgement is lost, and each of its
\* attempts may leave a copy.
PublishOk(p) ==
    /\ pc[p] = "publish"
    /\ config.bus = "kafka"
    /\ \E n \in 1..WriterAttempts : bus' = OnBus(p, n)
    /\ NextItem(p)
    /\ UNCHANGED <<config, kind, target, ctxDone, reply, orders, storeVars, auditVars,
                   deadLetter, crashes, shown>>

\* An attempt fails; copies may be on the bus all the same (lost acknowledgements).
\* With the context already done the call returns at once; what the writer still
\* sends in the background is counted here.
PublishErr(p) ==
    /\ pc[p] = "publish"
    /\ config.bus = "kafka"
    /\ \E n \in 0..WriterAttempts : bus' = OnBus(p, n)
    /\ IF p \in ctxDone THEN NextItem(p) ELSE Goto(p, "wait") /\ UNCHANGED <<item, attempt>>
    /\ UNCHANGED <<config, kind, target, ctxDone, reply, orders, storeVars, auditVars,
                   deadLetter, crashes, shown>>

\* Mutated forms of RetryTimer: one attempt too many, attempts not counted, no
\* dead letter after the last attempt.
RetryTimerOffByOne(p) ==
    /\ pc[p] = "wait"
    /\ IF attempt[p] <= MaxRetries
         THEN /\ attempt' = [attempt EXCEPT ![p] = @ + 1]
              /\ Goto(p, "publish")
              /\ UNCHANGED <<item, deadLetter>>
         ELSE NextItem(p) /\ deadLetter' = deadLetter
    /\ UNCHANGED <<config, kind, target, ctxDone, reply, orders, storeVars, auditVars, bus,
                   crashes, shown>>
RetryTimerUncounted(p) ==
    /\ pc[p] = "wait"
    /\ Goto(p, "publish")
    /\ UNCHANGED <<config, kind, target, item, attempt, ctxDone, reply, orders, storeVars,
                   auditVars, bus, deadLetter, crashes, shown>>
RetryTimerNoDeadLetter(p) ==
    /\ pc[p] = "wait"
    /\ IF attempt[p] < MaxRetries
         THEN /\ attempt' = [attempt EXCEPT ![p] = @ + 1]
              /\ Goto(p, "publish")
              /\ item' = item
         ELSE NextItem(p)
    /\ UNCHANGED <<config, kind, target, ctxDone, reply, orders, storeVars, auditVars, bus,
                   deadLetter, crashes, shown>>

\* The pause after a failed attempt ends with the timer ...
RetryTimer(p) ==
    /\ pc[p] = "wait"
    /\ IF attempt[p] < MaxRetries
         THEN /\ attempt' = [attempt EXCEPT ![p] = @ + 1]
              /\ Goto(p, "publish")
              /\ UNCHANGED <<item, deadLetter>>
         ELSE /\ deadLetter' = IF kind[p] = "order" THEN deadLetter \cup {<<p, item[p]>>}
                                                    ELSE deadLetter
              /\ NextItem(p)
    /\ UNCHANGED <<config, kind, target, ctxDone, reply, orders, storeVars, auditVars, bus,
                   crashes, shown>>

\* ... or with the context, and then the event is given up without dead letter.
GiveUp(p) ==
    /\ pc[p] = "wait"
    /\ p \in ctxDone
    /\ NextItem(p)
    /\ UNCHANGED <<config, kind, target, ctxDone, reply, orders, storeVars, auditVars,
                   bus, deadLetter, crashes, shown>>

\* The 5 s timeout of the request context, or its client going away.  Only the
\* publish loop looks at the context, so it is enough to let it end there.
ContextDone(p) ==
    /\ pc[p] \in Publishing
    /\ p \notin ctxDone
    /\ ctxDone' = ctxDone \cup {p}
    /\ UNCHANGED <<config, handlerVars, orders, storeVars, auditVars, bus, deadLetter, crashes,
                   shown>>

\* Mutated form of Reply: no answer once the context is done.
ReplyIfLive(p) ==
    /\ pc[p] = "reply"
    /\ p \notin ctxDone
    /\ Answer(p, 200)
    /\ UNCHANGED <<config, kind, target, item, attempt, ctxDone, orders, storeVars, auditVars,
                   bus, deadLetter, crashes, shown>>

Reply(p) ==
    /\ pc[p] = "reply"
    /\ Answer(p, 200)
    /\ UNCHANGED <<config, kind, target, item, attempt, ctxDone, orders, storeVars, auditVars,
                   bus, deadLetter, crashes, shown>>
-----------------------------------------------------------------------------
(* POST /v1/orders/{id}/cancel *)

AcceptCancel(p, id) ==
    /\ pc[p] = "idle"
    /\ kind' = [kind EXCEPT ![p] = "cancel"]
    /\ target' = [target EXCEPT ![p] = id]
    /\ Goto(p, "cancel")
    /\ UNCHANGED <<config, item, attempt, ctxDone, reply, orders, storeVars, auditVars, bus,
                   deadLetter, crashes, shown>>

\* connector.CancelOrder: the dummy venue marks the order, if it knows it, and
\* never fails; an exchange may refuse, in which case nothing is audited.
CancelOrder(p) ==
    /\ pc[p] = "cancel"
    /\ \/ /\ orders' = [q \in Requests |->
                          IF q = target[p] /\ orders[q] # "none" THEN "canceled" ELSE orders[q]]
          /\ Goto(p, "audit_cancel")
          /\ reply' = reply
       \/ /\ config.connector = "exchange"
          /\ Answer(p, 502)
          /\ orders' = orders
    /\ UNCHANGED <<config, kind, target, item, attempt, ctxDone, storeVars, auditVars, bus,
                   deadLetter, crashes, shown>>

AuditCancel(p) ==
    /\ pc[p] = "audit_cancel"
    /\ Emit("order_canceled", target[p], 0)
    /\ Goto(p, "reply")
    /\ UNCHANGED <<config, kind, target, item, attempt, ctxDone, reply, orders, storeVars,
                   bus, deadLetter, crashes, shown>>
-----------------------------------------------------------------------------
(* GET /v1/balances *)

AcceptBalances(p) ==
    /\ pc[p] = "idle"
    /\ kind' = [kind EXCEPT ![p] = "balances"]
    /\ Goto(p, "balances")
    /\ UNCHANGED <<config, target, item, attempt, ctxDone, reply, orders, storeVars, auditVars,
                   bus, deadLetter, crashes, shown>>

\* connector.GetBalances: an exchange may refuse, or list no asset at all.
GetBalances(p) ==
    /\ pc[p] = "balances"
    /\ \/ Goto(p, "audit_item") /\ reply' = reply
       \/ config.connector = "exchange" /\ Goto(p, "reply") /\ reply' = reply
       \/ config.connector = "exchange" /\ Answer(p, 502)
    /\ UNCHANGED <<config, kind, target, item, attempt, ctxDone, orders, storeVars, auditVars,
                   bus, deadLetter, crashes, shown>>
-----------------------------------------------------------------------------
(* POST /admin/rotate-credentials *)

\* The handler checks nothing ...
AcceptRotate(p) ==
    /\ pc[p] = "idle"
    /\ kind' = [kind EXCEPT ![p] = "rotate"]
    /\ Goto(p, "audit_rotate")
    /\ UNCHANGED <<config, target, item, attempt, ctxDone, reply, orders, storeVars, auditVars,
                   bus, deadLetter, crashes, shown>>

\* ... and only audits: the credentials are not touched.
AuditRotate(p) ==
    /\ pc[p] = "audit_rotate"
    /\ Emit("credential_rotation", NoOrder, 0)
    /\ Goto(p, "reply")
    /\ UNCHANGED <<config, kind, target, item, attempt, ctxDone, reply, orders, storeVars,
                   bus, deadLetter, crashes, shown>>
-----------------------------------------------------------------------------
\* GET /admin/status shows the last fill of the dummy venue, from the moment it is
\* made: every order the venue knows was that once.  It matters to a client that
\* does not know the order yet and has a request still to send.
AdminStatus(q) ==
    /\ orders[q] # "none"
    /\ config.connector = "dummy"
    /\ q \notin Known /\ \E p \in Requests : pc[p] = "idle"
    /\ shown' = shown \cup {q}
    /\ UNCHANGED <<config, handlerVars, ctxDone, orders, storeVars, auditVars, bus, deadLetter,
                   crashes>>

\* The process dies and is started again with the same environment: running
\* handlers are gone, and so is whatever lived in its memory, the dummy venue
\* included.
Crash ==
    /\ crashes < MaxCrashes
    /\ crashes' = crashes + 1
    /\ pc' = [p \in Requests |-> IF pc[p] \in Running THEN "crashed" ELSE pc[p]]
    /\ orders' = IF config.connector = "dummy" THEN [p \in Requests |-> "none"] ELSE orders
    /\ IF config.store = "memory"
         THEN storedOrders' = {} /\ storedFills' = {}
         ELSE UNCHANGED <<storedOrders, storedFills>>
    /\ audit' = IF config.sink = "memory" THEN <<>> ELSE audit
    /\ UNCHANGED <<config, kind, target, item, attempt, ctxDone, reply, storeErrors,
                   auditLost, bus, deadLetter, shown>>

Arrive(p) ==
    \/ Unauthorized(p)
    \/ Reject(p)
    \/ AcceptOrder(p)
    \/ \E id \in Known \cup {NoOrder} : AcceptCancel(p, id)
    \/ AcceptBalances(p)
    \/ AcceptRotate(p)

Handle(p) ==
    \/ DummyPlaceOrder(p) \/ ExchangePlaceOrder(p)
    \/ RecordOrder(p) \/ RecordFill(p)
    \/ AuditOrder(p) \/ AuditItem(p)
    \/ PublishDisabled(p) \/ PublishOk(p) \/ PublishErr(p) \/ RetryTimer(p) \/ GiveUp(p)
    \/ CancelOrder(p) \/ AuditCancel(p)
    \/ GetBalances(p)
    \/ AuditRotate(p)
    \/ Reply(p)

Next ==
    \/ \E p \in Requests : Arrive(p) \/ Handle(p) \/ ContextDone(p) \/ AdminStatus(p)
    \/ Crash

Spec == Init /\ [][Next]_vars

\* A goroutine that can move does: connector, store, sink and publisher calls
\* return, and the retry timer fires.  Nothing is assumed of clients.
FairSpec == Spec /\ \A p \in Requests : WF_vars(Handle(p))
-----------------------------------------------------------------------------
TypeOK ==
    /\ config \in Configs
    /\ pc \in [Requests -> PCs]
    /\ kind \in [Requests -> Kinds]
    /\ target \in [Requests -> Requests \cup {NoOrder}]
    /\ item \in [Requests -> Nat \ {0}]
    /\ attempt \in [Requests -> 0..MaxRetries]
    /\ ctxDone \subseteq Requests
    /\ reply \in [Requests -> {0, 200, 400, 401, 502}]
    /\ orders \in [Requests -> Statuses]
    /\ storedOrders \subseteq Requests
    /\ storedFills \subseteq Fills
    /\ storeErrors \subseteq Requests \X (0..FillsPerOrder)
    /\ audit \in Seq(Events) /\ auditLost \subseteq Events
    /\ bus \in [Fills -> Nat]
    /\ deadLetter \subseteq Fills
    /\ crashes \in 0..MaxCrashes
    /\ shown \subseteq Requests

\* The events the sink holds, and those it was given and lost.
Emitted == {audit[i] : i \in 1..Len(audit)} \cup auditLost
Placed(q) == [type |-> "order_placed", order |-> q, item |-> 0]
Filled(f) == [type |-> "fill", order |-> f[1], item |-> f[2]]

\* Audit order (server.go:216-296): the sink takes a fill after the placement of its
\* order, and so it does the cancellation of an order the gateway issued, however
\* the handlers interleave and wherever a crash falls, unless the write of the
\* placement failed.  A cancellation comes first only where the client had the id
\* from GET /admin/status, which shows an order before it is audited
\* (server.go:102-113).  It is stated for the Kafka sink: a crash empties the other.
AuditCausal ==
    \A i \in 1..Len(audit) :
        LET e == audit[i]
            placedBefore == \/ \E j \in 1..(i - 1) : audit[j] = Placed(e.order)
                            \/ Placed(e.order) \in auditLost
        IN /\ e.type = "fill" => placedBefore
           /\ (e.type = "order_canceled" /\ e.order # NoOrder /\ config.sink = "kafka")
                 => placedBefore \/ e.order \in shown

\* What Reconciliation reads from the bus can be traced: a fill on the bus was
\* first audited and written to the store, and a durable sink and store still
\* have it after a crash unless that very write failed (server.go:187-246 runs
\* store, audit and bus in this order).
BusTraceable ==
    \A f \in Fills : bus[f] > 0 =>
        /\ config.sink = "kafka" => {Placed(f[1]), Filled(f)} \subseteq Emitted
        /\ config.store = "postgres" =>
              /\ f[1] \in storedOrders \/ <<f[1], 0>> \in storeErrors
              /\ f \in storedFills \/ f \in storeErrors

\* Retries duplicate, those of the bus and within each those of the writer: a
\* consumer sees a fill at most maxRetries + 1 times as often as the writer tries
\* (events.go:162, loop attempt <= maxRetries; events.go:69).
BoundedCopies == \A f \in Fills : bus[f] <= (MaxRetries + 1) * WriterAttempts

\* A fill of an answered order is missing from the bus only when every attempt
\* failed or the request context ended (events.go:173-183).  Nothing will bring it
\* there any more, for the dead letter handler keeps nothing (events.go:137); but
\* the audit topic and the database have it, unless that very write failed.
FillsAccounted ==
    \A f \in Fills :
      (config.bus = "kafka" /\ kind[f[1]] = "order" /\ reply[f[1]] = 200 /\ bus[f] = 0) =>
        /\ f \in deadLetter \/ f[1] \in ctxDone
        /\ config.sink = "kafka" => Filled(f) \in Emitted
        /\ config.store = "postgres" => f \in storedFills \cup storeErrors

\* Every request taken up is answered, unless the gateway crashes under it: the
\* loops over fills and attempts end whatever the bus does (events.go:162-184).
Answered == \A p \in Requests : pc[p] \in Running ~> pc[p] \in {"done", "crashed"}

-----------------------------------------------------------------------------
\* README.md:67: "Every PlaceOrder carries a client_order_id generated upstream;
\* venue-side dedup guarantees retries do not double-place."
RetriesDoNotDoublePlace ==
    \A p, q \in Requests :
        (p # q /\ Intent[p] = Intent[q]) => (orders[p] = "none" \/ orders[q] = "none")
=============================================================================
