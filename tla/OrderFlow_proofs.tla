-------------------------- MODULE OrderFlow_proofs --------------------------
(***************************************************************************)
(* Proofs about the order path: type correctness, the bound on the copies  *)
(* of a fill on the bus, that an answered order leaves no fill             *)
(* unaccounted for, and that the audit log and the store explain what is   *)
(* on the bus, for any requests, fills, assets and retry limits.           *)
(***************************************************************************)
EXTENDS OrderFlow, TLAPS

\* Where an order handler has not yet come to its loop over the fills, and
\* where any handler is inside its loop.
Before == {"place", "record_order", "record_fill", "audit_order"}
Loop == {"audit_item"} \cup Publishing

\* Control of one handler: which kinds of request reach which step, the range of
\* the loop index, and when attempts are counted.
ControlOK(q) ==
    /\ pc[q] = "idle" => kind[q] = "none"
    /\ pc[q] \in Before => kind[q] = "order"
    /\ pc[q] \in Loop => kind[q] \in {"order", "balances"}
    /\ pc[q] = "balances" => kind[q] = "balances"
    /\ pc[q] \in {"cancel", "audit_cancel"} => kind[q] = "cancel"
    /\ pc[q] = "audit_rotate" => kind[q] = "rotate"
    /\ pc[q] \in {"idle"} \cup (Before \ {"record_fill"}) => item[q] = 1
    /\ kind[q] = "order" => item[q] \in 1..FillsPerOrder
    /\ pc[q] \notin Publishing \cup {"crashed"} => attempt[q] = 0
    /\ reply[q] = 200 => pc[q] = "done"

\* A fill the publish loop has passed is on the bus, dead lettered, or given up
\* with the context.
Accounted(f) == config.bus = "kafka" => bus[f] > 0 \/ f \in deadLetter \/ f[1] \in ctxDone

\* The loop has passed fill i of request q.
Passed(q, i) ==
    \/ pc[q] \in Loop /\ i < item[q]
    \/ pc[q] = "reply"
    \/ pc[q] = "done" /\ reply[q] = 200

\* What a number of calls of Publish can leave on the bus.
Copies(n) == n * WriterAttempts

\* Copies of fill i of request q: none before its turn, at most those of the
\* attempts made during it.
FillOK(q, i) ==
    /\ bus[<<q, i>>] <= Copies(MaxRetries + 1)
    /\ pc[q] \in {"idle"} \cup Before => bus[<<q, i>>] = 0
    /\ kind[q] = "order" =>
         /\ pc[q] = "audit_item" /\ i >= item[q] => bus[<<q, i>>] = 0
         /\ pc[q] \in Publishing /\ i > item[q] => bus[<<q, i>>] = 0
         /\ pc[q] = "publish" /\ i = item[q] => bus[<<q, i>>] <= Copies(attempt[q])
         /\ pc[q] = "wait" /\ i = item[q] => bus[<<q, i>>] <= Copies(attempt[q] + 1)
         /\ Passed(q, i) => Accounted(<<q, i>>)

HandlerOK(q) == ControlOK(q) /\ \A i \in 1..FillsPerOrder : FillOK(q, i)

IInv == TypeOK /\ \A q \in Requests : HandlerOK(q)
-----------------------------------------------------------------------------
\* The sequence and tuple facts the actions need: an event appended to the log
\* keeps its type, and a publication changes only its own fill.
LEMMA EmitType ==
    ASSUME TypeOK,
           NEW t \in {"order_placed", "fill", "order_canceled", "balance_snapshot",
                      "credential_rotation"},
           NEW o \in Requests \cup {NoOrder}, NEW i \in Nat,
           Emit(t, o, i)
    PROVE  audit' \in Seq(Events) /\ auditLost' \subseteq Events
<1> DEFINE e == [type |-> t, order |-> o, item |-> i]
<1>1. e \in Events
  BY DEF Events
<1>2. audit \in Seq(Events) /\ auditLost \subseteq Events
  BY DEF TypeOK
<1> HIDE DEF e
<1>3. Append(audit, e) \in Seq(Events)
  BY <1>1, <1>2
<1>4. \/ audit' = Append(audit, e) /\ auditLost' = auditLost
      \/ auditLost' = auditLost \cup {e} /\ audit' = audit
  BY DEF Emit, e
<1> QED
  BY <1>1, <1>2, <1>3, <1>4

\* A fill is its order and its index.
LEMMA FillPairs ==
    \A q \in Requests, i \in 1..FillsPerOrder : <<q, i>> \in Fills
BY DEF Fills

\* One call more, and the bound grows by the attempts of the writer.
LEMMA CopiesStep ==
    ASSUME NEW n \in Nat
    PROVE  /\ Copies(0) = 0 /\ Copies(n) \in Nat
           /\ Copies(n + 1) = Copies(n) + WriterAttempts
  BY SizesAssumption DEF Copies

\* More calls never mean fewer copies.
LEMMA CopiesGrow ==
    ASSUME NEW m \in Nat, NEW n \in Nat, m <= n
    PROVE  Copies(m) <= Copies(n)
<1>1. PICK w \in Nat : w = WriterAttempts
  BY SizesAssumption
<1>2. m * w <= n * w
  OBVIOUS
<1> QED BY <1>1, <1>2 DEF Copies

\* More copies of the fill being published, and no other change of the bus.
LEMMA OnBusFacts ==
    ASSUME TypeOK, NEW p \in Requests, NEW n \in 0..WriterAttempts,
           kind[p] = "order" => item[p] \in 1..FillsPerOrder
    PROVE  /\ OnBus(p, n) \in [Fills -> Nat]
           /\ \A q \in Requests, i \in 1..FillsPerOrder :
                 /\ q # p \/ i # item[p] => OnBus(p, n)[<<q, i>>] = bus[<<q, i>>]
                 /\ kind[p] = "order" /\ q = p /\ i = item[p]
                      => OnBus(p, n)[<<q, i>>] = bus[<<q, i>>] + n
           /\ kind[p] # "order" => OnBus(p, n) = bus
<1>1. bus \in [Fills -> Nat] /\ n \in Nat
  BY SizesAssumption DEF TypeOK
<1>2. CASE kind[p] # "order"
  BY <1>1, <1>2 DEF OnBus
<1>3. CASE kind[p] = "order"
  <2>1. <<p, item[p]>> \in Fills
    BY <1>3, FillPairs
  <2>2. OnBus(p, n) = [bus EXCEPT ![<<p, item[p]>>] = @ + n]
    BY <1>3 DEF OnBus
  <2>3. \A f \in Fills : OnBus(p, n)[f] = IF f = <<p, item[p]>> THEN bus[f] + n ELSE bus[f]
    BY <1>1, <2>1, <2>2
  <2>4. OnBus(p, n) \in [Fills -> Nat]
    BY <1>1, <2>1, <2>2
  <2>5. \A q \in Requests, i \in 1..FillsPerOrder :
           (<<q, i>> = <<p, item[p]>>) <=> (q = p /\ i = item[p])
    OBVIOUS
  <2> QED
    BY <1>3, <2>3, <2>4, <2>5, FillPairs
<1> QED
  BY <1>2, <1>3

\* A handler whose own state a step leaves alone keeps its invariant: contexts
\* and dead letters only grow.
LEMMA Frame ==
    ASSUME NEW q \in Requests, HandlerOK(q), config' = config,
           pc'[q] = pc[q], kind'[q] = kind[q], item'[q] = item[q],
           attempt'[q] = attempt[q], reply'[q] = reply[q],
           \A i \in 1..FillsPerOrder : bus'[<<q, i>>] = bus[<<q, i>>],
           ctxDone \subseteq ctxDone', deadLetter \subseteq deadLetter'
    PROVE  HandlerOK(q)'
<1>1. ControlOK(q)'
  BY DEF HandlerOK, ControlOK
<1>2. ASSUME NEW i \in 1..FillsPerOrder PROVE FillOK(q, i)'
  <2>1. FillOK(q, i) /\ bus'[<<q, i>>] = bus[<<q, i>>]
    BY DEF HandlerOK
  <2>2. Accounted(<<q, i>>) => Accounted(<<q, i>>)'
    BY <2>1 DEF Accounted
  <2>3. Passed(q, i)' <=> Passed(q, i)
    BY DEF Passed
  <2> QED
    BY <2>1, <2>2, <2>3 DEF FillOK
<1> QED
  BY <1>1, <1>2 DEF HandlerOK

\* The inductive invariant holds before any request.
LEMMA InitIInv == Init => IInv
<1> SUFFICES ASSUME Init PROVE IInv
  OBVIOUS
<1> USE SizesAssumption, WiringsAssumption
<1>1. TypeOK
  BY DEF Init, TypeOK, PCs, Kinds, Statuses
<1>2. ASSUME NEW q \in Requests PROVE HandlerOK(q)
  <2>1. ControlOK(q)
    BY DEF Init, ControlOK, Before, Loop, Publishing
  <2>2. ASSUME NEW i \in 1..FillsPerOrder PROVE FillOK(q, i)
    <3>2. MaxRetries + 1 \in Nat
      OBVIOUS
    <3>1. bus[<<q, i>>] = 0 /\ Copies(MaxRetries + 1) \in Nat
      BY <3>2, FillPairs, CopiesStep DEF Init
    <3> QED
      BY <3>1 DEF Init, FillOK, Before, Loop, Publishing, Passed
  <2> QED
    BY <2>1, <2>2 DEF HandlerOK
<1> QED
  BY <1>1, <1>2 DEF IInv

\* The end of a publication, however it ended, keeps the types.
LEMMA NextItemType ==
    ASSUME TypeOK, NEW p \in Requests, NextItem(p)
    PROVE  /\ pc' \in [Requests -> PCs]
           /\ item' \in [Requests -> Nat \ {0}]
           /\ attempt' \in [Requests -> 0..MaxRetries]
<1>1. pc \in [Requests -> PCs] /\ item \in [Requests -> Nat \ {0}]
      /\ attempt \in [Requests -> 0..MaxRetries]
  BY DEF TypeOK
<1>2. attempt' \in [Requests -> 0..MaxRetries]
  BY <1>1, SizesAssumption DEF NextItem
<1>3. CASE item[p] < Items(p)
  <2>1. item' = [item EXCEPT ![p] = item[p] + 1] /\ pc' = [pc EXCEPT ![p] = "audit_item"]
    BY <1>3 DEF NextItem, Goto
  <2>2. "audit_item" \in PCs /\ item[p] + 1 \in Nat \ {0}
    BY <1>1 DEF PCs, Running
  <2> QED
    BY <1>1, <1>2, <2>1, <2>2
<1>4. CASE ~ (item[p] < Items(p))
  <2>1. item' = [item EXCEPT ![p] = 1] /\ pc' = [pc EXCEPT ![p] = "reply"]
    BY <1>4 DEF NextItem, Goto
  <2>2. "reply" \in PCs /\ 1 \in Nat \ {0}
    BY DEF PCs, Running
  <2> QED
    BY <1>1, <1>2, <2>1, <2>2
<1> QED
  BY <1>3, <1>4

\* A jump keeps the type of pc, and an answer that of reply.
LEMMA GotoType ==
    ASSUME TypeOK, NEW p \in Requests, NEW w \in PCs, Goto(p, w)
    PROVE  pc' \in [Requests -> PCs]
BY DEF TypeOK, Goto

\* Answering a request keeps the types of control and reply.
LEMMA AnswerType ==
    ASSUME TypeOK, NEW p \in Requests, NEW s \in {0, 200, 400, 401, 502}, Answer(p, s)
    PROVE  pc' \in [Requests -> PCs] /\ reply' \in [Requests -> {0, 200, 400, 401, 502}]
<1>1. "done" \in PCs
  BY DEF PCs
<1>2. Goto(p, "done") /\ reply' = [reply EXCEPT ![p] = s]
  BY DEF Answer
<1>3. pc' \in [Requests -> PCs]
  BY <1>1, <1>2, GotoType
<1>4. reply \in [Requests -> {0, 200, 400, 401, 502}]
  BY DEF TypeOK
<1> QED
  BY <1>2, <1>3, <1>4

-----------------------------------------------------------------------------
\* One lemma per action: types, the handlers that do not move, and the one that
\* does, its control and each of its fills.
LEMMA RejectIInv ==
    ASSUME IInv, NEW p \in Requests, Reject(p)
    PROVE  IInv'
<1> USE SizesAssumption
<1>1. TypeOK /\ HandlerOK(p)
  BY DEF IInv
<1>2. ControlOK(p) /\ \A i \in 1..FillsPerOrder : FillOK(p, i)
  BY <1>1 DEF HandlerOK
<1>4. TypeOK'
  <2>1. Answer(p, 400)
    BY DEF Reject
  <2>2. pc' \in [Requests -> PCs] /\ reply' \in [Requests -> {0, 200, 400, 401, 502}]
    BY <1>1, <2>1, AnswerType
  <2>3. kind' \in [Requests -> Kinds]
    BY <1>1 DEF TypeOK, Reject, Kinds
  <2> QED
    BY <1>1, <2>2, <2>3 DEF TypeOK, storeVars, auditVars, Reject
<1>5. ASSUME NEW q \in Requests, q # p PROVE HandlerOK(q)'
  BY <1>1, <1>5, Frame DEF IInv, TypeOK, Reject, Answer, Goto
<1>6. ControlOK(p)'
  BY <1>1, <1>2 DEF TypeOK, ControlOK, Before, Loop, Publishing, Reject, Answer, Goto
<1>7. ASSUME NEW i \in 1..FillsPerOrder PROVE FillOK(p, i)'
  BY <1>1, <1>2, FillPairs DEF TypeOK, ControlOK, FillOK, Accounted, Passed, Before, Loop,
     Publishing, Reject, Answer, Goto
<1> QED
  BY <1>4, <1>5, <1>6, <1>7 DEF IInv, HandlerOK

\* The middleware turns the request away.
LEMMA UnauthorizedIInv ==
    ASSUME IInv, NEW p \in Requests, Unauthorized(p)
    PROVE  IInv'
<1> USE SizesAssumption
<1>1. TypeOK /\ HandlerOK(p)
  BY DEF IInv
<1>2. ControlOK(p) /\ \A i \in 1..FillsPerOrder : FillOK(p, i)
  BY <1>1 DEF HandlerOK
<1>4. TypeOK'
  <2>1. Answer(p, 401)
    BY DEF Unauthorized
  <2>2. pc' \in [Requests -> PCs] /\ reply' \in [Requests -> {0, 200, 400, 401, 502}]
    BY <1>1, <2>1, AnswerType
  <2> QED
    BY <1>1, <2>2 DEF TypeOK, storeVars, auditVars, Unauthorized
<1>5. ASSUME NEW q \in Requests, q # p PROVE HandlerOK(q)'
  BY <1>1, <1>5, Frame DEF IInv, TypeOK, Unauthorized, Answer, Goto
<1>6. ControlOK(p)'
  BY <1>1, <1>2 DEF TypeOK, ControlOK, Before, Loop, Publishing, Unauthorized, Answer, Goto
<1>7. ASSUME NEW i \in 1..FillsPerOrder PROVE FillOK(p, i)'
  BY <1>1, <1>2, FillPairs DEF TypeOK, ControlOK, FillOK, Accounted, Passed, Before, Loop,
     Publishing, Unauthorized, Answer, Goto
<1> QED
  BY <1>4, <1>5, <1>6, <1>7 DEF IInv, HandlerOK

\* POST /v1/orders is taken up.
LEMMA AcceptOrderIInv ==
    ASSUME IInv, NEW p \in Requests, AcceptOrder(p)
    PROVE  IInv'
<1> USE SizesAssumption
<1>1. TypeOK /\ HandlerOK(p)
  BY DEF IInv
<1>2. ControlOK(p) /\ \A i \in 1..FillsPerOrder : FillOK(p, i)
  BY <1>1 DEF HandlerOK
<1>4. TypeOK'
  BY <1>1 DEF TypeOK, PCs, Running, Storing, Publishing, Kinds, storeVars, auditVars,
     AcceptOrder, Goto
<1>5. ASSUME NEW q \in Requests, q # p PROVE HandlerOK(q)'
  BY <1>1, <1>5, Frame DEF IInv, TypeOK, AcceptOrder, Goto
<1>6. ControlOK(p)'
  BY <1>1, <1>2 DEF TypeOK, ControlOK, Before, Loop, Publishing, AcceptOrder, Goto
<1>7. ASSUME NEW i \in 1..FillsPerOrder PROVE FillOK(p, i)'
  BY <1>1, <1>2, FillPairs DEF TypeOK, ControlOK, FillOK, Accounted, Passed, Before, Loop,
     Publishing, AcceptOrder, Goto
<1> QED
  BY <1>4, <1>5, <1>6, <1>7 DEF IInv, HandlerOK

\* The dummy venue fills the order.
LEMMA DummyPlaceOrderIInv ==
    ASSUME IInv, NEW p \in Requests, DummyPlaceOrder(p)
    PROVE  IInv'
<1> USE SizesAssumption
<1>1. TypeOK /\ HandlerOK(p)
  BY DEF IInv
<1>2. ControlOK(p) /\ \A i \in 1..FillsPerOrder : FillOK(p, i)
  BY <1>1 DEF HandlerOK
<1>4. TypeOK'
  BY <1>1 DEF TypeOK, PCs, Running, Storing, Publishing, Statuses, storeVars, auditVars,
     DummyPlaceOrder, Goto
<1>5. ASSUME NEW q \in Requests, q # p PROVE HandlerOK(q)'
  BY <1>1, <1>5, Frame DEF IInv, TypeOK, DummyPlaceOrder, Goto
<1>6. ControlOK(p)'
  BY <1>1, <1>2 DEF TypeOK, ControlOK, Before, Loop, Publishing, DummyPlaceOrder, Goto
<1>7. ASSUME NEW i \in 1..FillsPerOrder PROVE FillOK(p, i)'
  BY <1>1, <1>2, FillPairs DEF TypeOK, ControlOK, FillOK, Accounted, Passed, Before, Loop,
     Publishing, DummyPlaceOrder, Goto
<1> QED
  BY <1>4, <1>5, <1>6, <1>7 DEF IInv, HandlerOK

\* A real connector refuses the order.
LEMMA ExchangePlaceOrderIInv ==
    ASSUME IInv, NEW p \in Requests, ExchangePlaceOrder(p)
    PROVE  IInv'
<1> USE SizesAssumption
<1>1. TypeOK /\ HandlerOK(p)
  BY DEF IInv
<1>2. ControlOK(p) /\ \A i \in 1..FillsPerOrder : FillOK(p, i)
  BY <1>1 DEF HandlerOK
<1>4. TypeOK'
  <2>1. Answer(p, 502)
    BY DEF ExchangePlaceOrder
  <2>2. pc' \in [Requests -> PCs] /\ reply' \in [Requests -> {0, 200, 400, 401, 502}]
    BY <1>1, <2>1, AnswerType
  <2> QED
    BY <1>1, <2>2 DEF TypeOK, storeVars, auditVars, ExchangePlaceOrder
<1>5. ASSUME NEW q \in Requests, q # p PROVE HandlerOK(q)'
  BY <1>1, <1>5, Frame DEF IInv, TypeOK, ExchangePlaceOrder, Answer, Goto
<1>6. ControlOK(p)'
  BY <1>1, <1>2 DEF TypeOK, ControlOK, Before, Loop, Publishing, ExchangePlaceOrder, Answer,
     Goto
<1>7. ASSUME NEW i \in 1..FillsPerOrder PROVE FillOK(p, i)'
  BY <1>1, <1>2, FillPairs DEF TypeOK, ControlOK, FillOK, Accounted, Passed, Before, Loop,
     Publishing, ExchangePlaceOrder, Answer, Goto
<1> QED
  BY <1>4, <1>5, <1>6, <1>7 DEF IInv, HandlerOK

\* The row of the order is written, or fails.
LEMMA RecordOrderIInv ==
    ASSUME IInv, NEW p \in Requests, RecordOrder(p)
    PROVE  IInv'
<1> USE SizesAssumption
<1>1. TypeOK /\ HandlerOK(p)
  BY DEF IInv
<1>2. ControlOK(p) /\ \A i \in 1..FillsPerOrder : FillOK(p, i)
  BY <1>1 DEF HandlerOK
<1>4. TypeOK'
  BY <1>1 DEF TypeOK, PCs, Running, Storing, Publishing, storeVars, auditVars, RecordOrder,
     Goto
<1>5. ASSUME NEW q \in Requests, q # p PROVE HandlerOK(q)'
  BY <1>1, <1>5, Frame DEF IInv, TypeOK, RecordOrder, Goto
<1>6. ControlOK(p)'
  BY <1>1, <1>2 DEF TypeOK, ControlOK, Before, Loop, Publishing, RecordOrder, Goto
<1>7. ASSUME NEW i \in 1..FillsPerOrder PROVE FillOK(p, i)'
  BY <1>1, <1>2, FillPairs DEF TypeOK, ControlOK, FillOK, Accounted, Passed, Before, Loop,
     Publishing, RecordOrder, Goto
<1> QED
  BY <1>4, <1>5, <1>6, <1>7 DEF IInv, HandlerOK

\* The row of a fill is written, or fails; the loop goes on or ends.
LEMMA RecordFillIInv ==
    ASSUME IInv, NEW p \in Requests, RecordFill(p)
    PROVE  IInv'
<1> USE SizesAssumption
<1>1. TypeOK /\ HandlerOK(p)
  BY DEF IInv
<1>2. ControlOK(p) /\ \A i \in 1..FillsPerOrder : FillOK(p, i)
  BY <1>1 DEF HandlerOK
<1>4. TypeOK'
  <2>1. kind[p] = "order" /\ item[p] \in 1..FillsPerOrder
    BY <1>2 DEF ControlOK, Before, RecordFill
  <2>2. <<p, item[p]>> \in Fills /\ <<p, item[p]>> \in Requests \X (0..FillsPerOrder)
    BY <2>1, FillPairs
  <2>3. PICK ok \in StoreOutcomes :
          /\ storedFills' = IF ok THEN storedFills \cup {<<p, item[p]>>} ELSE storedFills
          /\ storeErrors' = IF ok THEN storeErrors ELSE storeErrors \cup {<<p, item[p]>>}
    BY DEF RecordFill
  <2>0. storedFills \subseteq Fills /\ storeErrors \subseteq Requests \X (0..FillsPerOrder)
    BY <1>1 DEF TypeOK
  <2>4. storedFills' \subseteq Fills /\ storeErrors' \subseteq Requests \X (0..FillsPerOrder)
    <3>1. CASE ok
      BY <2>2, <2>3, <2>0, <3>1
    <3>2. CASE ~ ok
      BY <2>2, <2>3, <2>0, <3>2
    <3> QED
      BY <3>1, <3>2
  <2>5. pc \in [Requests -> PCs] /\ item \in [Requests -> Nat \ {0}] /\ "audit_order" \in PCs
    BY <1>1 DEF TypeOK, PCs, Running
  <2>6. \/ item' = [item EXCEPT ![p] = item[p] + 1] /\ pc' = pc
        \/ item' = [item EXCEPT ![p] = 1] /\ pc' = [pc EXCEPT ![p] = "audit_order"]
    BY DEF RecordFill, Goto
  <2>7. pc' \in [Requests -> PCs] /\ item' \in [Requests -> Nat \ {0}]
    BY <2>5, <2>6
  <2> QED
    BY <1>1, <2>4, <2>7 DEF TypeOK, RecordFill, auditVars
<1>5. ASSUME NEW q \in Requests, q # p PROVE HandlerOK(q)'
  BY <1>1, <1>5, Frame DEF IInv, TypeOK, RecordFill, Goto
<1>6. ControlOK(p)'
  BY <1>1, <1>2 DEF TypeOK, ControlOK, Before, Loop, Publishing, RecordFill, Goto
<1>7. ASSUME NEW i \in 1..FillsPerOrder PROVE FillOK(p, i)'
  BY <1>1, <1>2, FillPairs DEF TypeOK, ControlOK, FillOK, Accounted, Passed, Before, Loop,
     Publishing, RecordFill, Goto
<1> QED
  BY <1>4, <1>5, <1>6, <1>7 DEF IInv, HandlerOK

\* order_placed is emitted.
LEMMA AuditOrderIInv ==
    ASSUME IInv, NEW p \in Requests, AuditOrder(p)
    PROVE  IInv'
<1> USE SizesAssumption
<1>1. TypeOK /\ HandlerOK(p)
  BY DEF IInv
<1>2. ControlOK(p) /\ \A i \in 1..FillsPerOrder : FillOK(p, i)
  BY <1>1 DEF HandlerOK
<1>3. audit' \in Seq(Events) /\ auditLost' \subseteq Events
  BY <1>1, EmitType DEF TypeOK, AuditOrder
<1>4. TypeOK'
  BY <1>1, <1>3 DEF TypeOK, PCs, Running, Storing, Publishing, storeVars, auditVars,
     AuditOrder, Goto
<1>5. ASSUME NEW q \in Requests, q # p PROVE HandlerOK(q)'
  BY <1>1, <1>3, <1>5, Frame DEF IInv, TypeOK, AuditOrder, Goto
<1>6. ControlOK(p)'
  BY <1>1, <1>2 DEF TypeOK, ControlOK, Before, Loop, Publishing, AuditOrder, Goto
<1>7. ASSUME NEW i \in 1..FillsPerOrder PROVE FillOK(p, i)'
  BY <1>1, <1>2, <1>3, FillPairs DEF TypeOK, ControlOK, FillOK, Accounted, Passed, Before,
     Loop, Publishing, AuditOrder, Goto
<1> QED
  BY <1>4, <1>5, <1>6, <1>7 DEF IInv, HandlerOK

\* The event of a fill or of a balance is emitted.
LEMMA AuditItemIInv ==
    ASSUME IInv, NEW p \in Requests, AuditItem(p)
    PROVE  IInv'
<1> USE SizesAssumption
<1>1. TypeOK /\ HandlerOK(p)
  BY DEF IInv
<1>2. ControlOK(p) /\ \A i \in 1..FillsPerOrder : FillOK(p, i)
  BY <1>1 DEF HandlerOK
<1>3. audit' \in Seq(Events) /\ auditLost' \subseteq Events
  <2>1. item[p] \in Nat /\ (Emit("fill", p, item[p]) \/ Emit("balance_snapshot", NoOrder, item[p]))
    BY <1>1 DEF TypeOK, AuditItem
  <2> QED
    BY <1>1, <2>1, EmitType
<1>4. TypeOK'
  BY <1>1, <1>3 DEF TypeOK, PCs, Running, Storing, Publishing, storeVars, auditVars,
     AuditItem, Goto
<1>5. ASSUME NEW q \in Requests, q # p PROVE HandlerOK(q)'
  BY <1>1, <1>3, <1>5, Frame DEF IInv, TypeOK, AuditItem, Goto
<1>6. ControlOK(p)'
  BY <1>1, <1>2 DEF TypeOK, ControlOK, Before, Loop, Publishing, AuditItem, Goto
<1>7. ASSUME NEW i \in 1..FillsPerOrder PROVE FillOK(p, i)'
  <2>1. Copies(0) = 0
    BY CopiesStep
  <2> QED
    BY <1>1, <1>2, <1>3, <2>1, FillPairs DEF TypeOK, ControlOK, FillOK, Accounted, Passed,
       Before, Loop, Publishing, AuditItem, Goto
<1> QED
  BY <1>4, <1>5, <1>6, <1>7 DEF IInv, HandlerOK

\* Without a bus the loop goes on.
LEMMA PublishDisabledIInv ==
    ASSUME IInv, NEW p \in Requests, PublishDisabled(p)
    PROVE  IInv'
<1> USE SizesAssumption
<1>1. TypeOK /\ HandlerOK(p)
  BY DEF IInv
<1>2. ControlOK(p) /\ \A i \in 1..FillsPerOrder : FillOK(p, i)
  BY <1>1 DEF HandlerOK
<1>4. TypeOK'
  BY <1>1, NextItemType DEF TypeOK, storeVars, auditVars, PublishDisabled
<1>5. ASSUME NEW q \in Requests, q # p PROVE HandlerOK(q)'
  BY <1>1, <1>5, Frame DEF IInv, TypeOK, PublishDisabled, NextItem, Items, Goto
<1>6. ControlOK(p)'
  BY <1>1, <1>2 DEF TypeOK, ControlOK, Before, Loop, Publishing, PublishDisabled, NextItem,
     Items, Goto
<1>7. ASSUME NEW i \in 1..FillsPerOrder PROVE FillOK(p, i)'
  BY <1>1, <1>2, FillPairs DEF TypeOK, ControlOK, FillOK, Accounted, Passed, Before, Loop,
     Publishing, PublishDisabled, NextItem, Items, Goto
<1> QED
  BY <1>4, <1>5, <1>6, <1>7 DEF IInv, HandlerOK

\* The bus takes the event: a copy at least, accounted for from here on.
LEMMA PublishOkIInv ==
    ASSUME IInv, NEW p \in Requests, PublishOk(p)
    PROVE  IInv'
<1> USE SizesAssumption
<1>1. TypeOK /\ HandlerOK(p)
  BY DEF IInv
<1>2. ControlOK(p) /\ \A i \in 1..FillsPerOrder : FillOK(p, i)
  BY <1>1 DEF HandlerOK
<1>0. PICK n \in 1..WriterAttempts : bus' = OnBus(p, n)
  BY DEF PublishOk
<1>3. /\ OnBus(p, n) \in [Fills -> Nat]
      /\ \A q \in Requests, i \in 1..FillsPerOrder :
            /\ q # p \/ i # item[p] => OnBus(p, n)[<<q, i>>] = bus[<<q, i>>]
            /\ kind[p] = "order" /\ q = p /\ i = item[p]
                 => OnBus(p, n)[<<q, i>>] = bus[<<q, i>>] + n
      /\ kind[p] # "order" => OnBus(p, n) = bus
  BY <1>1, <1>2, OnBusFacts DEF ControlOK
<1>4. TypeOK'
  BY <1>0, <1>1, <1>3, NextItemType DEF TypeOK, storeVars, auditVars, PublishOk
<1>5. ASSUME NEW q \in Requests, q # p PROVE HandlerOK(q)'
  BY <1>0, <1>1, <1>3, <1>5, Frame DEF IInv, TypeOK, PublishOk, NextItem, Items, Goto
<1>6. ControlOK(p)'
  BY <1>1, <1>2 DEF TypeOK, ControlOK, Before, Loop, Publishing, PublishOk, NextItem, Items,
     Goto
<1>7. ASSUME NEW i \in 1..FillsPerOrder PROVE FillOK(p, i)'
  <2>1. bus'[<<p, i>>] = OnBus(p, n)[<<p, i>>] /\ bus[<<p, i>>] \in Nat
    BY <1>0, <1>1, FillPairs DEF TypeOK
  <2>2. bus'[<<p, i>>] \in Nat /\ bus[<<p, i>>] <= bus'[<<p, i>>]
    BY <1>3, <2>1, FillPairs
  <2>3. /\ i # item[p] \/ kind[p] # "order" => bus'[<<p, i>>] = bus[<<p, i>>]
        /\ kind[p] = "order" /\ i = item[p] => bus'[<<p, i>>] = bus[<<p, i>>] + n
    BY <1>3, <2>1
  <2>4. /\ pc[p] = "publish" /\ kind' = kind /\ reply' = reply /\ config' = config
        /\ ctxDone' = ctxDone /\ deadLetter' = deadLetter
    BY DEF PublishOk
  <2>5. item[p] \in Nat /\ attempt[p] \in 0..MaxRetries
    BY <1>1 DEF TypeOK
  <2>6. /\ pc'[p] \in {"audit_item", "reply"}
        /\ pc'[p] = "audit_item" => item'[p] = item[p] + 1
        /\ pc'[p] = "reply" /\ kind[p] = "order" => item[p] >= FillsPerOrder
    BY <1>1 DEF TypeOK, PublishOk, NextItem, Items, Goto
  <2>7. kind[p] = "order" /\ i <= item[p] => Accounted(<<p, i>>)'
    <3>1. CASE i = item[p]
      BY <2>1, <2>3, <3>1 DEF Accounted
    <3>2. CASE i < item[p]
      <4>1. Passed(p, i)
        BY <2>4, <3>2 DEF Passed, Loop, Publishing
      <4>2. kind[p] = "order" => Accounted(<<p, i>>)
        BY <1>2, <4>1 DEF FillOK
      <4> QED
        BY <2>1, <2>2, <2>4, <4>2 DEF Accounted
    <3> QED
      BY <2>5, <3>1, <3>2
  <2>8. kind[p] = "order" /\ Passed(p, i)' => Accounted(<<p, i>>)'
    <3>1. Passed(p, i)' /\ kind[p] = "order" => i <= item[p]
      BY <2>5, <2>6 DEF Passed
    <3> QED
      BY <2>7, <3>1
  <2>9. bus'[<<p, i>>] <= Copies(MaxRetries + 1)
    <3>1. CASE kind[p] = "order" /\ i = item[p]
      <4>1. bus[<<p, i>>] <= Copies(attempt[p])
        BY <1>2, <2>4, <3>1 DEF FillOK
      <4>2. /\ Copies(attempt[p] + 1) = Copies(attempt[p]) + WriterAttempts
            /\ Copies(attempt[p]) \in Nat
        BY <2>5, CopiesStep
      <4>3. Copies(attempt[p] + 1) <= Copies(MaxRetries + 1)
        BY <2>5, CopiesGrow
      <4>4. Copies(MaxRetries + 1) \in Nat
        BY CopiesStep
      <4> QED BY <2>1, <2>3, <3>1, <4>1, <4>2, <4>3, <4>4
    <3>2. CASE ~ (kind[p] = "order" /\ i = item[p])
      BY <1>2, <2>3, <3>2 DEF FillOK
    <3> QED BY <3>1, <3>2
  <2> QED
    BY <1>2, <2>1, <2>2, <2>3, <2>4, <2>5, <2>6, <2>8, <2>9 DEF FillOK, Before, Publishing
<1> QED
  BY <1>4, <1>5, <1>6, <1>7 DEF IInv, HandlerOK

\* An attempt fails, with or without copies on the bus.
LEMMA PublishErrIInv ==
    ASSUME IInv, NEW p \in Requests, PublishErr(p)
    PROVE  IInv'
<1> USE SizesAssumption
<1>1. TypeOK /\ HandlerOK(p)
  BY DEF IInv
<1>2. ControlOK(p) /\ \A i \in 1..FillsPerOrder : FillOK(p, i)
  BY <1>1 DEF HandlerOK
<1>0. PICK n \in 0..WriterAttempts : bus' = OnBus(p, n)
  BY DEF PublishErr
<1>3. /\ OnBus(p, n) \in [Fills -> Nat]
      /\ \A q \in Requests, i \in 1..FillsPerOrder :
            /\ q # p \/ i # item[p] => OnBus(p, n)[<<q, i>>] = bus[<<q, i>>]
            /\ kind[p] = "order" /\ q = p /\ i = item[p]
                 => OnBus(p, n)[<<q, i>>] = bus[<<q, i>>] + n
      /\ kind[p] # "order" => OnBus(p, n) = bus
  BY <1>1, <1>2, OnBusFacts DEF ControlOK
<1>4. TypeOK'
  <2>1. bus' \in [Fills -> Nat]
    BY <1>0, <1>3
  <2>2. CASE p \in ctxDone
    BY <1>1, <2>1, <2>2, NextItemType DEF TypeOK, PublishErr, storeVars, auditVars
  <2>3. CASE p \notin ctxDone
    <3>1. Goto(p, "wait") /\ UNCHANGED <<item, attempt>>
      BY <2>3 DEF PublishErr
    <3>2. pc' \in [Requests -> PCs]
      BY <1>1, <3>1, GotoType DEF PCs, Running, Publishing
    <3> QED
      BY <1>1, <2>1, <3>1, <3>2 DEF TypeOK, PublishErr, storeVars, auditVars
  <2> QED
    BY <2>2, <2>3
<1>5. ASSUME NEW q \in Requests, q # p PROVE HandlerOK(q)'
  <2>1. \A i \in 1..FillsPerOrder : bus'[<<q, i>>] = bus[<<q, i>>]
    BY <1>0, <1>3, <1>5
  <2>2. pc'[q] = pc[q] /\ item'[q] = item[q] /\ attempt'[q] = attempt[q]
    BY <1>1, <1>5 DEF TypeOK, PublishErr, NextItem, Goto
  <2> QED
    BY <1>5, <2>1, <2>2, Frame DEF IInv, PublishErr
<1>6. ControlOK(p)'
  BY <1>1, <1>2 DEF TypeOK, ControlOK, Before, Loop, Publishing, PublishErr, NextItem,
     Items, Goto
<1>7. ASSUME NEW i \in 1..FillsPerOrder PROVE FillOK(p, i)'
  <2>1. bus'[<<p, i>>] = OnBus(p, n)[<<p, i>>] /\ bus[<<p, i>>] \in Nat
    BY <1>0, <1>1, FillPairs DEF TypeOK
  <2>2. bus'[<<p, i>>] \in Nat /\ bus[<<p, i>>] <= bus'[<<p, i>>]
    BY <1>3, <2>1, FillPairs
  <2>3. /\ i # item[p] \/ kind[p] # "order" => bus'[<<p, i>>] = bus[<<p, i>>]
        /\ kind[p] = "order" /\ i = item[p] => bus'[<<p, i>>] = bus[<<p, i>>] + n
    BY <1>3, <2>1
  <2>4. /\ pc[p] = "publish" /\ kind' = kind /\ reply' = reply /\ config' = config
        /\ ctxDone' = ctxDone /\ deadLetter' = deadLetter
    BY DEF PublishErr
  <2>5. item[p] \in Nat /\ attempt[p] \in 0..MaxRetries
    BY <1>1 DEF TypeOK
  <2>8. bus'[<<p, i>>] <= Copies(MaxRetries + 1)
        /\ (kind[p] = "order" /\ i = item[p] => bus'[<<p, i>>] <= Copies(attempt[p] + 1))
    <3>1. CASE kind[p] = "order" /\ i = item[p]
      <4>1. bus[<<p, i>>] <= Copies(attempt[p])
        BY <1>2, <2>4, <3>1 DEF FillOK
      <4>2. /\ Copies(attempt[p] + 1) = Copies(attempt[p]) + WriterAttempts
            /\ Copies(attempt[p]) \in Nat
        BY <2>5, CopiesStep
      <4>3. Copies(attempt[p] + 1) <= Copies(MaxRetries + 1)
        BY <2>5, CopiesGrow
      <4>4. Copies(MaxRetries + 1) \in Nat
        BY CopiesStep
      <4> QED BY <2>1, <2>3, <3>1, <4>1, <4>2, <4>3, <4>4
    <3>2. CASE ~ (kind[p] = "order" /\ i = item[p])
      BY <1>2, <2>3, <3>2 DEF FillOK
    <3> QED BY <3>1, <3>2
  <2>6. CASE p \in ctxDone
    <3>1. Accounted(<<p, i>>)'
      BY <2>4, <2>6 DEF Accounted
    <3>2. pc'[p] \in {"audit_item", "reply"}
      BY <1>1, <2>6 DEF TypeOK, PublishErr, NextItem, Goto
    <3>3. pc'[p] = "audit_item" => item'[p] = item[p] + 1
      BY <1>1, <2>6 DEF TypeOK, PublishErr, NextItem, Goto
    <3> QED
      BY <1>2, <2>1, <2>2, <2>3, <2>4, <2>5, <2>8, <3>1, <3>2, <3>3
         DEF FillOK, Before, Publishing
  <2>7. CASE p \notin ctxDone
    <3>1. pc'[p] = "wait" /\ item' = item /\ attempt' = attempt
      BY <1>1, <2>7 DEF TypeOK, PublishErr, Goto
    <3>2. Passed(p, i)' => Passed(p, i)
      BY <2>4, <3>1 DEF Passed, Loop, Publishing
    <3>3. Accounted(<<p, i>>) => Accounted(<<p, i>>)'
      BY <2>2, <2>1, <2>4 DEF Accounted
    <3> QED
      BY <1>2, <2>1, <2>2, <2>3, <2>4, <2>5, <2>8, <3>1, <3>2, <3>3
         DEF FillOK, Before, Publishing
  <2> QED
    BY <2>6, <2>7
<1> QED
  BY <1>4, <1>5, <1>6, <1>7 DEF IInv, HandlerOK

\* A further attempt, or the dead letter after the last one.
LEMMA RetryTimerIInv ==
    ASSUME IInv, NEW p \in Requests, RetryTimer(p)
    PROVE  IInv'
<1> USE SizesAssumption
<1>1. TypeOK /\ HandlerOK(p)
  BY DEF IInv
<1>2. ControlOK(p) /\ \A i \in 1..FillsPerOrder : FillOK(p, i)
  BY <1>1 DEF HandlerOK
<1>4. TypeOK'
  <2>1. CASE attempt[p] < MaxRetries
    <3>1. attempt' = [attempt EXCEPT ![p] = attempt[p] + 1] /\ Goto(p, "publish")
          /\ UNCHANGED <<item, deadLetter>>
      BY <2>1 DEF RetryTimer
    <3>2. attempt' \in [Requests -> 0..MaxRetries]
      BY <1>1, <2>1, <3>1 DEF TypeOK
    <3>3. pc' \in [Requests -> PCs]
      BY <1>1, <3>1, GotoType DEF PCs, Running, Publishing
    <3> QED
      BY <1>1, <3>1, <3>2, <3>3 DEF TypeOK, RetryTimer, storeVars, auditVars
  <2>2. CASE ~ (attempt[p] < MaxRetries)
    <3>1. kind[p] = "order" => <<p, item[p]>> \in Fills
      BY <1>2, FillPairs DEF ControlOK
    <3>2. /\ deadLetter' = IF kind[p] = "order" THEN deadLetter \cup {<<p, item[p]>>}
                                              ELSE deadLetter
          /\ NextItem(p)
      BY <2>2 DEF RetryTimer
    <3>3. deadLetter \subseteq Fills
      BY <1>1 DEF TypeOK
    <3>4. deadLetter' \subseteq Fills
      BY <3>1, <3>2, <3>3
    <3> QED
      BY <1>1, <3>2, <3>4, NextItemType DEF TypeOK, RetryTimer, storeVars, auditVars
  <2> QED
    BY <2>1, <2>2
<1>5. ASSUME NEW q \in Requests, q # p PROVE HandlerOK(q)'
  BY <1>1, <1>5, Frame DEF IInv, TypeOK, RetryTimer, NextItem, Items, Goto
<1>6. ControlOK(p)'
  BY <1>1, <1>2 DEF TypeOK, ControlOK, Before, Loop, Publishing, RetryTimer, NextItem,
     Items, Goto
<1>7. ASSUME NEW i \in 1..FillsPerOrder PROVE FillOK(p, i)'
  <2>1. /\ pc[p] = "wait" /\ bus' = bus /\ kind' = kind /\ reply' = reply
        /\ config' = config /\ ctxDone' = ctxDone
    BY DEF RetryTimer
  <2>2. bus[<<p, i>>] \in Nat /\ item[p] \in Nat /\ attempt[p] \in 0..MaxRetries
    BY <1>1, FillPairs DEF TypeOK
  <2>3. CASE attempt[p] < MaxRetries
    <3>1. /\ pc'[p] = "publish" /\ item' = item /\ attempt'[p] = attempt[p] + 1
          /\ deadLetter' = deadLetter
      BY <1>1, <2>3 DEF TypeOK, RetryTimer, Goto
    <3>2. Passed(p, i)' => Passed(p, i)
      BY <2>1, <3>1 DEF Passed, Loop, Publishing
    <3>3. Accounted(<<p, i>>) => Accounted(<<p, i>>)'
      BY <2>1, <3>1 DEF Accounted
    <3> QED
      BY <1>2, <2>1, <2>2, <3>1, <3>2, <3>3 DEF FillOK, Before, Publishing
  <2>4. CASE ~ (attempt[p] < MaxRetries)
    <3>1. /\ pc'[p] \in {"audit_item", "reply"}
          /\ pc'[p] = "audit_item" => item'[p] = item[p] + 1
          /\ pc'[p] = "reply" /\ kind[p] = "order" => item[p] >= FillsPerOrder
          /\ kind[p] = "order" => deadLetter' = deadLetter \cup {<<p, item[p]>>}
      BY <1>1, <2>4 DEF TypeOK, RetryTimer, NextItem, Items, Goto
    <3>2. CASE kind[p] = "order" /\ i = item[p]
      <4>1. Accounted(<<p, i>>)'
        BY <3>1, <3>2 DEF Accounted
      <4> QED
        BY <1>2, <2>1, <2>2, <3>1, <3>2, <4>1 DEF FillOK, Before, Publishing
    <3>3. CASE kind[p] = "order" /\ i < item[p]
      <4>1. Passed(p, i)
        BY <2>1, <3>3 DEF Passed, Loop, Publishing
      <4>2. Accounted(<<p, i>>)
        BY <1>2, <3>3, <4>1 DEF FillOK
      <4>3. Accounted(<<p, i>>)'
        BY <2>1, <3>1, <3>3, <4>2 DEF Accounted
      <4> QED
        BY <1>2, <2>1, <2>2, <3>1, <3>3, <4>3 DEF FillOK, Before, Publishing
    <3>4. CASE kind[p] = "order" /\ i > item[p]
      <4>1. ~ Passed(p, i)'
        BY <2>2, <3>1, <3>4 DEF Passed
      <4> QED
        BY <1>2, <2>1, <2>2, <3>1, <3>4, <4>1 DEF FillOK, Before, Publishing
    <3>5. CASE kind[p] # "order"
      BY <1>2, <2>1, <2>2, <3>1, <3>5 DEF FillOK, Before
    <3> QED
      BY <2>2, <3>2, <3>3, <3>4, <3>5
  <2> QED
    BY <2>3, <2>4
<1> QED
  BY <1>4, <1>5, <1>6, <1>7 DEF IInv, HandlerOK

\* The context ends the pause.
LEMMA GiveUpIInv ==
    ASSUME IInv, NEW p \in Requests, GiveUp(p)
    PROVE  IInv'
<1> USE SizesAssumption
<1>1. TypeOK /\ HandlerOK(p)
  BY DEF IInv
<1>2. ControlOK(p) /\ \A i \in 1..FillsPerOrder : FillOK(p, i)
  BY <1>1 DEF HandlerOK
<1>4. TypeOK'
  BY <1>1, NextItemType DEF TypeOK, storeVars, auditVars, GiveUp
<1>5. ASSUME NEW q \in Requests, q # p PROVE HandlerOK(q)'
  BY <1>1, <1>5, Frame DEF IInv, TypeOK, GiveUp, NextItem, Items, Goto
<1>6. ControlOK(p)'
  BY <1>1, <1>2 DEF TypeOK, ControlOK, Before, Loop, Publishing, GiveUp, NextItem, Items,
     Goto
<1>7. ASSUME NEW i \in 1..FillsPerOrder PROVE FillOK(p, i)'
  BY <1>1, <1>2, FillPairs DEF TypeOK, ControlOK, FillOK, Accounted, Passed, Before, Loop,
     Publishing, GiveUp, NextItem, Items, Goto
<1> QED
  BY <1>4, <1>5, <1>6, <1>7 DEF IInv, HandlerOK

\* The context of a request ends.
LEMMA ContextDoneIInv ==
    ASSUME IInv, NEW p \in Requests, ContextDone(p)
    PROVE  IInv'
<1> USE SizesAssumption
<1>1. TypeOK /\ HandlerOK(p)
  BY DEF IInv
<1>2. ControlOK(p) /\ \A i \in 1..FillsPerOrder : FillOK(p, i)
  BY <1>1 DEF HandlerOK
<1>4. TypeOK'
  BY <1>1 DEF TypeOK, PCs, Running, Storing, Publishing, storeVars, auditVars, ContextDone,
     handlerVars
<1>5. ASSUME NEW q \in Requests, q # p PROVE HandlerOK(q)'
  BY <1>1, <1>5, Frame DEF IInv, TypeOK, ContextDone, handlerVars
<1>6. ControlOK(p)'
  BY <1>1, <1>2 DEF TypeOK, ControlOK, Before, Loop, Publishing, ContextDone, handlerVars
<1>7. ASSUME NEW i \in 1..FillsPerOrder PROVE FillOK(p, i)'
  BY <1>1, <1>2, FillPairs DEF TypeOK, ControlOK, FillOK, Accounted, Passed, Before, Loop,
     Publishing, ContextDone, handlerVars
<1> QED
  BY <1>4, <1>5, <1>6, <1>7 DEF IInv, HandlerOK

\* The handler answers 200: every fill of the order has been passed.
LEMMA ReplyIInv ==
    ASSUME IInv, NEW p \in Requests, Reply(p)
    PROVE  IInv'
<1> USE SizesAssumption
<1>1. TypeOK /\ HandlerOK(p)
  BY DEF IInv
<1>2. ControlOK(p) /\ \A i \in 1..FillsPerOrder : FillOK(p, i)
  BY <1>1 DEF HandlerOK
<1>4. TypeOK'
  <2>1. Answer(p, 200)
    BY DEF Reply
  <2>2. pc' \in [Requests -> PCs] /\ reply' \in [Requests -> {0, 200, 400, 401, 502}]
    BY <1>1, <2>1, AnswerType
  <2> QED
    BY <1>1, <2>2 DEF TypeOK, storeVars, auditVars, Reply
<1>5. ASSUME NEW q \in Requests, q # p PROVE HandlerOK(q)'
  BY <1>1, <1>5, Frame DEF IInv, TypeOK, Reply, Answer, Goto
<1>6. ControlOK(p)'
  BY <1>1, <1>2 DEF TypeOK, ControlOK, Before, Loop, Publishing, Reply, Answer, Goto
<1>7. ASSUME NEW i \in 1..FillsPerOrder PROVE FillOK(p, i)'
  BY <1>1, <1>2, FillPairs DEF TypeOK, ControlOK, FillOK, Accounted, Passed, Before, Loop,
     Publishing, Reply, Answer, Goto
<1> QED
  BY <1>4, <1>5, <1>6, <1>7 DEF IInv, HandlerOK

\* The connector cancels or refuses.
LEMMA CancelOrderIInv ==
    ASSUME IInv, NEW p \in Requests, CancelOrder(p)
    PROVE  IInv'
<1> USE SizesAssumption
<1>1. TypeOK /\ HandlerOK(p)
  BY DEF IInv
<1>2. ControlOK(p) /\ \A i \in 1..FillsPerOrder : FillOK(p, i)
  BY <1>1 DEF HandlerOK
<1>4. TypeOK'
  <2>1. orders' \in [Requests -> Statuses]
    BY <1>1 DEF TypeOK, CancelOrder, Statuses
  <2>2. pc' \in [Requests -> PCs] /\ reply' \in [Requests -> {0, 200, 400, 401, 502}]
    <3>1. (Goto(p, "audit_cancel") /\ reply' = reply) \/ Answer(p, 502)
      BY DEF CancelOrder
    <3>2. "audit_cancel" \in PCs
      BY DEF PCs, Running
    <3>3. reply \in [Requests -> {0, 200, 400, 401, 502}]
      BY <1>1 DEF TypeOK
    <3>4. CASE Answer(p, 502)
      BY <1>1, <3>4, AnswerType
    <3>5. CASE ~ Answer(p, 502)
      BY <1>1, <3>1, <3>2, <3>3, <3>5, GotoType
    <3> QED
      BY <3>4, <3>5
  <2> QED
    BY <1>1, <2>1, <2>2 DEF TypeOK, CancelOrder, storeVars, auditVars
<1>5. ASSUME NEW q \in Requests, q # p PROVE HandlerOK(q)'
  BY <1>1, <1>5, Frame DEF IInv, TypeOK, CancelOrder, Answer, Goto
<1>6. ControlOK(p)'
  BY <1>1, <1>2 DEF TypeOK, ControlOK, Before, Loop, Publishing, CancelOrder, Answer, Goto
<1>7. ASSUME NEW i \in 1..FillsPerOrder PROVE FillOK(p, i)'
  BY <1>1, <1>2, FillPairs DEF TypeOK, ControlOK, FillOK, Accounted, Passed, Before, Loop,
     Publishing, CancelOrder, Answer, Goto
<1> QED
  BY <1>4, <1>5, <1>6, <1>7 DEF IInv, HandlerOK

\* order_canceled is emitted.
LEMMA AuditCancelIInv ==
    ASSUME IInv, NEW p \in Requests, AuditCancel(p)
    PROVE  IInv'
<1> USE SizesAssumption
<1>1. TypeOK /\ HandlerOK(p)
  BY DEF IInv
<1>2. ControlOK(p) /\ \A i \in 1..FillsPerOrder : FillOK(p, i)
  BY <1>1 DEF HandlerOK
<1>3. audit' \in Seq(Events) /\ auditLost' \subseteq Events
  <2>1. target[p] \in Requests \cup {NoOrder} /\ Emit("order_canceled", target[p], 0)
    BY <1>1 DEF TypeOK, AuditCancel
  <2> QED
    BY <1>1, <2>1, EmitType
<1>4. TypeOK'
  BY <1>1, <1>3 DEF TypeOK, PCs, Running, Storing, Publishing, storeVars, auditVars,
     AuditCancel, Goto
<1>5. ASSUME NEW q \in Requests, q # p PROVE HandlerOK(q)'
  BY <1>1, <1>3, <1>5, Frame DEF IInv, TypeOK, AuditCancel, Goto
<1>6. ControlOK(p)'
  BY <1>1, <1>2 DEF TypeOK, ControlOK, Before, Loop, Publishing, AuditCancel, Goto
<1>7. ASSUME NEW i \in 1..FillsPerOrder PROVE FillOK(p, i)'
  BY <1>1, <1>2, <1>3, FillPairs DEF TypeOK, ControlOK, FillOK, Accounted, Passed, Before,
     Loop, Publishing, AuditCancel, Goto
<1> QED
  BY <1>4, <1>5, <1>6, <1>7 DEF IInv, HandlerOK

\* GET /v1/balances is taken up.
LEMMA AcceptBalancesIInv ==
    ASSUME IInv, NEW p \in Requests, AcceptBalances(p)
    PROVE  IInv'
<1> USE SizesAssumption
<1>1. TypeOK /\ HandlerOK(p)
  BY DEF IInv
<1>2. ControlOK(p) /\ \A i \in 1..FillsPerOrder : FillOK(p, i)
  BY <1>1 DEF HandlerOK
<1>4. TypeOK'
  BY <1>1 DEF TypeOK, PCs, Running, Storing, Publishing, Kinds, storeVars, auditVars,
     AcceptBalances, Goto
<1>5. ASSUME NEW q \in Requests, q # p PROVE HandlerOK(q)'
  BY <1>1, <1>5, Frame DEF IInv, TypeOK, AcceptBalances, Goto
<1>6. ControlOK(p)'
  BY <1>1, <1>2 DEF TypeOK, ControlOK, Before, Loop, Publishing, AcceptBalances, Goto
<1>7. ASSUME NEW i \in 1..FillsPerOrder PROVE FillOK(p, i)'
  BY <1>1, <1>2, FillPairs DEF TypeOK, ControlOK, FillOK, Accounted, Passed, Before, Loop,
     Publishing, AcceptBalances, Goto
<1> QED
  BY <1>4, <1>5, <1>6, <1>7 DEF IInv, HandlerOK

\* The connector lists balances or refuses.
LEMMA GetBalancesIInv ==
    ASSUME IInv, NEW p \in Requests, GetBalances(p)
    PROVE  IInv'
<1> USE SizesAssumption
<1>1. TypeOK /\ HandlerOK(p)
  BY DEF IInv
<1>2. ControlOK(p) /\ \A i \in 1..FillsPerOrder : FillOK(p, i)
  BY <1>1 DEF HandlerOK
<1>4. TypeOK'
  <2>1. pc' \in [Requests -> PCs] /\ reply' \in [Requests -> {0, 200, 400, 401, 502}]
    <3>1. \/ (Goto(p, "audit_item") \/ Goto(p, "reply")) /\ reply' = reply
          \/ Answer(p, 502)
      BY DEF GetBalances
    <3>2. "audit_item" \in PCs /\ "reply" \in PCs
      BY DEF PCs, Running
    <3>3. reply \in [Requests -> {0, 200, 400, 401, 502}]
      BY <1>1 DEF TypeOK
    <3>4. CASE Answer(p, 502)
      BY <1>1, <3>4, AnswerType
    <3>5. CASE ~ Answer(p, 502)
      BY <1>1, <3>1, <3>2, <3>3, <3>5, GotoType
    <3> QED
      BY <3>4, <3>5
  <2> QED
    BY <1>1, <2>1 DEF TypeOK, GetBalances, storeVars, auditVars
<1>5. ASSUME NEW q \in Requests, q # p PROVE HandlerOK(q)'
  BY <1>1, <1>5, Frame DEF IInv, TypeOK, GetBalances, Answer, Goto
<1>6. ControlOK(p)'
  BY <1>1, <1>2 DEF TypeOK, ControlOK, Before, Loop, Publishing, GetBalances, Answer, Goto
<1>7. ASSUME NEW i \in 1..FillsPerOrder PROVE FillOK(p, i)'
  BY <1>1, <1>2, FillPairs DEF TypeOK, ControlOK, FillOK, Accounted, Passed, Before, Loop,
     Publishing, GetBalances, Answer, Goto
<1> QED
  BY <1>4, <1>5, <1>6, <1>7 DEF IInv, HandlerOK

\* POST /admin/rotate-credentials is taken up.
LEMMA AcceptRotateIInv ==
    ASSUME IInv, NEW p \in Requests, AcceptRotate(p)
    PROVE  IInv'
<1> USE SizesAssumption
<1>1. TypeOK /\ HandlerOK(p)
  BY DEF IInv
<1>2. ControlOK(p) /\ \A i \in 1..FillsPerOrder : FillOK(p, i)
  BY <1>1 DEF HandlerOK
<1>4. TypeOK'
  BY <1>1 DEF TypeOK, PCs, Running, Storing, Publishing, Kinds, storeVars, auditVars,
     AcceptRotate, Goto
<1>5. ASSUME NEW q \in Requests, q # p PROVE HandlerOK(q)'
  BY <1>1, <1>5, Frame DEF IInv, TypeOK, AcceptRotate, Goto
<1>6. ControlOK(p)'
  BY <1>1, <1>2 DEF TypeOK, ControlOK, Before, Loop, Publishing, AcceptRotate, Goto
<1>7. ASSUME NEW i \in 1..FillsPerOrder PROVE FillOK(p, i)'
  BY <1>1, <1>2, FillPairs DEF TypeOK, ControlOK, FillOK, Accounted, Passed, Before, Loop,
     Publishing, AcceptRotate, Goto
<1> QED
  BY <1>4, <1>5, <1>6, <1>7 DEF IInv, HandlerOK

\* credential_rotation is emitted.
LEMMA AuditRotateIInv ==
    ASSUME IInv, NEW p \in Requests, AuditRotate(p)
    PROVE  IInv'
<1> USE SizesAssumption
<1>1. TypeOK /\ HandlerOK(p)
  BY DEF IInv
<1>2. ControlOK(p) /\ \A i \in 1..FillsPerOrder : FillOK(p, i)
  BY <1>1 DEF HandlerOK
<1>3. audit' \in Seq(Events) /\ auditLost' \subseteq Events
  <2>1. Emit("credential_rotation", NoOrder, 0)
    BY DEF AuditRotate
  <2> QED
    BY <1>1, <2>1, EmitType
<1>4. TypeOK'
  BY <1>1, <1>3 DEF TypeOK, PCs, Running, Storing, Publishing, storeVars, auditVars,
     AuditRotate, Goto
<1>5. ASSUME NEW q \in Requests, q # p PROVE HandlerOK(q)'
  BY <1>1, <1>3, <1>5, Frame DEF IInv, TypeOK, AuditRotate, Goto
<1>6. ControlOK(p)'
  BY <1>1, <1>2 DEF TypeOK, ControlOK, Before, Loop, Publishing, AuditRotate, Goto
<1>7. ASSUME NEW i \in 1..FillsPerOrder PROVE FillOK(p, i)'
  BY <1>1, <1>2, <1>3, FillPairs DEF TypeOK, ControlOK, FillOK, Accounted, Passed, Before,
     Loop, Publishing, AuditRotate, Goto
<1> QED
  BY <1>4, <1>5, <1>6, <1>7 DEF IInv, HandlerOK

\* A cancellation is taken up.
LEMMA AcceptCancelIInv ==
    ASSUME IInv, NEW p \in Requests, NEW id \in Requests \cup {NoOrder}, AcceptCancel(p, id)
    PROVE  IInv'
<1> USE SizesAssumption
<1>1. TypeOK /\ HandlerOK(p)
  BY DEF IInv
<1>2. ControlOK(p) /\ \A i \in 1..FillsPerOrder : FillOK(p, i)
  BY <1>1 DEF HandlerOK
<1>4. TypeOK'
  BY <1>1 DEF TypeOK, PCs, Running, Kinds, storeVars, auditVars, AcceptCancel, Goto
<1>5. ASSUME NEW q \in Requests, q # p PROVE HandlerOK(q)'
  BY <1>1, <1>5, Frame DEF IInv, TypeOK, AcceptCancel, Goto
<1>6. ControlOK(p)'
  BY <1>1, <1>2 DEF TypeOK, ControlOK, Before, Loop, Publishing, AcceptCancel, Goto
<1>7. ASSUME NEW i \in 1..FillsPerOrder PROVE FillOK(p, i)'
  BY <1>1, <1>2, FillPairs DEF TypeOK, ControlOK, FillOK, Accounted, Passed, Before, Loop,
     Publishing, AcceptCancel, Goto
<1> QED
  BY <1>4, <1>5, <1>6, <1>7 DEF IInv, HandlerOK

\* The process dies: running handlers stop where they are.
LEMMA CrashIInv == IInv /\ Crash => IInv'
<1> SUFFICES ASSUME IInv, Crash PROVE IInv'
  OBVIOUS
<1> USE SizesAssumption
<1>1. TypeOK
  BY DEF IInv
<1>2. pc' \in [Requests -> PCs] /\ orders' \in [Requests -> Statuses] /\ audit' \in Seq(Events)
  BY <1>1 DEF TypeOK, Crash, PCs, Statuses
<1>3. TypeOK'
  BY <1>1, <1>2 DEF TypeOK, Crash
<1>4. ASSUME NEW q \in Requests PROVE HandlerOK(q)'
  <2>1. ControlOK(q) /\ \A i \in 1..FillsPerOrder : FillOK(q, i)
    BY DEF IInv, HandlerOK
  <2>2. CASE pc[q] \notin Running
    <3>1. pc'[q] = pc[q]
      BY <2>2 DEF Crash
    <3> QED
      BY <3>1, Frame DEF IInv, Crash
  <2>3. CASE pc[q] \in Running
    <3>1. pc'[q] = "crashed" /\ reply[q] # 200
      BY <2>1, <2>3 DEF Crash, ControlOK, Running, Publishing, Storing
    <3>2. ControlOK(q)'
      BY <2>1, <3>1 DEF ControlOK, Crash, Before, Loop, Publishing
    <3>3. ASSUME NEW i \in 1..FillsPerOrder PROVE FillOK(q, i)'
      BY <2>1, <3>1 DEF FillOK, Crash, Before, Loop, Publishing, Passed
    <3> QED
      BY <3>2, <3>3 DEF HandlerOK
  <2> QED
    BY <2>2, <2>3
<1> QED
  BY <1>3, <1>4 DEF IInv

\* GET /admin/status shows an order.
LEMMA AdminStatusIInv ==
    ASSUME IInv, NEW p \in Requests, AdminStatus(p)
    PROVE  IInv'
<1>1. TypeOK'
  BY DEF IInv, TypeOK, AdminStatus, handlerVars, storeVars, auditVars
<1>2. ASSUME NEW q \in Requests PROVE HandlerOK(q)'
  BY Frame DEF IInv, AdminStatus, handlerVars
<1> QED
  BY <1>1, <1>2 DEF IInv

\* Every step keeps the inductive invariant.
LEMMA StepIInv == IInv /\ [Next]_vars => IInv'
<1> SUFFICES ASSUME IInv, [Next]_vars PROVE IInv'
  OBVIOUS
<1>1. ASSUME NEW p \in Requests, Arrive(p) PROVE IInv'
  <2>1. Known \cup {NoOrder} \subseteq Requests \cup {NoOrder}
    BY DEF Known, IInv, TypeOK
  <2> QED
    BY <1>1, <2>1, UnauthorizedIInv, RejectIInv, AcceptOrderIInv, AcceptCancelIInv,
       AcceptBalancesIInv, AcceptRotateIInv DEF Arrive
<1>2. ASSUME NEW p \in Requests, Handle(p) PROVE IInv'
  BY <1>2, DummyPlaceOrderIInv, ExchangePlaceOrderIInv, RecordOrderIInv, RecordFillIInv,
     AuditOrderIInv, AuditItemIInv, PublishDisabledIInv, PublishOkIInv, PublishErrIInv,
     RetryTimerIInv, GiveUpIInv, CancelOrderIInv, AuditCancelIInv, GetBalancesIInv,
     AuditRotateIInv, ReplyIInv DEF Handle
<1>3. ASSUME NEW p \in Requests, ContextDone(p) PROVE IInv'
  BY <1>3, ContextDoneIInv
<1>4. CASE Crash
  BY <1>4, CrashIInv
<1>6. ASSUME NEW p \in Requests, AdminStatus(p) PROVE IInv'
  BY <1>6, AdminStatusIInv
<1>5. CASE UNCHANGED vars
  <2>1. TypeOK'
    BY <1>5 DEF IInv, TypeOK, vars
  <2>2. ASSUME NEW q \in Requests PROVE HandlerOK(q)'
    BY <1>5, Frame DEF IInv, vars
  <2> QED
    BY <2>1, <2>2 DEF IInv
<1> QED
  BY <1>1, <1>2, <1>3, <1>4, <1>5, <1>6 DEF Next

\* The inductive invariant holds in every behaviour of the order path.
LEMMA Inductive == Spec => []IInv
BY InitIInv, StepIInv, PTL DEF Spec
-----------------------------------------------------------------------------
\* Type correctness of the order path: the loop over fills stays within the
\* order's fills and a publication within its attempts (server.go:146-260,
\* events.go:147-185).
THEOREM TypeCorrect == Spec => []TypeOK
<1>1. IInv => TypeOK
  BY DEF IInv
<1> QED
  BY <1>1, Inductive, PTL

\* However publications fail, acknowledgements get lost and the process crashes,
\* a fill is on the bus at most maxRetries + 1 times as often as the writer tries
\* (events.go:69, 162-179).
THEOREM CopiesBounded == Spec => []BoundedCopies
<1>1. IInv => BoundedCopies
  <2> SUFFICES ASSUME IInv, NEW q \in Requests, NEW i \in 1..FillsPerOrder
               PROVE  bus[<<q, i>>] <= (MaxRetries + 1) * WriterAttempts
    BY DEF BoundedCopies, Fills
  <2> QED
    BY DEF IInv, HandlerOK, FillOK, Copies
<1> QED
  BY <1>1, Inductive, PTL
-----------------------------------------------------------------------------
(* Audit order and traceability, relative to the invariant above *)

\* A handler's order and its fill i are in the store, or their write failed.
OrderKept(q) == q \in storedOrders \/ <<q, 0>> \in storeErrors
FillKept(q, i) == <<q, i>> \in storedFills \/ <<q, i>> \in storeErrors

\* What an order handler has emitted by the time it is at each step; an order a
\* client knows of was emitted, and so was the one a cancellation names, unless
\* they come from GET /admin/status.  After a crash this is true of the Kafka sink
\* only.
AuditedOK(q) ==
    /\ kind[q] = "order" /\ pc[q] \in Loop \cup {"reply"} => Placed(q) \in Emitted
    /\ kind[q] = "order" /\ pc[q] \in Publishing => Filled(<<q, item[q]>>) \in Emitted
    /\ config.sink = "kafka" =>
         /\ kind[q] = "order" /\ reply[q] = 200 => Placed(q) \in Emitted
         /\ pc[q] \in {"cancel", "audit_cancel"} /\ target[q] # NoOrder
              => Placed(target[q]) \in Emitted \/ target[q] \in shown
         /\ \A i \in 1..FillsPerOrder :
              /\ bus[<<q, i>>] > 0 => Placed(q) \in Emitted /\ Filled(<<q, i>>) \in Emitted
              /\ kind[q] = "order" /\ Passed(q, i) => Filled(<<q, i>>) \in Emitted

\* What an order handler has stored by the time it is at each step.
StoredOK(q) ==
    config.store = "postgres" =>
        /\ kind[q] = "order" /\ pc[q] \in {"record_fill", "audit_order"} \cup Loop
             => OrderKept(q)
        /\ \A i \in 1..FillsPerOrder :
             /\ pc[q] = "record_fill" /\ i < item[q] => FillKept(q, i)
             /\ kind[q] = "order" /\ pc[q] \in {"audit_order"} \cup Loop => FillKept(q, i)
             /\ bus[<<q, i>>] > 0 => OrderKept(q) /\ FillKept(q, i)
             /\ kind[q] = "order" /\ Passed(q, i) => FillKept(q, i)

Trace == AuditCausal /\ \A q \in Requests : AuditedOK(q) /\ StoredOK(q)
-----------------------------------------------------------------------------
\* An emission adds its event to what was emitted; the audit log stays in causal
\* order when the placement an event calls for was emitted before it.
LEMMA EmitTrace ==
    ASSUME TypeOK, AuditCausal, config' = config,
           NEW t \in {"order_placed", "fill", "order_canceled", "balance_snapshot",
                      "credential_rotation"},
           NEW o \in Requests \cup {NoOrder}, NEW i \in Nat,
           Emit(t, o, i),
           shown \subseteq shown',
           t = "fill" => Placed(o) \in Emitted,
           t = "order_canceled" /\ o # NoOrder /\ config.sink = "kafka"
               => Placed(o) \in Emitted \/ o \in shown
    PROVE  /\ Emitted' = Emitted \cup {[type |-> t, order |-> o, item |-> i]}
           /\ AuditCausal'
<1> DEFINE e == [type |-> t, order |-> o, item |-> i]
<1>1. e \in Events /\ e.type = t /\ e.order = o
  BY DEF Events
<1>2. audit \in Seq(Events) /\ Len(audit) \in Nat
  BY DEF TypeOK
<1>3. \/ audit' = Append(audit, e) /\ auditLost' = auditLost
      \/ auditLost' = auditLost \cup {e} /\ audit' = audit
  BY DEF Emit
<1> HIDE DEF e
<1>4. CASE audit' = Append(audit, e) /\ auditLost' = auditLost
  <2>1. /\ Len(audit') = Len(audit) + 1 /\ audit'[Len(audit) + 1] = e
        /\ \A j \in 1..Len(audit) : audit'[j] = audit[j]
    BY <1>1, <1>2, <1>4
  <2>2. Emitted' = Emitted \cup {e}
    BY <1>2, <1>4, <2>1 DEF Emitted
  <2> DEFINE Before1(l, k) == \/ \E j \in 1..(k - 1) : l[j] = Placed(l[k].order)
                             \/ Placed(l[k].order) \in auditLost
  <2>5. ASSUME NEW k \in 1..Len(audit), Before1(audit, k) PROVE Before1(audit', k)
    BY <1>2, <2>1, <2>5
  <2>6. Placed(o) \in Emitted => Before1(audit', Len(audit) + 1)
    <3>1. ASSUME Placed(o) \in Emitted
          PROVE  Placed(o) \in auditLost \/ \E j \in 1..Len(audit) : audit[j] = Placed(o)
      BY <3>1 DEF Emitted
    <3>2. (Len(audit) + 1) - 1 = Len(audit)
      BY <1>2
    <3> QED
      BY <1>1, <2>1, <3>1, <3>2
  <2>3. ASSUME NEW k \in 1..Len(audit')
        PROVE  /\ audit'[k].type = "fill" => Before1(audit', k)
               /\ /\ audit'[k].type = "order_canceled" /\ audit'[k].order # NoOrder
                  /\ config.sink = "kafka"
                  => Before1(audit', k) \/ audit'[k].order \in shown
    <3>1. CASE k \in 1..Len(audit)
      <4>1. /\ audit[k].type = "fill" => Before1(audit, k)
            /\ /\ audit[k].type = "order_canceled" /\ audit[k].order # NoOrder
               /\ config.sink = "kafka"
               => Before1(audit, k) \/ audit[k].order \in shown
        BY <3>1 DEF AuditCausal
      <4>2. audit'[k] = audit[k]
        BY <2>1, <3>1
      <4> HIDE DEF Before1
      <4> QED
        BY <2>5, <3>1, <4>1, <4>2
    <3>2. CASE k = Len(audit) + 1
      <4>1. audit'[k].type = t /\ audit'[k].order = o
        BY <1>1, <2>1, <3>2
      <4> HIDE DEF Before1
      <4> QED
        BY <2>6, <3>2, <4>1
    <3> QED
      BY <1>2, <2>1, <3>1, <3>2
  <2>4. AuditCausal'
    BY <1>4, <2>3 DEF AuditCausal, Placed
  <2> QED
    BY <2>2, <2>4 DEF e
<1>5. CASE auditLost' = auditLost \cup {e} /\ audit' = audit
  <2>1. Emitted' = Emitted \cup {e}
    BY <1>5 DEF Emitted
  <2>2. AuditCausal'
    BY <1>5 DEF AuditCausal, Placed
  <2> QED
    BY <2>1, <2>2 DEF e
<1> QED
  BY <1>3, <1>4, <1>5

\* What was emitted and stored for a handler that does not move stays.
LEMMA TraceFrame ==
    ASSUME NEW q \in Requests, AuditedOK(q), StoredOK(q), config' = config,
           pc'[q] = pc[q], kind'[q] = kind[q], target'[q] = target[q],
           item'[q] = item[q], reply'[q] = reply[q],
           \A i \in 1..FillsPerOrder : bus'[<<q, i>>] = bus[<<q, i>>],
           Emitted \subseteq Emitted', storedOrders \subseteq storedOrders',
           storedFills \subseteq storedFills', storeErrors \subseteq storeErrors',
           shown \subseteq shown'
    PROVE  AuditedOK(q)' /\ StoredOK(q)'
<1>0. \A i \in 1..FillsPerOrder : Passed(q, i)' <=> Passed(q, i)
  BY DEF Passed
<1>1. AuditedOK(q)'
  BY <1>0 DEF AuditedOK, Placed, Filled
<1>2. StoredOK(q)'
  BY <1>0 DEF StoredOK, OrderKept, FillKept
<1> QED
  BY <1>1, <1>2

\* A step of one handler that leaves the audit log, the store and the bus.
LEMMA QuietTrace ==
    ASSUME Trace, NEW p \in Requests, UNCHANGED <<config, storeVars, auditVars, bus, shown>>,
           \A q \in Requests : q # p =>
               /\ pc'[q] = pc[q] /\ kind'[q] = kind[q] /\ target'[q] = target[q]
               /\ item'[q] = item[q] /\ reply'[q] = reply[q],
           AuditedOK(p)', StoredOK(p)'
    PROVE  Trace'
<1>1. UNCHANGED <<storedOrders, storedFills, storeErrors, audit, auditLost, Emitted>>
  BY DEF storeVars, auditVars, Emitted
<1>2. AuditCausal'
  BY <1>1 DEF Trace, AuditCausal, Placed
<1>3. ASSUME NEW q \in Requests, q # p PROVE AuditedOK(q)' /\ StoredOK(q)'
  BY <1>1, <1>3, TraceFrame DEF Trace
<1> QED
  BY <1>2, <1>3 DEF Trace

\* Requests arrive; a cancellation names an order the client knows of.
LEMMA ArriveTrace ==
    ASSUME IInv, Trace, NEW p \in Requests, Arrive(p)
    PROVE  Trace'
<1>0. TypeOK /\ HandlerOK(p) /\ AuditedOK(p) /\ StoredOK(p)
  BY DEF IInv, Trace
<1>1. /\ pc[p] = "idle" /\ UNCHANGED <<config, item, storeVars, auditVars, bus, shown>>
      /\ \A q \in Requests : q # p =>
           pc'[q] = pc[q] /\ kind'[q] = kind[q] /\ target'[q] = target[q] /\ reply'[q] = reply[q]
  BY <1>0 DEF TypeOK, Arrive, Unauthorized, Reject, AcceptOrder, AcceptCancel, AcceptBalances,
     AcceptRotate, Answer, Goto
<1>2. /\ pc'[p] \in {"done", "place", "cancel", "balances", "audit_rotate"}
      /\ reply'[p] # 200
      /\ pc'[p] = "cancel" => target'[p] \in Known \cup {NoOrder}
  <2>1. reply[p] # 200
    BY <1>0, <1>1 DEF HandlerOK, ControlOK
  <2> QED
    BY <1>0, <2>1 DEF TypeOK, Arrive, Unauthorized, Reject, AcceptOrder, AcceptCancel,
       AcceptBalances, AcceptRotate, Answer, Goto
<1>3. \A i \in 1..FillsPerOrder : bus[<<p, i>>] = 0
  BY <1>0, <1>1 DEF HandlerOK, FillOK
<1>4. \A q \in Known : config.sink = "kafka" => Placed(q) \in Emitted \/ q \in shown
  BY DEF Known, Trace, AuditedOK
<1>5. UNCHANGED Emitted
  BY <1>1 DEF auditVars, Emitted
<1>6. AuditedOK(p)'
  BY <1>1, <1>2, <1>3, <1>4, <1>5 DEF AuditedOK, Loop, Publishing, Placed, Filled, Passed
<1>7. StoredOK(p)'
  BY <1>1, <1>2, <1>3 DEF StoredOK, Loop, Publishing, Passed
<1> QED
  BY <1>1, <1>6, <1>7, QuietTrace

\* The connector, the context and the answer: nothing is emitted or stored.
LEMMA CallTrace ==
    ASSUME IInv, Trace, NEW p \in Requests,
           \/ DummyPlaceOrder(p) \/ ExchangePlaceOrder(p) \/ CancelOrder(p)
           \/ GetBalances(p) \/ ContextDone(p) \/ Reply(p)
    PROVE  Trace'
<1>0. TypeOK /\ HandlerOK(p) /\ AuditedOK(p) /\ StoredOK(p)
  BY DEF IInv, Trace
<1>1. /\ UNCHANGED <<config, kind, target, item, storeVars, auditVars, bus, shown>>
      /\ \A q \in Requests : q # p => pc'[q] = pc[q] /\ reply'[q] = reply[q]
  BY <1>0 DEF TypeOK, DummyPlaceOrder, ExchangePlaceOrder, CancelOrder, GetBalances,
     ContextDone, Reply, Answer, Goto, handlerVars
<1>2. /\ reply'[p] = 200 => reply[p] = 200 \/ pc[p] = "reply"
      /\ pc'[p] \in {"cancel", "audit_cancel"} => pc[p] \in {"cancel", "audit_cancel"}
      /\ pc'[p] = "record_order" \/ pc'[p] = "done" \/ pc'[p] = "audit_cancel"
           \/ pc'[p] = pc[p]
           \/ (kind[p] = "balances" /\ pc'[p] \in {"audit_item", "reply"})
  BY <1>0 DEF TypeOK, DummyPlaceOrder, ExchangePlaceOrder, CancelOrder, GetBalances,
     ContextDone, Reply, Answer, Goto, handlerVars, HandlerOK, ControlOK
<1>3. UNCHANGED Emitted
  BY <1>1 DEF auditVars, Emitted
<1>4. UNCHANGED <<storedOrders, storedFills, storeErrors>>
  BY <1>1 DEF storeVars
<1>7. \A i \in 1..FillsPerOrder : kind[p] = "order" /\ Passed(p, i)' => Passed(p, i)
  BY <1>0, <1>1, <1>2 DEF Passed, Loop, Publishing, HandlerOK, ControlOK
<1>5. AuditedOK(p)'
  BY <1>0, <1>1, <1>2, <1>3, <1>7 DEF AuditedOK, Loop, Publishing, Placed, Filled
<1>6. StoredOK(p)'
  BY <1>0, <1>1, <1>2, <1>4, <1>7 DEF StoredOK, OrderKept, FillKept, Loop, Publishing
<1> QED
  BY <1>1, <1>5, <1>6, QuietTrace

\* The row of the order, and those of its fills.
LEMMA StoreTrace ==
    ASSUME IInv, Trace, NEW p \in Requests, RecordOrder(p) \/ RecordFill(p)
    PROVE  Trace'
<1>0. TypeOK /\ HandlerOK(p) /\ AuditedOK(p) /\ StoredOK(p) /\ AuditCausal
  BY DEF IInv, Trace
<1>1. /\ UNCHANGED <<config, kind, target, reply, audit, auditLost, bus, shown>>
      /\ \A q \in Requests : q # p => pc'[q] = pc[q] /\ item'[q] = item[q]
  BY <1>0 DEF TypeOK, RecordOrder, RecordFill, Goto, auditVars
<1>2. /\ storedOrders \subseteq storedOrders' /\ storedFills \subseteq storedFills'
      /\ storeErrors \subseteq storeErrors'
  BY DEF RecordOrder, RecordFill
<1>3. UNCHANGED Emitted /\ AuditCausal'
  BY <1>0, <1>1 DEF Emitted, AuditCausal, Placed
<1>4. kind[p] = "order" /\ item[p] \in 1..FillsPerOrder /\ pc[p] \in {"record_order", "record_fill"}
      /\ (pc[p] = "record_order" => item[p] = 1)
      /\ \A i \in 1..FillsPerOrder : bus[<<p, i>>] = 0
  BY <1>0 DEF HandlerOK, ControlOK, FillOK, Before, RecordOrder, RecordFill
<1>5. reply[p] # 200 /\ pc'[p] \in {"record_fill", "audit_order"}
  BY <1>0 DEF TypeOK, RecordOrder, RecordFill, Goto, HandlerOK, ControlOK
<1>6. AuditedOK(p)'
  BY <1>1, <1>4, <1>5 DEF AuditedOK, Loop, Publishing, Passed
<1>7. StoredOK(p)'
  <2> SUFFICES ASSUME config.store = "postgres"
               PROVE  /\ OrderKept(p)'
                      /\ \A i \in 1..FillsPerOrder :
                           /\ pc'[p] = "record_fill" /\ i < item'[p] => FillKept(p, i)'
                           /\ pc'[p] = "audit_order" => FillKept(p, i)'
    BY <1>1, <1>4, <1>5 DEF StoredOK, Loop, Publishing, Passed
  <2>1. CASE RecordOrder(p)
    <3>1. OrderKept(p)'
      BY <2>1 DEF RecordOrder, OrderKept
    <3>2. pc'[p] = "record_fill" /\ item'[p] = 1
      BY <1>0, <1>4, <2>1 DEF TypeOK, RecordOrder, Goto
    <3> QED
      BY <3>1, <3>2
  <2>2. CASE RecordFill(p)
    <3>1. OrderKept(p)'
      BY <1>0, <1>2, <1>4, <2>2 DEF RecordFill, StoredOK, OrderKept
    <3>2. ASSUME NEW i \in 1..FillsPerOrder, i <= item[p] PROVE FillKept(p, i)'
      <4>1. CASE i = item[p]
        <5>1. PICK ok \in StoreOutcomes :
                /\ storedFills' = IF ok THEN storedFills \cup {<<p, item[p]>>} ELSE storedFills
                /\ storeErrors' = IF ok THEN storeErrors ELSE storeErrors \cup {<<p, item[p]>>}
          BY <2>2 DEF RecordFill
        <5> QED
          BY <4>1, <5>1 DEF FillKept
      <4>2. CASE i < item[p]
        BY <1>0, <1>2, <2>2, <4>2 DEF RecordFill, StoredOK, FillKept
      <4> QED
        BY <1>4, <3>2, <4>1, <4>2, SizesAssumption
    <3>3. /\ pc'[p] = "record_fill" => item'[p] = item[p] + 1
          /\ pc'[p] = "audit_order" => ~ (item[p] < FillsPerOrder)
      BY <1>0, <2>2 DEF TypeOK, RecordFill, Goto
    <3> QED
      BY <1>4, <3>1, <3>2, <3>3, SizesAssumption
  <2> QED
    BY <2>1, <2>2
<1>8. ASSUME NEW q \in Requests, q # p PROVE AuditedOK(q)' /\ StoredOK(q)'
  BY <1>1, <1>2, <1>3, <1>8, TraceFrame DEF Trace
<1> QED
  BY <1>3, <1>6, <1>7, <1>8 DEF Trace

\* A handler emits an event.
LEMMA EmissionTrace ==
    ASSUME IInv, Trace, NEW p \in Requests,
           AuditOrder(p) \/ AuditItem(p) \/ AuditCancel(p) \/ AuditRotate(p)
    PROVE  Trace'
<1>0. TypeOK /\ HandlerOK(p) /\ AuditedOK(p) /\ StoredOK(p) /\ AuditCausal
  BY DEF IInv, Trace
<1>1. /\ UNCHANGED <<config, kind, target, item, reply, storedOrders, storedFills, storeErrors,
                     bus, shown>>
      /\ \A q \in Requests : q # p => pc'[q] = pc[q]
      /\ pc'[p] \in {"audit_item", "publish", "reply"}
  BY <1>0 DEF TypeOK, AuditOrder, AuditItem, AuditCancel, AuditRotate, Goto, storeVars
<1>2. ControlOK(p) /\ item[p] \in Nat /\ NoOrder \notin Requests
  BY <1>0, RequestsAssumption DEF HandlerOK, TypeOK
<1>3. PICK t \in {"order_placed", "fill", "order_canceled", "balance_snapshot",
                  "credential_rotation"},
           o \in Requests \cup {NoOrder}, i \in Nat :
        /\ Emit(t, o, i)
        /\ t = "fill" => Placed(o) \in Emitted
        /\ t = "order_canceled" /\ o # NoOrder /\ config.sink = "kafka"
               => Placed(o) \in Emitted \/ o \in shown
        /\ pc[p] = "audit_order" => t = "order_placed" /\ o = p /\ i = 0
        /\ pc[p] = "audit_item" /\ kind[p] = "order" => t = "fill" /\ o = p /\ i = item[p]
  <2>1. CASE AuditOrder(p)
    <3>1. Emit("order_placed", p, 0) /\ pc[p] = "audit_order"
      BY <2>1 DEF AuditOrder
    <3> QED
      BY <3>1
  <2>2. CASE AuditItem(p) /\ kind[p] = "order"
    <3>1. Emit("fill", p, item[p]) /\ pc[p] = "audit_item" /\ Placed(p) \in Emitted
      BY <1>0, <2>2 DEF AuditItem, AuditedOK, Loop
    <3> QED
      BY <1>2, <3>1
  <2>3. CASE AuditItem(p) /\ kind[p] # "order"
    <3>1. Emit("balance_snapshot", NoOrder, item[p]) /\ pc[p] = "audit_item"
      BY <2>3 DEF AuditItem
    <3> QED
      BY <1>2, <2>3, <3>1
  <2>4. CASE AuditCancel(p)
    <3>1. /\ Emit("order_canceled", target[p], 0) /\ pc[p] = "audit_cancel"
          /\ target[p] \in Requests \cup {NoOrder}
          /\ target[p] # NoOrder /\ config.sink = "kafka"
               => Placed(target[p]) \in Emitted \/ target[p] \in shown
      BY <1>0, <2>4 DEF AuditCancel, AuditedOK, TypeOK
    <3> QED
      BY <3>1
  <2>5. CASE AuditRotate(p)
    <3>1. Emit("credential_rotation", NoOrder, 0) /\ pc[p] = "audit_rotate"
      BY <2>5 DEF AuditRotate
    <3> QED
      BY <3>1
  <2> QED
    BY <2>1, <2>2, <2>3, <2>4, <2>5
<1>4. /\ AuditCausal'
      /\ Emitted' = Emitted \cup {[type |-> t, order |-> o, item |-> i]}
  BY <1>0, <1>1, <1>3, EmitTrace
<1>5. /\ pc[p] = "audit_order" => Placed(p) \in Emitted'
      /\ pc[p] = "audit_item" /\ kind[p] = "order" =>
           Placed(p) \in Emitted' /\ Filled(<<p, item[p]>>) \in Emitted'
      /\ Emitted \subseteq Emitted'
  <2>1. pc[p] = "audit_order" => Placed(p) \in Emitted'
    BY <1>3, <1>4 DEF Placed
  <2>2. pc[p] = "audit_item" /\ kind[p] = "order" => Filled(<<p, item[p]>>) \in Emitted'
    BY <1>3, <1>4 DEF Filled
  <2>3. pc[p] = "audit_item" /\ kind[p] = "order" => Placed(p) \in Emitted
    BY <1>0 DEF AuditedOK, Loop
  <2> QED
    BY <1>4, <2>1, <2>2, <2>3
<1>6. /\ kind[p] = "order" => pc[p] \in {"audit_order", "audit_item"}
      /\ pc'[p] = "publish" => pc[p] = "audit_item"
      /\ pc[p] \in {"audit_order", "audit_item", "audit_cancel", "audit_rotate"}
  BY <1>0, <1>2 DEF TypeOK, AuditOrder, AuditItem, AuditCancel, AuditRotate, Goto, ControlOK
<1>10. /\ kind[p] = "order" => pc'[p] \in Loop /\ reply[p] # 200 /\ item[p] \in Nat
       /\ pc[p] = "audit_order" => item[p] = 1
  BY <1>0, <1>1, <1>2, <1>6 DEF AuditOrder, AuditItem, AuditCancel, AuditRotate, Goto, TypeOK,
     ControlOK, Before, Loop, Publishing
<1>11. \A k \in 1..FillsPerOrder : kind[p] = "order" /\ Passed(p, k)' => Passed(p, k)
  BY <1>1, <1>6, <1>10, SizesAssumption DEF Passed, Loop, Publishing
<1>7. AuditedOK(p)'
  BY <1>0, <1>1, <1>5, <1>6, <1>11 DEF AuditedOK, Loop, Publishing, Placed, Filled
<1>8. StoredOK(p)'
  BY <1>0, <1>1, <1>6, <1>11 DEF StoredOK, OrderKept, FillKept, Loop, Publishing
<1>9. ASSUME NEW q \in Requests, q # p PROVE AuditedOK(q)' /\ StoredOK(q)'
  BY <1>1, <1>5, <1>9, TraceFrame DEF Trace
<1> QED
  BY <1>4, <1>7, <1>8, <1>9 DEF Trace

\* The publish loop: a copy goes on the bus only for the fill whose turn it is.
LEMMA PublishTrace ==
    ASSUME IInv, Trace, NEW p \in Requests,
           \/ PublishDisabled(p) \/ PublishOk(p) \/ PublishErr(p) \/ RetryTimer(p) \/ GiveUp(p)
    PROVE  Trace'
<1>0. TypeOK /\ HandlerOK(p) /\ AuditedOK(p) /\ StoredOK(p) /\ AuditCausal
  BY DEF IInv, Trace
<1>1. /\ UNCHANGED <<config, kind, target, reply, storedOrders, storedFills, storeErrors,
                     audit, auditLost, shown>>
      /\ pc[p] \in Publishing
  BY DEF PublishDisabled, PublishOk, PublishErr, RetryTimer, GiveUp, storeVars, auditVars,
     Publishing
<1>12. NextItem(p) =>
         \/ pc'[p] = "audit_item" /\ item'[p] = item[p] + 1
         \/ pc'[p] = "reply" /\ (kind[p] = "order" => item[p] >= FillsPerOrder)
  BY <1>0, SizesAssumption DEF TypeOK, NextItem, Goto, Items
<1>13. \/ NextItem(p)
       \/ pc'[p] \in Publishing /\ item' = item
  BY <1>0 DEF TypeOK, PublishDisabled, PublishOk, PublishErr, RetryTimer, GiveUp, Goto,
     Publishing
<1>14. \A q \in Requests : q # p => pc'[q] = pc[q] /\ item'[q] = item[q]
  BY <1>0 DEF TypeOK, PublishDisabled, PublishOk, PublishErr, RetryTimer, GiveUp, NextItem,
     Goto
<1>2. /\ \A q \in Requests : q # p => pc'[q] = pc[q] /\ item'[q] = item[q]
      /\ \/ pc'[p] = "audit_item" /\ item'[p] = item[p] + 1
         \/ pc'[p] = "reply" /\ (kind[p] = "order" => item[p] >= FillsPerOrder)
         \/ pc'[p] \in Publishing /\ item'[p] = item[p]
  BY <1>12, <1>13, <1>14
<1>3. kind[p] = "order" => item[p] \in 1..FillsPerOrder
  BY <1>0 DEF HandlerOK, ControlOK
<1>4. bus' = bus \/ \E n \in 0..WriterAttempts : bus' = OnBus(p, n)
  BY SizesAssumption DEF PublishDisabled, PublishOk, PublishErr, RetryTimer, GiveUp
<1>5. \A q \in Requests, i \in 1..FillsPerOrder :
        bus'[<<q, i>>] = bus[<<q, i>>] \/ (kind[p] = "order" /\ q = p /\ i = item[p])
  <2>1. CASE bus' = bus
    BY <2>1
  <2>2. ASSUME NEW n \in 0..WriterAttempts, bus' = OnBus(p, n),
               NEW q \in Requests, NEW i \in 1..FillsPerOrder
        PROVE  bus'[<<q, i>>] = bus[<<q, i>>] \/ (kind[p] = "order" /\ q = p /\ i = item[p])
    <3>1. q # p \/ i # item[p] => OnBus(p, n)[<<q, i>>] = bus[<<q, i>>]
      BY <1>0, <1>3, OnBusFacts
    <3>2. kind[p] # "order" => OnBus(p, n) = bus
      BY <1>0, <1>3, OnBusFacts
    <3> QED
      BY <2>2, <3>1, <3>2
  <2> QED
    BY <1>4, <2>1, <2>2
<1>6. UNCHANGED Emitted /\ AuditCausal'
  BY <1>0, <1>1 DEF Emitted, AuditCausal, Placed
<1>11. \A i \in 1..FillsPerOrder :
         kind[p] = "order" /\ Passed(p, i)' => Passed(p, i) \/ i = item[p]
  BY <1>0, <1>1, <1>2, <1>3, SizesAssumption DEF Passed, Loop, Publishing, HandlerOK, ControlOK
<1>7. reply[p] # 200 /\ pc[p] \notin {"cancel", "audit_cancel"}
  BY <1>0, <1>1 DEF HandlerOK, ControlOK, Publishing
<1>8. AuditedOK(p)'
  <2>1. kind[p] = "order" => Placed(p) \in Emitted /\ Filled(<<p, item[p]>>) \in Emitted
    BY <1>0, <1>1 DEF AuditedOK, Loop
  <2>2. ASSUME NEW i \in 1..FillsPerOrder, bus'[<<p, i>>] > 0, config.sink = "kafka"
        PROVE  Placed(p) \in Emitted /\ Filled(<<p, i>>) \in Emitted
    BY <1>0, <1>5, <2>1, <2>2 DEF AuditedOK
  <2> QED
    BY <1>0, <1>1, <1>2, <1>6, <1>7, <1>11, <2>1, <2>2
       DEF AuditedOK, Loop, Publishing, Placed, Filled
<1>9. StoredOK(p)'
  <2>1. kind[p] = "order" /\ config.store = "postgres" =>
          OrderKept(p) /\ \A i \in 1..FillsPerOrder : FillKept(p, i)
    BY <1>0, <1>1 DEF StoredOK, Loop
  <2>2. ASSUME NEW i \in 1..FillsPerOrder, bus'[<<p, i>>] > 0, config.store = "postgres"
        PROVE  OrderKept(p) /\ FillKept(p, i)
    BY <1>0, <1>5, <2>1, <2>2 DEF StoredOK
  <2> QED
    BY <1>1, <1>2, <2>1, <2>2 DEF StoredOK, OrderKept, FillKept, Loop, Publishing
<1>10. ASSUME NEW q \in Requests, q # p PROVE AuditedOK(q)' /\ StoredOK(q)'
  BY <1>1, <1>2, <1>5, <1>6, <1>10, TraceFrame DEF Trace
<1> QED
  BY <1>6, <1>8, <1>9, <1>10 DEF Trace

\* A crash: the Kafka log and the Postgres rows stay, the others are gone with
\* every handler that ran.
LEMMA CrashTrace ==
    ASSUME IInv, Trace, Crash
    PROVE  Trace'
<1>1. /\ UNCHANGED <<config, kind, target, item, reply, storeErrors, auditLost, bus, shown>>
      /\ config.sink # "memory" => audit' = audit
      /\ config.store # "memory" => UNCHANGED <<storedOrders, storedFills>>
      /\ audit' = <<>> \/ audit' = audit
  BY DEF Crash
<1>2. \A q \in Requests : pc'[q] = IF pc[q] \in Running THEN "crashed" ELSE pc[q]
  BY DEF Crash
<1>3. AuditCausal'
  <2>1. CASE audit' = <<>>
    BY <2>1 DEF AuditCausal
  <2>2. CASE audit' = audit
    BY <1>1, <2>2 DEF Trace, AuditCausal, Placed
  <2> QED
    BY <1>1, <2>1, <2>2
<1>4. ASSUME NEW q \in Requests PROVE AuditedOK(q)' /\ StoredOK(q)'
  <2>1. AuditedOK(q) /\ StoredOK(q)
    BY DEF Trace
  <2>2. pc'[q] \notin {"record_fill", "audit_order", "reply", "cancel", "audit_cancel"} \cup Loop
    BY <1>2 DEF Running, Loop, Publishing, Storing
  <2>3. config.sink = "kafka" => Emitted' = Emitted
    BY <1>1 DEF Emitted
  <2>6. \A i \in 1..FillsPerOrder : Passed(q, i)' => Passed(q, i)
    BY <1>1, <1>2, <2>2 DEF Passed
  <2>4. AuditedOK(q)'
    BY <1>1, <2>1, <2>2, <2>3, <2>6 DEF AuditedOK, Loop, Placed, Filled
  <2>5. StoredOK(q)'
    BY <1>1, <2>1, <2>2, <2>6 DEF StoredOK, OrderKept, FillKept
  <2> QED
    BY <2>4, <2>5
<1> QED
  BY <1>3, <1>4 DEF Trace

\* GET /admin/status only shows.
LEMMA StatusTrace ==
    ASSUME Trace, NEW p \in Requests, AdminStatus(p)
    PROVE  Trace'
<1>1. /\ UNCHANGED <<config, pc, kind, target, item, reply, bus, audit, auditLost, Emitted,
                     storedOrders, storedFills, storeErrors>>
      /\ shown \subseteq shown'
  BY DEF AdminStatus, handlerVars, storeVars, auditVars, Emitted
<1>2. AuditCausal'
  BY <1>1 DEF Trace, AuditCausal, Placed
<1>3. ASSUME NEW q \in Requests PROVE AuditedOK(q)' /\ StoredOK(q)'
  BY <1>1, TraceFrame DEF Trace
<1> QED
  BY <1>2, <1>3 DEF Trace

\* Every step keeps the trace, given the invariant of the handlers.
LEMMA StepTrace == IInv /\ Trace /\ [Next]_vars => Trace'
<1> SUFFICES ASSUME IInv, Trace, [Next]_vars PROVE Trace'
  OBVIOUS
<1>1. ASSUME NEW p \in Requests, Arrive(p) \/ Handle(p) \/ ContextDone(p) PROVE Trace'
  BY <1>1, ArriveTrace, CallTrace, StoreTrace, EmissionTrace, PublishTrace DEF Handle
<1>2. CASE Crash
  BY <1>2, CrashTrace
<1>4. ASSUME NEW p \in Requests, AdminStatus(p) PROVE Trace'
  BY <1>4, StatusTrace
<1>3. CASE UNCHANGED vars
  <2>1. AuditCausal' /\ UNCHANGED Emitted
    BY <1>3 DEF Trace, AuditCausal, Placed, Emitted, vars
  <2>2. \A q \in Requests : AuditedOK(q)' /\ StoredOK(q)'
    BY <1>3, <2>1, TraceFrame DEF Trace, vars
  <2> QED
    BY <2>1, <2>2 DEF Trace
<1> QED
  BY <1>1, <1>2, <1>3, <1>4 DEF Next

\* The trace holds throughout.
LEMMA InductiveTrace == Spec => []Trace
<1>1. Init => Trace
  <2> SUFFICES ASSUME Init PROVE Trace
    OBVIOUS
  <2>1. AuditCausal
    BY DEF Init, AuditCausal
  <2>2. ASSUME NEW q \in Requests PROVE AuditedOK(q) /\ StoredOK(q)
    <3>1. \A i \in 1..FillsPerOrder : bus[<<q, i>>] = 0
      BY FillPairs DEF Init
    <3>2. AuditedOK(q)
      BY <3>1 DEF Init, AuditedOK, Loop, Publishing, Passed
    <3>3. StoredOK(q)
      BY <3>1 DEF Init, StoredOK, Loop, Publishing, Passed
    <3> QED
      BY <3>2, <3>3
  <2> QED
    BY <2>1, <2>2 DEF Trace
<1> QED
  BY <1>1, Inductive, StepTrace, PTL DEF Spec

\* However handlers interleave and wherever a crash falls, no fill, and with the
\* Kafka sink no cancellation of an order the gateway issued, is taken by the audit
\* sink before the placement of its order, but for a cancellation whose client had
\* the id from GET /admin/status (server.go:102-113, 216-296).
THEOREM AuditOrdered == Spec => []AuditCausal
<1>1. Trace => AuditCausal
  BY DEF Trace
<1> QED
  BY <1>1, InductiveTrace, PTL

\* A fill of an order answered 200 is missing from the bus only after all attempts
\* failed or because its request's context ended; the audit topic and the database
\* have it unless that very write failed (server.go:187-246, events.go:137, 162-185).
THEOREM NoFillForgotten == Spec => []FillsAccounted
<1>1. IInv /\ Trace => FillsAccounted
  <2> SUFFICES ASSUME IInv, Trace, NEW q \in Requests, NEW i \in 1..FillsPerOrder,
                      config.bus = "kafka", kind[q] = "order", reply[q] = 200, bus[<<q, i>>] = 0
               PROVE  /\ <<q, i>> \in deadLetter \/ q \in ctxDone
                      /\ config.sink = "kafka" => Filled(<<q, i>>) \in Emitted
                      /\ config.store = "postgres" => <<q, i>> \in storedFills \cup storeErrors
    BY DEF FillsAccounted, Fills
  <2>1. ControlOK(q) /\ FillOK(q, i) /\ AuditedOK(q) /\ StoredOK(q)
    BY DEF IInv, HandlerOK, Trace
  <2>2. Passed(q, i)
    BY <2>1 DEF ControlOK, Passed
  <2>3. Accounted(<<q, i>>)
    BY <2>1, <2>2 DEF FillOK
  <2>4. config.sink = "kafka" => Filled(<<q, i>>) \in Emitted
    BY <2>1, <2>2 DEF AuditedOK
  <2>5. config.store = "postgres" => FillKept(q, i)
    BY <2>1, <2>2 DEF StoredOK
  <2> QED
    BY <2>3, <2>4, <2>5 DEF Accounted, FillKept
<1> QED
  BY <1>1, Inductive, InductiveTrace, PTL

\* A fill on the bus can be traced to its audit events and its rows, unless the
\* write of that very event or row failed (server.go:187-246).
THEOREM Traceable == Spec => []BusTraceable
<1>1. Trace => BusTraceable
  <2> SUFFICES ASSUME Trace, NEW q \in Requests, NEW i \in 1..FillsPerOrder, bus[<<q, i>>] > 0
               PROVE  /\ config.sink = "kafka" =>
                            {Placed(q), Filled(<<q, i>>)} \subseteq Emitted
                      /\ config.store = "postgres" =>
                            /\ q \in storedOrders \/ <<q, 0>> \in storeErrors
                            /\ <<q, i>> \in storedFills \/ <<q, i>> \in storeErrors
    BY DEF BusTraceable, Fills
  <2>1. AuditedOK(q) /\ StoredOK(q)
    BY DEF Trace
  <2>2. config.sink = "kafka" => Placed(q) \in Emitted /\ Filled(<<q, i>>) \in Emitted
    BY <2>1 DEF AuditedOK
  <2>3. config.store = "postgres" => OrderKept(q) /\ FillKept(q, i)
    BY <2>1 DEF StoredOK
  <2> QED
    BY <2>2, <2>3 DEF OrderKept, FillKept
<1> QED
  BY <1>1, InductiveTrace, PTL
=============================================================================
