# gateway-exchange: verification project

TLA+ models of the exchange gateway (`cmd/gateway-exchange`, `internal/*`), the
TLC configurations that check them on small instances and TLAPS proofs of the
results that matter most.  File and line references are to the repository.

## 1. The system

| part | state | operations | interacts with |
|---|---|---|---|
| HTTP handlers (`server/server.go`) | none of their own; one goroutine per request | place, cancel, balances, rotate-credentials (audits only); admin status (shows the dummy's last fill); read-only: status, fills, book, health | connector, store, audit sink, bus, book aggregator |
| Event bus (`events/events.go`) | retry limit, dead letter handler (one that does nothing, as wired) | `PublishFill`, `PublishBalance`: attempts with growing pauses, bound to the request context | Kafka |
| Order store (`store/store.go`, `store/postgres`) | orders and fills | `RecordOrder`, `RecordFill` (insert or ignore), reads | Postgres |
| Audit sinks (`audit/*.go`) | log in memory, or a Kafka topic; `AsyncSink`: queue, drop counter | `Emit` (no result), `Close` | Kafka, a delegate sink |
| Dummy venue (`venue/dummy.go`) | orders, fills | fills every order at once, cancels without refusing | |
| OTC connector (`adapters/otc`) | orders, fills, `RPSLimiter` | RFQ + accept, single REST calls | the desk |
| Kraken connector (`adapters/kraken/kraken.go`) | nonce, `CounterLimiter` | signed private calls | Kraken |
| Binance connector (`adapters/binance/binance.go`) | timestamp counter, `WeightedLimiter` | signed calls, header feedback | Binance |
| Book feed (`adapters/binance/book.go`, `ws/ws.go`, `book/book.go`) | per pair: levels, `lastSeq`; a channel of 64; latest top of book | snapshot, diff, gap, refresh, reconnect, consume | Binance REST and web socket |
| Web socket client (`ws/ws.go`) | socket, closed flag | `Connect`, `WriteJSON`, `Run` with back-off, `Close` | the feeds, their contexts |
| Kraken book feed (`adapters/kraken/book.go`) | the same reconstructor | subscribe, snapshot or diff from the array message | Kraken web socket |
| Secrets manager (`secrets/*.go`) | current credentials; rows of rotations | `Load`, `Rotate`, `RevokeOld`, `RecordCredentials` | Vault, the venue (probe) |
| Migrations (`store/migrations`) | applied versions | `Up` (every start), `Down` (operator) | Postgres, other replicas |
| Service tokens (`authtoken`), metrics, tracing | none that decides anything | | |
| Start-up (`cmd/gateway-exchange/main.go`) | | chooses connector, store, sink and bus from the environment | all |

What is hard here: handlers interleave and die with the process between the
store, the audit log and the bus; the bus may take a message and lose the
acknowledgement while the request's deadline runs; limiters count in windows that
are not the venue's; answers come back out of order and feed the limiter; nonces
are taken before the request is admitted and sent; the book is built from
snapshots and diffs that race, across reconnections and failed refreshes; a full
channel drops; replicas migrate one database at the same time; credentials are
rotated while they are read; closing a sink or a socket races its users.  `PROJECT.json` lists each of these as a hazard at its line.

## 2. The modules

`OrderFlow` (MC: `MCOrderFlow`) is the order path.  A request is one handler
goroutine; `pc[p]` is the call it is about to make, and each action is one such
call with everything it changes, so that handlers interleave and `Crash` can fall
between any two calls.  `config` is the wiring `main` chose: the dummy venue or an
exchange, memory or Postgres, memory or Kafka audit, with or without a bus.
Postgres inserts may fail (the handler discards the error, `storeErrors` keeps
it), the Kafka sink may drop an event (`auditLost`), and an attempt to publish may
fail with or without the message having reached the bus (`PublishErr`).  Within one
attempt `kafka.Writer` retries by itself (`MaxAttempts` is left at 10) and is not
idempotent, so an attempt leaves up to `WriterAttempts` copies.  `deadLetter` names the
fills handed to the dead letter handler; that handler keeps nothing (`events.go:137`,
never replaced by `main`), and no property counts it as a place where a fill is.  The
context is allowed to end where the code looks at it, in the publish loop
(`ContextDone`, `GiveUp`).  A crash loses what lived in memory, the dummy venue
included.  Order ids are fresh uuids in the code and the placing request here.  A
client knows an order from the answer or from `GET /admin/status`, which shows the last
fill of the dummy venue from the moment it is made (`AdminStatus`, `shown`).  `audit` is
the order in which events are emitted, and their time stamps with it; the Kafka topic,
written with the `LeastBytes` balancer, has no order across its partitions.
A client retry is a second request with the same `Intent`.  A graceful stop
(`srv.Shutdown`, then the publisher is closed) adds nothing to this: a handler that
outlives its 5 s is cut off like one that crashes, and one that publishes meanwhile
gets an error.

`OtcConnector`, `KrakenConnector`, `BinanceConnector` model one connector each,
with its limiter, callers that interleave, a clock, and the venue as its
environment.  A limiter's `Wait` runs under its mutex and is one action: `Send`
when it admits, `Limited` when it does not.  The venue (external) executes,
refuses, throttles or stays silent, answers are read in any order.  A call that ends with
a transport error or a timeout leaves its request on the wire (`GiveUp`), where it may
still reach the venue and be counted (`OrphanArrives`, `OrphanProcessed`) or be lost.
The OTC desk decides on an accepted quote before or after it answers, and any answer but
a 200 or a 429 takes the same path, an error after the trade included (`RespondFailed`).
The connector reports what the answer says and checks nothing (`AcceptOk`).  So that the
limiter can be judged against what the venue measures, the venue's own window or
counter is part of the model: the OTC observer may open a window at any instant;
Kraken's counter is charged when a request arrives and decays, Binance's window turns,
at a phase chosen in `Init`.  `late` are the requests on the wire over a decay of
Kraken's and `lateCost` what such requests have added to its counter.  Binance also
meters the book feed's snapshots (`RefreshSnapshot`), which ask neither limiter nor
backoff (`binance/book.go:97`) and whose answers tell neither; its header and its 429
count them in.
`Restart` of `KrakenConnector` is a new process: the nonce starts from the clock, the
limiter from nothing, and requests on the wire still arrive.
The connectors are used here with a client order id; the handlers never give them
one, so that an order sent through the handlers to a real exchange is always
refused (`ExchangePlaceOrder` of `OrderFlow`; `server.go:173`).

`BookFeed` is the Binance feed of one pair.  The venue numbers its changes and a
quantity is named by the change that set it.  A removal is written in a text that
`ApplyDiff` deletes ("0", "") or in one that it stores like any quantity ("0.00000000",
`Zero`; `ws.go:207,214`).  Depth events batch the levels touched since the last event,
snapshots show the best `Depth` levels (100) of the book of some instant between request
and answer, the socket may be cut at any time and a reconnection may land on a node that
is behind.  `hole`, `covered` and `seen` are history variables.  A failed dial is
retried by `Run` without any effect, so only the dial that succeeds is an action.
`LatestRegister` is what a reader of `GET /v1/book` is promised; `BookFeed`
implements it under `produced <- emits, shown <- latest`.

`WsClient` is the reconnecting client: `Connect`, `WriteJSON`, the loop of `Run`
split where it takes or releases its lock and where it blocks, and `Close` and the
cancelled context from other goroutines.  `KrakenFeed` extends it with the Kraken
feed: Kraken's messages, the handler, the reconstructor and the sorted levels of an
update.  Prices are sequences of characters, digits with the decimal point before a fixed
number of them, because the code compares them as strings.  Kraken sends the best
`BookDepth` levels (100) and does not say which level another one pushed out (`fell`);
a level that goes is written in a text that is deleted or in one that is stored
(`zero`).  Kraken sends to sockets that subscribed or, as the servers of the tests do,
to every socket (`unasked`): the socket the code reads is never subscribed, so that
whatever is said of a book that is built rests on the second case.
`Run` of both feeds is the same code; `BookFeed` keeps its own, smaller view of it
(`Dial`, `ReadError`) because its subject is the sequence numbers.  `Close` and the
cancelled context are the client's interface: the feeds never call `Close`, and
`NewService` drops its cancel function (`server.go:37-38`).

`AsyncSink` is the asynchronous audit sink: emitters, the queue, the loop goroutine
and closers.  A send on the closed channel panics in the goroutine that emits.  It
implements `LossyLog`, the promise of a sink that does not block.  `main` does not
wire it; it uses the Kafka sink directly.

`SecretsManager` is the manager with its callers; the vault (external) gets a new key
and then a new secret, and the version of the key names the lease.  `leased` chooses
between such a vault and the `EnvVault` of the code, which grants no leases.

`Startup` is `main` of several replicas with one environment and one database:
each choice and refusal in the code's order, `postgres.Open` with the statements of
`Runner.Up` one by one, a failing statement that may have taken effect all the same,
crashes anywhere, and an operator's `Runner.Down`.  Each `Up` file is written to be
run again (`IF NOT EXISTS`) and is sent as one implicit transaction.

## 3. What the runs show

Passing runs:

| run | question | bounds | states |
|---|---|---|---|
| `order_flow` | audit order, traceability of bus events, what is left of a fill that never reached the bus | 2 requests of any kind, 1 retry, 2 assets, 1 crash, 4 wirings | 4.33 M |
| `order_live` | every request is answered unless the process dies; copies of a fill | 1 request, 2 fills, 3 assets, 3 retries, 2 attempts of the writer, 1 crash | 475 k |
| `otc` | bursts, silence after a 429, `PlaceOrder`'s result against the desk | 2 callers, limit 2, window 2, backoff 3, clock 5 | 1.64 M |
| `kraken` | Kraken's counter, silence after a 429, nonces, across a restart | 2 callers, budget 3, costs 2 and 1, decay 2, clock 4, 4 nonces, 1 restart | 5.77 M |
| `binance` | Binance's meter, silence of the signed calls after a 429 | 2 callers, budget 3, weights 1, 2, 3, 1 snapshot a window, window 3, backoff 2, clock 6, 6 calls | 5.32 M |
| `book` | exactness, gap detection, refinement of the register | 2 bid levels and 1 ask level, snapshots of depth 1, channel of 2, 4 changes | 3.32 M |
| `sink` | one close, counted drops, refinement of the lossy log, `Emit` ends, delivery | 2 emitters, 2 closers, queue of 2, 3 events each | 46 k |
| `secrets` | when the lease in use is lost, what a probe is worth, the record, calls end | 2 goroutines, 3 versions, 3 calls | 516 k |
| `startup` | complete schema, records and tables, no stub in production, replicas come up | 2 replicas, 2 migrations, 28 environments, 1 fault, 1 `Down` | 554 k |
| `kraken_feed` | leaked sockets, exact book, order of levels, `Close` and cancellation end `Run` | 3 bids (9.9, 10.0, 10.1), 1 ask, depth 2 of update and subscription, 2 messages, 3 dials | 563 k |

Two requests suffice to have a retry, a cancellation of the other's order while it
is still being handled and concurrent audit events; no action looks at more than two.
Times and budgets are scaled down so that a window, a backoff and the start of the
next window all fit before the bound on the clock.  Four changes give a snapshot,
a sequenced diff, a gap and a stale event; two levels against a depth of one give a
level that a snapshot does not show, with one side left to be whole.
A queue of two is full while the loop holds a third event.  Three versions let two rotations overlap a load.  The 28
environments are a complete production and a bare development one and every
deviation in one setting; one fault is a crash or a failed statement at any point of
either replica or of `Down`.  Three dials are the socket of `Connect`, the one of
`Run` and one reconnection; once they are used up every further dial fails, which
`Run` retries.  Prices of two widths show where string order departs from value; three
bids against a depth of two push a level out, and Kraken may start with two.  The
runs set `CHECK_DEADLOCK FALSE` because the bounds (requests, clock, changes, calls)
end every behaviour.

Fairness.  `order_live`: weak fairness of each handler, that is, goroutines are
scheduled and calls of connector, store, sink and publisher return; the retry timer
fires.  Clients, crashes and the end of a context are not assumed.  Postgres calls run
without a deadline (`postgres.go:56`): that they return is an assumption here, not
something the code ensures.  `sink`: goroutines move when they can; the delegate may
hang, and `TakenDelivered` is stated for one that does not.  `secrets`: vault and venue
answer (their calls take the caller's context).  `startup`: a process goes on and the
orchestrator restarts one that exited.  `kraken_feed`: the goroutines run, timers fire
and a dial answers (`HandshakeTimeout`, 10 s); no message is assumed to come.

Violations, each a disagreement between the code and what its documents say:

| run | the documents | the code |
|---|---|---|
| `order_retry` | README.md:67, retries do not double-place | the handler passes no client order id, so a retry places a second order |
| `kraken_resubscribe` | README.md:69-71, resubscribe after reconnect | the subscription is sent once, on a socket that `Run` replaces at once by a new one |

More disagreements follow from the same models and have no run of their own:

- PROJECT_PLAN.md:148, 153, every fill on the bus or dead lettered: when the request's
  context ends in a retry pause the fill reaches neither (`events.go:175`), and after
  four failed attempts it goes to a dead letter handler that does nothing
  (`events.go:137`).  `FillsAccounted` says that nothing else loses a fill of an order
  that is answered 200, and that the audit topic and the database still have it unless
  that very write failed.
- README.md:72, never exceed venue limits: `BurstBound` and `MeterBound` promise twice
  the limit (OTC, Binance), another budget per caller for overlapping Binance calls
  because a header that misses the other request lowers the count again, and a further
  budget per restart at Kraken, with the cost of requests that were delayed while the
  limiter's count decayed.  Snapshots pass by the limiter and the backoff, and a 429 to
  one of them begins no pause (`binance/book.go:97`, `106`): the meter's bound and the
  silence after a 429 are stated for the signed calls.
- PROJECT_PLAN.md:43, valid timestamp: `doSigned` counts calls from the start of the
  process and leaves the 5 s receive window after a quiet period (`binance.go:89`).
- PROJECT_PLAN.md:61, incrementing nonce: concurrent calls overtake each other between
  taking a nonce and sending it; `NonceStaleExplained` says when.
- PROJECT_PLAN.md:98-99, no loss of book integrity: after a gap sequencing is off and a
  failed refresh is ignored (`binance/book.go:65`); `HoleOnlyUnsequenced` says when.
- PROJECT_PLAN.md:92, older diffs are dropped: `ApplySnapshot` ignores the snapshot's
  update id (`ws.go:183`), which is why `ExactUnlessHole` speaks of the change the book
  has reached.
- PROJECT_PLAN.md:98-99, again: of the texts for a quantity of zero only "0" and ""
  remove a level (`ws.go:207,214`).  One sent as "0.00000000" stays, counts as a side in
  `emitUpdate` and may be the best one of an update; both exactness properties allow it.
- README.md:40: the connectors refuse an order without a client order id and the
  handler gives none (`server.go:173`).
- README.md:222 shows `VENUE_FAMILY=otc`, which never starts: `SubscribeBook` of the OTC
  connector is unsupported and `NewService` fails on it.
- README.md:169, old keys are revoked after the new one is confirmed: `RevokeOld` revokes
  the lease in use (`secrets.go:98`), `Rotate` without a probe confirms nothing, and
  `POST /admin/rotate-credentials` rotates nothing (`server.go:116`).  The connectors
  keep the credentials they were started with.
- events.go:60 claims per-key order on the bus; `Publish` sets no key.

What holds instead is in the passing runs: at most `MaxRetries + 1` times
`WriterAttempts` copies of a fill (40 with the code's numbers); a fill missing from the
bus only when the context ended or all attempts failed; bounded meters; a stale nonce
only for calls that overlapped or after a restart ahead of the clock; a hole in the
Binance book only while sequencing is off, and otherwise a book that is exact on the
levels it was told of; the Kraken book exact, but for levels that fell below the depth,
from a full snapshot to the first thing lost.  The Kraken feed applies at
most one diff after it starts, for the next must carry the next nanosecond, and ends
for good when its first dial fails.  A production replica that lacks only its token secret
migrates the database before it refuses to start.

## 4. What is proved

The theorems hold for every value of the constants, from the assumptions named in
the modules that declare them (sizes are natural numbers, windows are positive,
callers, emitters and prices are finitely many, the two sides of a book are disjoint).  In
each proof module `IInv` is the inductive invariant, each action has a lemma that it
keeps `IInv`, and the theorems follow from `Inductive`.

`OrderFlow_proofs`: `TypeCorrect`, `CopiesBounded` (`BoundedCopies`) and
`NoFillForgotten` (`FillsAccounted`).  None of the three is inductive: that a fill
has few copies depends on where its handler is.  `IInv` adds, for each handler,
`ControlOK` (which kind of request reaches which step, the range of the loop index,
no attempts counted outside a publication) and, for each fill, `FillOK`: no copy
before its turn, at most `attempt * WriterAttempts` copies when an attempt starts and
`WriterAttempts` more after it failed, and once the loop has passed it, on the bus or
given up for one of the two reasons.  `Frame` carries over the
handlers that a step does not move.  A second invariant on top of it, `Trace`, gives
`AuditOrdered` (`AuditCausal`) and `Traceable` (`BusTraceable`): a handler past an
emission or an insert has left its event or its row, or the mark of the write that
failed (`AuditedOK`, `StoredOK`), and a cancellation names an order whose client was
answered, hence one whose placement was emitted, or one that the admin status showed.
The part of `FillsAccounted` about audit log and store follows from `Trace` as well.

`OtcConnector_proofs`: `TypeCorrect`, `Burst` (`BurstBound`), `Quiet`
(`QuietAfter429`) and `Outcome` (`PlaceOutcome`).  The burst bound needs what the
observer has counted in the limiter's current window and before it: at most `Limit`
requests of a window that began before the observer's, and `count` of the one that
began after; a third window cannot start before the observer's ends.  `Outcome` needs
`InCall`: the desk holds an accept only of a placement that sent one and decides it once,
so that an answer that names the decision cannot be overtaken by another.

`Kraken_proofs`, the connector: `TypeCorrect`, `Meter` (`MeterBound`), `Quiet`
(`QuietAfter429`) and `StaleNonce` (`NonceStaleExplained`).  `Metered` compares
Kraken's counter with the limiter's count after the decay that is due: Kraken ticks
exactly once between two ticks of the limiter, so it is at most one ahead, and only
until it has ticked; `decayLocked` moves the last tick by whole periods, which keeps
that order (`LastTickKeepsRest`).  What is on the wire is in the comparison, as `wire`,
the sum of the costs of the requests that left since Kraken's last tick (`Wired`); at a
tick they become late, and their cost, if they arrive, goes into `lateCost`.
A restart forgets at most a budget.  `Nonces` says
that a call that overlapped no other is the only one and holds a nonce above all that
Kraken has seen or may still see, while no restart was early.

`Kraken_proofs`, the feed: `FeedTypes` (`FeedTypeOK`), `Leaks` (`LeakBound`), `ExactBook`
(`ExactUnlessMissed`) and `BestFirst` (`TopBest`), all from `FeedIInv`.

- `Leaks` needs to know which socket is held where: until `Run` reads from a socket of
  its own `conn` is nil or the one of `Connect`, and only that one is ever dropped
  without being closed (`Held`).
- `ExactBook` needs the messages under way, the one in the handler and those in the
  socket, as one chain (`Sequel`): their numbers increase, two with consecutive numbers
  fit together (`Leads`), the first fits what the handler was last told, and the last
  agrees with Kraken's book as deep as it is sent, each only while no number is missing.
  `Matches` says what a side may hold besides, levels that fell out and levels of zero,
  and a diff keeps it (`DiffMatches`).  Handling a message, losing the
  tail with the socket and pushing one more keep a chain (`ChainHandled`, `ChainCut`,
  `ChainPushed`).
- `BestFirst` is about `collectLevels` and `sortLevels` (ws.go:249-276), for levels of any
  number, prices of any length and whatever order the map is ranged over.  The string
  order is total and transitive (`StringLessTotal`, `StringLessTransitive`); an
  iteration of the outer loop puts one level at its place among those before it
  (`SinkSorts`), so that the whole loop sorts (`SortLevelsSorts`); the levels
  kept are the first of their side (`CollectedAreFirst`); and string order is the order
  of values for prices of one width and the same number of decimals (`ValueMonotone`).
  The outer loop and the value of a price are recursive functions.  Induction over them goes through a set of naturals:
  one that contains 0 and with each number the next contains all (`SetInduction`, from
  the least element that is missing), applied to the set of those for which the function
  exists with its equation, or has the property in question.

`BinanceConnector_proofs`: `TypeCorrect`, `Meter` (`MeterBound`), `Quiet`
(`SignedQuietAfter429`).  The limiter refills at most once in a window of Binance's
(`Fresh`: not yet).  For calls one at a time, `Alone` says that all that is metered or
on the wire is in the count, but for a budget from before the refill.  Overlapping
calls break that, because a header read late lowers the count.  `Credit` bounds the
sum of the meter, of what the limiter would still admit, of the refill still to come
and of one credit per caller, each credit at most a budget: it pays for a request that
the count has forgotten and for what a late header can take off the count.  Sending
moves weight from the count to a credit, processing from the credit to the meter, and
a return either spends the credit or finds the meter below the budget.  A request nobody
waits for keeps its caller's credit until it is processed or lost; snapshots only raise
what a header reports.

`BookFeed_proofs`: `TypeCorrect`, `Exact` (`ExactUnlessHole`), `GapDetection`
(`HoleOnlyUnsequenced`) and `Refinement` (`RegisterSpec`).  `Exact` rests on what a
queued depth event carries: every level it covers has the venue's quantity unless
the venue has touched it again since; and a snapshot under way is true of the levels in
its view and empty elsewhere.  The refinement rests on the channel being
increasing, above what is shown and at most what was emitted.

`AsyncSink_proofs`: `TypeCorrect`, `CloseOnce` (`ClosesOnce`), `Drops`
(`DropsCounted`) and `Refinement` (`LogSpec`).  `Control` has at most one closer about
to close, with the channel still open.  `Decided` says that whatever was taken or lost
is an event its `Emit` is done with, so that the event still in a select is neither:
this makes each event taken or lost once.  `Taken`, the log the sink stands for, is
left alone by every step of the loop and extended only by a send.

`SecretsManager_proofs`: `TypeCorrect`, `Live` (`CurrentLive`), `Justified`
(`RevokeJustified`) and `NotAhead` (`LatestNotAhead`).  Short of a stale install
versions only go up (`Upward`): what a call noted is no newer than what it installed,
which is no newer than what is in use, so that the lease a `Rotate` revokes is older
than the one in use, and than the key its probe confirmed (`Confirmed`).

`Startup_proofs`: `TypeCorrect`, `Recorded` (`RecordedApplied`), `Schema`
(`ServingSchema`) and `NoStub` (`ProdNoStub`).  `Migrating` says of each replica that
the migrations before the one it is at are in effect, and so is the one it is about to
record, but for what `Down` undid; `ProdWired` what a production replica has been
wired with by each point of `main`.  No replica's part mentions another's, which is
why their number does not matter.

Only model-checked: liveness (`Answered`, `EmitEnds`, `TakenDelivered`, `CallsEnd`,
`EventuallyServes`, `CloseEnds`, `CancelEnds`), which is beyond the prover because
it needs fairness and `ENABLED`.  Every other property of a passing run is stated by a
theorem.  The two violations are counterexamples and have nothing to prove.

## 5. What is not modelled, and the plan

Left for later, where it would say most:

1. the Kraken feed behind the aggregator, as an implementation of `LatestRegister` like
   the Binance one, once a consumer of its channel is part of `KrakenFeed`;
2. one composition of `OrderFlow` with a connector, when the handlers pass a client order
   id (`server.go:173`); until then every order sent to a real exchange is refused;
3. `BookFeed` over `WsClient` in place of its own view of the socket.

Not modelled:

- metrics and tracing: nothing reads them;
- signing and verifying of tokens and requests, SFTP confirmations, parsing of
  environment and JSON: stateless or pure I/O.  Where their outcome decides
  something it is a choice (`Unauthorized`, `Reject`, `RespondFailed`, `Env`);
- the dummy venue's book ticker, which once a second sends a book of one level a side
  around a mid that moves at random (`dummy.go:140`);
- a REST call of `refreshSnapshot` that never returns (`binance/book.go:97`): the
  client has no timeout, so there is nothing in the code that ends the wait;
- the data race on the dummy venue's shared response (`server.go:252`,
  `dummy.go:79`), which only decides the status text of a reply.
