# A TLA+ specification of order-billing-system

Two Go services keep orders and invoices. `order_service` answers gRPC calls, writes each
change of an order together with an event into its database, and a relay carries the events
to Kafka. `billing_service` consumes them and keeps one invoice per order. This directory
models both sides call by call, checks the models with TLC, and proves the safety properties of
every component, and of the two services together, with TLAPS, for any number of orders, handlers,
messages, calls and faults.

Run everything from this directory:

    tlc -workers 2 -config OrderServiceConcurrent.cfg MCOrderService
    for m in *Proofs.tla; do tlapm $m; done

`PROJECT.json` lists the runs, which lines of the repository each definition models, the
hazards the properties are for, and for every property a mutation of a definition that
breaks it. The mutated forms are the definitions commented "Variant" in the modules; nothing
else uses them.

## 1. The system

| Component | State | Operations | Module |
|---|---|---|---|
| Order operations (`order_service/internal/service`, `grpc`, `repository`) | table `orders`; what each request goroutine has decided to write | `CreateOrder`, `MarkOrderPaid`, `CancelOrder`, `writeWithOutbox`; `GetOrder` reads | `OrderService` |
| Outbox relay (`internal/outbox`) | table `outbox_events`; the batch in hand | `FetchPending`, `WriteMessages`, `MarkSent`, once per tick | `OutboxRelay` |
| Billing consumers (`kafka/consumer`, `handler`, `reliability`, `repository/processed_event.go`) | committed offsets, reader positions, `processed_events`, DLQ topic | `FetchMessage`, `Exists`, `Retry` around the handler, `DLQProducer.Send`, `Save`, `CommitMessages` | `BillingConsumer` |
| Invoices (`billing_service/internal/service`, `billing_repo.go`) | table `invoices` | `HandleOrderCreated`, `HandleOrderPaid`, `HandleOrderCancelled` | `BillingConsumer` |
| Billing queries (`query`, `invoice_read.go`, `grpc`) | none of their own | `ListInvoices`, `GetBillingStats`, `GetInvoiceByOrder` | `BillingQuery` |
| Pricing (`validateItems`, `service/currency.go`, `shared/currency`) | none | `validateItems`, `calcTotalUSD`, `ToUSD` | `Pricing` |
| gRPC side of `order_service` (generated handlers, `shared/middleware*`, `grpc/server.go`, `grpc/mapper.go`) | the calls in flight | validate, recover, count, map errors | `OrderAPI` |
| Metrics (`shared/observability`) | request and order counters; gauge of invoices by state | moved by the calls and the consumers | `OrderAPI`, `BillingConsumer` (partly) |
| Lifecycle (`cmd/api`, `app`, `database`, `config`) | where `Run` is, the pool, which tables exist, exit status | `LoadConfig`, `InitDB`, migrations, workers, `Listen`, shutdown | `ServiceLifecycle` |
| Logging, request ids, generated messages | none | | not modelled |

How they interact. The order handlers and the relay share `outbox_events`: the handlers
insert PENDING rows in a transaction, the relay reads them in `created_at` order and marks
them SENT. The relay and the consumers share three Kafka topics, one per event type; the
headers `event-type` and `order-id` give the consumer its idempotency key. The three
consumers run in goroutines and consumer groups of their own and share `invoices` and
`processed_events`. The query service reads `invoices`.

What is hard here, and which properties answer it (the full list, with lines, is under
"hazards" in `PROJECT.json`):

* handlers decide on a row they read outside of the transaction that overwrites it
  (`OrderStateMachine`, `SettledOncePerHandler`), while status and event must change together
  (`ImplementsLedger`);
* a transaction may commit although its caller is told it failed (`AcksAreBacked`,
  `RefusalsAreFinal`, `StatusIsLastEvent`);
* the relay moves an event between two systems without a transaction, asks Kafka for no
  acknowledgement, and skips rows that fail (`SentWasWritten`, `CopiesNeedFaults`,
  `CreatedIsFirst`, `NoEventIsLost`, `EventuallySent`);
* handling, recording and committing a message are three calls, any of which may fail or be
  the last one before a crash (`CommittedHasEffect`, `ProcessedHasEffect`,
  `CommittedIsRecorded`, `GivenUpIsInDLQ`, `ConsumersDrain`);
* a consumer group may rebalance while its consumer has a message in hand, which is then handed out
  again, and whose commit is ahead of the reader (the same properties);
* two consumers may settle the same invoice (`InvoiceStateMachine`, `InvoicesMoveForward`), and
  the gauge of invoices is moved after the write has returned, and lost with the process
  (`GaugeDrift`);
* a client that repeats `CreateOrder` may order twice (`DuplicatesAreUnsure`);
* int64 wraps around, and the conversion to US dollars rounds in float64 and truncates
  (`TotalsAreSound`, `FreeOrdersAreSmall`);
* the counters of orders move after the transaction, and not at all if it reports an error
  (`CountersFallShort`);
* start-up and shutdown have many steps, and a fault, a crash or a signal may come between
  any two (`TablesBeforeWork`, `CallsKeepTheirPool`, `StopsOnSignal`, `ComesBack`);
* queries of several statements, or several calls, run between the consumers' writes
  (`WalkMissesNothing`, `PaidWithinTotal`, `StatsDrift`, `PollsMoveForward`).

## 2. The modules

`OrderEvents` is the shared vocabulary: event types (each has its own topic, so a type also
names its topic), statuses, the shape of an outbox row, and the status each event leads to.

`OrderLedger` is the abstract specification of the order side: an order's status and the
event that announces it change in one step and in no other way. It lets an order be settled more than
once, because the code does (`order_race`): what it says is atomicity, not the state machine of
`README.MD:136-141`.

`OrderService`. `orders` and `outbox` are the tables, `handler` is what every request
goroutine holds between its decision and its transaction, `replies` remembers the definite
answers given to clients. `MarkOrderPaid` and `CancelOrder` are the read and the decision
(`order.go:143-182`); `WriteWithOutbox` is the transaction with its three outcomes: committed
and answered OK, committed but reported as failed, rolled back. `Crash` loses all handlers. A handler
is a request until Postgres has decided its transaction: if the COMMIT lands after the request was
answered Internal, the transaction still has its place in `handler`, and the step that ends it is
the commit reported as failed. So "handlers at work" in `SettledOncePerHandler` counts such
requests too. After a crash Postgres is taken to have decided before the next request comes.
Time is the number of commits so far: that is as fine as is needed to tell whether `time.Now()`
(`order.go:87`) was called before or after a given commit, and leaves ties open. It assumes
a wall clock that does not step backwards between two requests for the same order.

`OutboxRelay`. One step for each call of `processOnce`. `Enqueue` is the environment: it
assumes of new rows what `OrderService` guarantees (`CreatedIsOldest`), and lets a row be
stamped well before it is committed, as concurrent handlers do. A write succeeds, is lost
although it returned nil, or fails before or after the broker stored the message. A payload
above the writer's `BatchBytes` fails every time (`Oversized`). There is one broker, as in
`docker-compose`: with several, a write that no broker has to acknowledge could be stored late, after
the ones that follow it, and `CreatedIsFirst` would not hold as it stands.

`BillingConsumer`. One step for each call of `processMessage`, with `consumer` holding for every
goroutine the offset of the message in hand, the next call and the failed runs of the handler; and a
step for each statement that moves the gauge, after the write has returned (`DecPending`, `IncStatus`).
The topics have one partition,
which is what `docker-compose` gets from topic auto-creation. `Publish` is the environment:
copies, any order between topics, messages that do not decode, messages without headers.
An order may have both settlements (`Contended(o)` says that it does): `order_race` shows
that the order side produces such orders. `gauge` is the process's `invoice_state_total` and
`baseline` remembers the table as it was when the process started. An event id is either taken
from the headers or, without them, from the offset (`eventID`). `Shutdown` cancels the context
of every call while the goroutines go on, because `Run` does not wait for them
(`app.go:100-136`). `Rebalance` is kafka-go's background work: it takes the reader back to the committed
offset whatever the consumer is doing, so that the message in hand will be handed out again, and
its commit, which names an offset and not the reader, still goes through. `Current(t).kind =
"malformed"` stands for every payload a handler sends to the DLQ itself.

`BillingQuery`. `Write` is what the consumers do to the table. A client walks `ListInvoices`,
moving its offset by what it was given, or the four statements of `GetStats` run one by
one, or a client polls `GetInvoiceByOrder`, whose query may fail. They only read, so a
behaviour has one reader. `CreatedAt` gives every order the time it was created, so that an
invoice can be inserted anywhere in the listing, and two may have the same. `ORDER BY created_at DESC`
does not say in which order those come, nor that it is the same in the next page: `First` is every
set of rows that the query may take for its first n, and `Listed` every page that follows the rows
an OFFSET has skipped.

`Pricing` has no state: an item, `validateItems`, `ToUSD` and `calcTotalUSD`, in two's complement;
`Half`, the number of negative integers, is 2^63 in the code. `ToUSD` returns the set of results that
`int64(float64(amount) * rate)` can have. Three roundings, of the amount, of the rate and of their
product, are each below one part in 2^53, so the product is known up to one part in `Precision`, which
is 2^51 in the code: `Units` is the set of whole numbers that a product within that error can be cut
off to. Above 2^51 thousandths of a unit, which is from about 2^41 units on, this lets a product of
fraction .999 come out as the next unit, and larger ones be off by several. Below, only a product
that should be a whole number is in doubt: it may come out just short of it in RUB, because the float64
next to 0.011 is below it, and not in EUR, because the one next to 1.09 is above it. A product out of
range gives whatever the processor gives (`Convert`). Rates are in thousandths. `ExactTotal` is the
reference, without width or rounding, and `Deviation` by how much the products of a basket may be off.

`OrderAPI` extends `OrderService` and `Pricing` with the way of a call: `Dispatch` (generated
handler and the interceptors on the way in), a `Handle` action for every
method, `Transact`, `Inc` (the counter of orders, after the transaction: `order.go:128`, 163, 188), and
`Return` (the metrics interceptor) or, for a panic, `Recover` (the
recovery interceptor, outside of the metrics interceptor: `app.go:77-82`). A request that does not
decode never reaches the interceptors and changes nothing, so it has no action. The actions of
`OrderService` are used as they are, so what is proved of the tables there is about the same
steps. The client wants one basket, gives a call up when its deadline passes (`GiveUp`) and
repeats `CreateOrder` until it is told OK. A transaction is decided when its call returns; that it may
be decided after an Internal answer is modelled in `OrderService`, where nothing follows the answer, and
for calls that the client gave up. `Validatable` is empty: no request type has a
`Validate` method, and the validation interceptor passes everything on.

`ServiceLifecycle` is `Run` of both programs, one action for each thing that can fail or be
interrupted; `service` says which program it is. Its environment: Postgres and the port come and
go, the process crashes, `Serve` fails, calls and workers hang, SIGTERM comes at any time, and
the container runtime restarts a process that exited with an error. What a worker does with the
work in hand is the other modules' subject; here it is only busy or not. `RunMigrations` of
billing_service is one step: its two tables come from one `AutoMigrate`, and no property tells a
database with one of them from one with none. New calls are not accepted while `Run` is draining.

`OrderBilling` puts the two services together. It extends `OrderService` and takes `OutboxRelay` and
`BillingConsumer` as instances, over one table `outbox` and one set of topics. In the place of the
environment of the relay (`Enqueue`) stand the transactions of the handlers (`Serve`), in the place
of that of the consumers (`Publish`) the messages the broker stores for the relay (`Carry`, `Deliver`:
the topic is that of the row's event type, `app.go:56-60`). `OrderServiceDies` takes handlers and relay
at once, because they are one process; `RelayStops` is the cancelled context, with requests still
served. `Odd` is anybody else who writes to the topics. The handlers of `OrderService` never look at a
row's status, which the relay changes: they are the instance `Service` of `OrderService` over `Unsent`,
the table with every status PENDING. Its properties relate the two databases: `InvoicesFollowOrders` (an
invoice is never ahead of its order), `SentTakesEffect` (from a row marked SENT to its effect on the
invoice), `InvoicesAgree` (a settled invoice says what its order says) and `InvoicesSettleOnce` (it
follows the documented state machine). The last two hold for any number of requests, except for orders
that racing handlers settled both ways.

`MC*` modules give the constants their values. `*Proofs` modules hold the theorems about the
module they are named after.

## 3. What TLC checks

| Run | Instance | Shows |
|---|---|---|
| `order_concurrent` | 2 orders, 2 handlers, symmetry | with failed and ambiguous transactions and crashes: status is that of the last event, one oldest OrderCreated, OK is backed by an event, refusals stay right, no order is settled more often than there are handlers, and the service implements `OrderLedger` |
| `order_race` (violation) | 2 orders, 2 handlers | PAID -> CANCELLED by a stale handler |
| `relay_faults` | 3 rows, 2 orders (one oversized), batches of 2, 2 faults, fair | what SENT means, no copy without a fault, OrderCreated first, and every row the writer can carry is sent |
| `relay_loss` (violation) | 1 fault | a row marked SENT that Kafka never stored |
| `relay_starved` (violation) | batches of 1, 1 oversized row, fair | rows that always fail fill the batch |
| `billing_faults` | 1 order, 4 messages on the topics, 2 runs of a handler, 1 disruption or message that is not an event, fair | committed and recorded messages have had their effect or were given up, only a race moves an invoice other than forward, the gauge is off by no more than statements still to come, disruptions and double settlements explain, every topic is drained |
| `billing_race` (violation) | 1 order, 3 messages | an invoice goes from PAID to CANCELLED or back |
| `billing_unrecorded` (violation) | 2 orders, 1 failed call | a committed message that is in no table |
| `billing_dlq` (violation) | 1 failed call | a message given up that is not in the DLQ |
| `query_readers` | 4 invoices, 2 of one `created_at`, 4 writes | paging misses no invoice whose `created_at` is its own; statistics disagree by no more than what was written meanwhile; a polled invoice never goes back |
| `api_calls` | 2 orders, 2 goroutines, 3 calls, 1 crash, 27 baskets, 12 bits, symmetry | totals are exact up to one unit a line and the rounding of float64 unless something wraps, and nothing is free but lines below one unit; a second order needs a call without an answer or with Internal; counters fall short only by calls on their way to them and by failed transactions |
| `lifecycle` | both programs, 2 calls, 3 attempts, 3 faults, fair | nothing works without its tables, no call loses its pool before the deadline, a signal always ends the process, and outages, crashes and a taken port end in a restart that reaches its serve phase |

Bounds. `OrderService` needs none: an order leaves CREATED for good, so only handlers that
already hold a write can add to the outbox and the state space is finite. Two handlers are
what a stale decision takes; two orders let fresh ids, stamps and answers be confused. In the
relay three rows and batches of two give a full batch, a batch boundary and a row that
arrives while a batch is in hand; two faults allow a fault while another is being recovered
from. In the consumer four messages on the topics make a full life of an order with a copy of a
message, which also is what a redelivery hands out, two messages on a topic (what a commit needs to cover
an earlier message) or both settlements; the disruption is a failed call, a crash, a shutdown, a
rebalance, or a malformed or bare message on a topic. A fault during the recovery from another is left to
the proofs, which hold for any number of them; only `ConsumersDrain` rests on the bound. `Attempts` is
2 (3 in the code), the least with both a retry and a last run.
In the queries two of four invoices share their `created_at`, which puts one before them and one
behind. Three calls are a create, its repetition and a settlement, or two settlements that race; the
baskets have items that convert exactly, with a fraction, to nothing, near enough to a whole number for
the rounding to matter (`Precision` is 16384, so that it does within 12 bits), at the boundary of the
width and beyond it, and each kind of invalid item. Two concurrent calls, three attempts and three
faults let a lifecycle fail in one phase, fail again on the way back, and be stopped there.
`MaxLimit` and
`DefaultLimit` are 2 and 1 instead of 100 and 20, so that pages are cut and limits clamped.

`OrderBilling` multiplies the states of its parts, and is proved from the theorems about them (section
4); it is not among the runs. `OrderBilling.cfg` (`MCOrderBilling`) is the instance on which its
properties were tried first: one order, two handlers that may settle it both ways, three rows, three
messages, no faults, 302 607 states, complete. With faults the instance is beyond TLC.

Deadlock is checked except in the consumer, query, call and lifecycle runs, where the workload is bounded:
consumers that have handled the last message wait for another one, and a reader that has
its answer is done, calls are numbered, and a process that was told to stop stays down. In `OrderService` and `OutboxRelay` a request or a tick is always possible.

Fairness. `OutboxRelay!FairSpec`: the ticker of `relay.go:38` keeps firing and calls return.
`BillingConsumer!FairSpec`: the consumer goroutines keep running (as a whole: none is promised its
turn before another, which the bounded work makes unnecessary), and a stopped service is
started again (`restart: on-failure` in `docker-compose`, or the next deployment).
`ServiceLifecycle!FairSpec`: `Run` is scheduled and its timers fire (the 30 seconds of the
shutdown), the runtime restarts what failed, and Postgres and the port come back; calls and
workers are given no fairness, they may hang for ever. `ComesBack` is about `Run`: when `Serve` fails the
process lives on without a server (`ServeFails`), and nothing restarts it. None of the three otherwise
says anything about the environment: faults are bounded, never required, and messages need
not arrive.

### Where the code and its documentation disagree

1. `order_race`: `tx.Save` (`order.go:90`) has no condition on the status read before. Two
   handlers that read CREATED both commit and both clients are told OK.
2. `billing_race`: `UpdateStatus` (`billing_repo.go:53`) likewise, between the paid and the
   cancelled consumer; the orders of finding 1 have both events.
3. `relay_loss`: the writer of `relay.go:24` leaves `RequiredAcks` at its zero value, which in
   kafka-go is `RequireNone`; "no event is ever lost" (`README.MD:48`) needs more.
4. `relay_starved`: `FetchPending` (`outbox_repo.go:23`) always takes the oldest rows, also those
   that can never be written; `BatchSize` of them stop the relay. With fewer, `relay_faults`
   shows that it drains.
5. `billing_unrecorded`: a failed `Save` returns without a commit (`consumer.go:132`), but the
   commit of the next message covers it. `CommittedHasEffect` shows that its effect is there.
6. `billing_dlq`: `DLQProducer.Send` only logs an error, and the offset is committed anyway
   (`consumer.go:124`).

## 4. What is proved

Every safety invariant, every action property and the refinement that a passing run checks is proved
for all values of the constants; what is left to TLC is liveness. The bounds of section 3 are
parameters here: the proofs use only that they are natural numbers. Each inductive invariant was
checked with TLC before it was proved.

| Module | Theorems (property) | Assumption on the constants |
|---|---|---|
| `OrderServiceProofs` | `TypeCorrect`, `OutboxAtomicity`, `CreatedFirst`, `AcksBacked`, `RefusalsFinal`, `SettlementsBounded`, `Refinement` (the invariants and the refinement of `order_concurrent`) | `Handlers` is finite |
| `OutboxRelayProofs` | `RelayTypeCorrect`, `SentWritten`, `CopiesBounded`, `CreatedPublishedFirst` (the invariants of `relay_faults`) | `BatchSize` is at least 1 |
| `BillingConsumerProofs` | `ConsumerTypeCorrect`, `ProcessedTookEffect`, `CommittedTookEffect`, `GaugeDriftBounded` (the invariants of `billing_faults`), `InvoicesForward` (action property), `InvoicesCaused` | `Orders` is finite, `Attempts` is at least 1 |
| `BillingQueryProofs` | `QueryTypeCorrect`, `WalkComplete`, `PaidBounded`, `StatsDriftBounded` (the invariants of `query_readers`), `PollsForward` (action property) | the default limit is between 1 and the largest; a filter exists |
| `ServiceLifecycleProofs` | `LifecycleTypeCorrect`, `TablesFirst`, `PoolClosedLast` (the invariants of `lifecycle`) | at least one connection attempt |
| `OrderAPIProofs` | `APIImplementsService`, `CountersBounded`, `DuplicatesBounded`, `TotalsSound`, `FreeOrdersSmall`, `APITypesCorrect` (the invariants of `api_calls`), `OnlyValidStored` | those of `OrderService` and `Pricing`; baskets are sequences of items; `MaxCalls`, `MaxCrashes` are numbers |
| `PricingProofs` | `PricesArePositive`, `TotalsFallShortByLines`, `FreeLinesArePetty` | `Half` is at least 1, `Precision` at least 2000 |
| `OrderBillingProofs` | `ServiceImplemented`, `RelayImplemented`, `BillingImplemented`, `InvoicesFollow`, `SentTakenIn`, `InvoicesAgreeWithOrders`, `InvoicesSettleAsOrders` | `SystemAssumption`: those of the three parts, and that there are messages from the relay |

The finite sets are needed where something is counted; at any time there are finitely many
goroutines and rows. The other assumptions are what `config.go`, `relay.go` and the query service
set.

**Orders.** A handler prepares a write in one step and commits it in another, so nothing
said of the tables alone is preserved by `WriteWithOutbox`. The inductive invariant `IInv`
adds two parts. `WritesAreSound`: a pending OrderCreated is for an id without a row that no
other handler holds, and a pending settlement is for an order whose OrderCreated was
committed before the settlement was stamped. `EventsAreOrdered`: the same of the rows that such
writes became, from which `CreatedIsOldest` follows, since a row is stamped before it is
committed. `InitIInv` and `NextIInv` show that it is inductive, with a lemma for each kind of
step (`PrepareIInv`, `CommitIInv`, `GoingIdle`). `Refinement` (with `orders` as the ledger's status
and the order and type columns of the outbox as its ledger): `OnlyCommitsWrite` reduces a
step to a commit or a stutter and `CommitRecords` maps a commit to `Record`. That the documented state
machine does not hold is what `order_race` shows; how far it can be left is `SettlementsBounded`, which counts:
`SettlersInv` says that the settlements of an order in the outbox plus the handlers that hold
another one are no more than the handlers there are, and that an order that is still CREATED has
none in the outbox. A commit moves one from the second number to the first, and a handler takes
on a settlement only while the order is CREATED.

**Relay.** The relay acts on a batch it fetched some steps ago. `BatchIsCurrent`: its rows are
still PENDING, all different, and oldest first, because only the relay itself marks rows.
`HeadWasWritten` carries the nil of `WriteMessages` to `MarkSent`; with it `SentWasWritten` is
inductive, and `CopiesNeedFaults` because a write adds one message and sets the flag that the
bound contains. The order of publication takes `CreatedIsAhead`: for every row of the batch, the
OrderCreated of its order was tried before or stands before it in the batch. It holds when the batch
is fetched because a row that is not selected is no older than the ones that are, and an
OrderCreated is strictly older than the settlements of its order (`RowsAreOrdered`, the
guarantee of `OrderService`).

**Consumers.** `WritesAreCurrent`: what a settlement consumer has read before its UPDATE is still so,
or the order is contended and the other consumer has settled it; `InvoicesMoveForward` follows step by
step. `FinishedHasEffect`: every message that a reader has handed out is dealt with as soon as its
handler is done, also the ones a failed `Save` left uncommitted. That is why a later commit may
cover them, and gives `CommittedHasEffect`; `ProcessedHasEffect` follows from it at `Save`, and
is preserved because an event that was given up stays so and an invoice is never removed.
A rebalance takes nothing from either invariant, which speak of the reader's own position and of the
message in hand.

The gauge is moved after the table, so the proof keeps an account of what each consumer still owes it
(`Owed`): the decrement and the increment from the return of its write on, the increment after the
decrement. The drift with these paid (`DueDrift`) changes only where a step moves one without the
other, and `GaugeIsNear` bounds it by `Allowance`: the failures so far,
the contended orders that both consumers are done with (`Exhausted`), and, while the process stops,
the consumers that cannot write any more (`Spent`). While stopping a write may take effect and
report an error without a further disruption, once for each consumer: with two orders and four
messages the paid and the cancelled consumer can each have such a write in hand. `OwedIsLagging` turns
what is owed into the number of consumers that are behind.

**Queries.** `StatsAreNear` says for each of the four statements that what is still to be counted would
make the figures add up but for the writes so far. `KnownIsBehind`: the table is at or past what a
polling client was told. `WalkIsAhead`: if an invoice that a client has not been given shares its
`created_at` with no other row, the rows that are newer are at least as many as the offset, since rows that
match a steady filter only increase in number and a page takes whatever is newer first (`PageIsNewer`),
in whichever order it puts the rows that are tied; an empty page then leaves none behind.

**Lifecycle.** The invariant says for each phase of `Run` what it has behind it: the tables
(`PhaseHasTables`), the open pool (`PhaseHasPool`), and in which phases workers and calls can be
met (`WorkHasPhase`).

**Calls.** `APIImplementsService`: every step of `OrderAPI` is a step of `OrderService` or leaves its
variables alone (`StepsOfService`), which takes `WritesAreAsked` (a goroutine holds a write only for
the method it is serving). So what is proved of the tables holds behind the interceptors, with
panics, refusals and calls that were given up. `DuplicatesBounded` keeps an account,
`RowsAreFew`: rows, plus abandoned calls that may still add one (`Adrift`), are no more than the calls of
unknown outcome, plus the order the client knows of, plus the answer that is on its way.
`CountersBounded` compares counters and outbox by the type of event: a commit that is reported
adds one to the outbox and to the calls on their way to the counter, one that is not adds one to the
outbox and to the calls that will be answered Internal.
`OnlyValidStored` says that a basket with an order in the table, or in a transaction, has
passed `mapProtoItemsDomain` and `validateItems`. `PricesAreCalculated` says that the total of an
order that is in the table or about to be is one that `calcTotalUSD` returns for the basket;
`TotalsSound` and `FreeOrdersSmall` follow with the theorems on prices. For `APITypesCorrect` the
counters are bounded by another account, `CallsAreCounted`: the calls that were made are at least the
ones counted and open, at least the unsure ones and those the client still waits for,
and at least the order events counted and the calls that have not written yet.

**Prices.** `calcTotalUSD` is a loop, and a model of a loop is a recursive function: what it
computes takes an induction over the items. The induction rule of the library takes the property as
an operator, which the provers cannot instantiate, so it is stated with a set instead: a set of
naturals that is not empty has a least member (`LeastNatural`, from the well-foundedness of `<`), so
one that holds 0 and with n also n + 1 holds all of 0 .. N (`UpTo`). The property of the loop becomes
the set of the n for which it holds after n items. `TotalsOfLoop` and `CostsOfLoop` are the equations
of the two recursive functions, `LineIsSound` bounds what one conversion is off by, whichever way it rounds,
`OffAdds` shows that the deviations of the lines add up to no more than that of their sum, and
`CostsGrow` that if the whole basket is in range so is every beginning of it, so that
nothing has wrapped around on the way. The bounds are stated with `Deviation`, which is 0 for totals below
`Precision`. `FreeLinesArePetty`: the loop only adds, so a total of 0 has lines of 0, and such a line
was cut off below one unit, while every valid line in EUR costs 1.09 at least.

**Where the invoices come from.** `InvoicesCaused`: `WritesHaveMessages` says that a consumer that is
about to write an invoice has a message in hand with a payload it could use, and a topic never
loses one.

**Both services.** The proof of `OrderBilling` has a step for each border. `ServiceImplemented`: marking a
row SENT leaves `Unsent` alone (`RelayUnseen`), and a commit to the table is a commit to `Unsent`
(`CommitUnsent`); so the invariant of `OrderServiceProofs` holds of the handlers in the system. With it
`CommitIsEnqueue` shows that a commit is an `Enqueue` with all that `OutboxRelay` assumes of one: the
first OrderCreated of its order, or a settlement stamped after that was committed (`WritesAreSound`).
That gives `RelayImplemented`, and the relay's invariant; with it `StoreIsDelivery` shows that what is
stored is the message of a row on the topic of its type, which gives `BillingImplemented` and the
consumers' theorems. What is new are two invariants between the parts. `LogIsFromOutbox`: an event
on a topic has a row of this type. `PublishedIsLogged`: a row the relay has written, if the broker did
not lose it, has its message on the topic. `InvoicesFollow` then goes back from the invoice to its
message (`InvoicesCaused`), to the row, and, because the last event of an order decides its status
and a settlement is never before its OrderCreated, to the order (`RowsShow`). `SentTakenIn` goes
forward, from the row to the topic and with `CommittedTookEffect` to the invoice. `InvoicesAgreeWithOrders`
goes back from a settled invoice to a row of this settlement (`InvoiceHasRow`); if the order has
another status, the other settlement has a row too. `InvoicesSettleAsOrders`: an order whose two settlements are
both on the topics, which `InvoicesForward` makes the only way out of the documented state machine, has been
settled both ways by handlers, or somebody else wrote to the topic. So the disagreement that `billing_race`
shows has its cause in the order service, with any number of requests and whatever fails.

Only model-checked: all liveness (`EventuallySent`, `ConsumersDrain`, `StopsOnSignal`, `ComesBack`), which
is outside of what the proof system handles.

## 5. Not modelled

* Logging and request ids: output only. The Kafka and invoice counters, the histograms and the
  gauges of the connection pool are left out of the metrics; note that a malformed message goes
  to the DLQ without being counted in `kafka_messages_failed_total` (`handlers.go:102`).
* The message types protoc generates, and the generated handlers of `billing_service`, which
  repeat those of `order_service`.
* Error wording, and the text format of `money.Money`, which neither table uses.
* Panics and requests that do not decode have no property of their own: that they are missing from
  `grpc_requests_total`, which `README.MD:356` calls the request count, can be read off `Recover`.
* Time: backoff, jitter, ticker interval and deadlines appear only as "may happen later".
* Several partitions a topic, and several replicas of a service. A partition more would weaken
  the order between messages of different orders only, if messages were keyed by order; the
  relay's `LeastBytes` balancer ignores the key, so that copies of an event could be
  handled at the same time by two replicas.

## 6. What could follow

* Liveness of the two services together: a committed event is in the end handled or in the DLQ. It
  would need `EventuallySent` and `ConsumersDrain` under the fairness of both, and a bound on the
  rows that are too large.
* Several partitions of a topic, with the relay's balancer, and several replicas of a service.
