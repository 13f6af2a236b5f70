---------------------------- MODULE OrderService ----------------------------
(***************************************************************************)
(* order_service: the gRPC handlers over the tables `orders` and           *)
(* `outbox_events`.  Every request runs in a goroutine of its own.         *)
(* MarkOrderPaid and CancelOrder read the order, decide, and only then     *)
(* open the transaction that saves the order and its event: what a handler *)
(* decided on may be stale by the time it writes.                          *)
(***************************************************************************)
EXTENDS OrderEvents, Sequences, FiniteSets

CONSTANTS Orders,     \* the ids uuid.NewString can draw
          Handlers    \* the requests at work at the same time: each until Postgres has
                      \* decided its transaction, even if it was answered before

ASSUME HandlersAssumption == IsFiniteSet(Handlers)

VARIABLES orders,     \* table orders: the status column of every row
          outbox,     \* table outbox_events, in the order of the commits
          handler,    \* what every goroutine is about to write
          replies     \* the definite answers clients have been given

vars == <<orders, outbox, handler, replies>>

Idle == [op |-> "none"]

\* A goroutine holding the order and the event it is going to save.
Write == [op : EventTypes, order : Orders, stamp : Nat]

TypeOK ==
  /\ orders \in [Orders -> OrderStatus \cup {NoRow}]
  /\ outbox \in Seq(OutboxEvent(Orders))
  /\ handler \in [Handlers -> Write \cup {Idle}]
  /\ replies \subseteq EventTypes \X Orders \X {"OK", "FailedPrecondition"}

Init ==
  /\ orders = [o \in Orders |-> NoRow]
  /\ outbox = <<>>
  /\ handler = [h \in Handlers |-> Idle]
  /\ replies = {}

-----------------------------------------------------------------------------
\* Variant: created_at left at its zero value.
ZeroTime == 0

\* time.Now(), as coarse as it matters: the number of events committed so far.
\* Of two events with the same stamp either may carry the older created_at.
Now == Len(outbox)

\* The decision is taken: the order in memory has its new status and the event
\* is built; the transaction has not started.
Prepare(h, o, t) ==
  /\ handler' = [handler EXCEPT ![h] = [op |-> t, order |-> o, stamp |-> Now]]
  /\ UNCHANGED <<orders, outbox, replies>>

\* The call ends with an answer and writes nothing.
Answer(o, t, code) ==
  /\ replies' = replies \cup {<<t, o, code>>}
  /\ UNCHANGED <<orders, outbox, handler>>

\* Variant: the id is not drawn afresh, and tx.Save updates the row it finds.
AnyId(o) == TRUE

\* A uuid that no row carries and no other goroutine has drawn.
Fresh(o) ==
  /\ orders[o] = NoRow
  /\ \A g \in Handlers : handler[g] # Idle => handler[g].order # o

\* Valid items have been priced; invalid ones were refused with
\* InvalidArgument before any state was touched.
CreateOrder(h, o) ==
  /\ handler[h] = Idle
  /\ Fresh(o)
  /\ Prepare(h, o, "OrderCreated")

\* Variant: MarkOrderPaid without the check of the status.
MarkOrderPaidUnchecked(h, o) ==
  /\ handler[h] = Idle
  /\ orders[o] # NoRow
  /\ Prepare(h, o, "OrderPaid")

\* repo.GetOrder finds the row.  A missing row and a failed query are both
\* answered NotFound, which changes nothing and promises nothing.
MarkOrderPaid(h, o) ==
  /\ handler[h] = Idle
  /\ orders[o] # NoRow
  /\ \/ orders[o] = "CREATED" /\ Prepare(h, o, "OrderPaid")
     \/ orders[o] # "CREATED" /\ Answer(o, "OrderPaid", "FailedPrecondition")

CancelOrder(h, o) ==
  /\ handler[h] = Idle
  /\ orders[o] # NoRow
  /\ \/ orders[o] = "PAID" /\ Answer(o, "OrderCancelled", "FailedPrecondition")
     \/ orders[o] = "CANCELLED" /\ Answer(o, "OrderCancelled", "OK")
     \/ orders[o] = "CREATED" /\ Prepare(h, o, "OrderCancelled")

\* Variant: the event is written outside of the transaction, and fails.
CommitOrderOnly(w) ==
  /\ orders' = [orders EXCEPT ![w.order] = StatusAfter[w.op]]
  /\ UNCHANGED outbox

\* Variant: the event type ends up in the status column.
CommitEventType(w) ==
  /\ orders' = [orders EXCEPT ![w.order] = w.op]
  /\ outbox' = Append(outbox, [order |-> w.order, type |-> w.op,
                               createdAt |-> w.stamp, status |-> "PENDING"])

\* COMMIT: tx.Save overwrites the row by primary key, whatever it holds by now,
\* and SaveTx inserts the event.
Commit(w) ==
  /\ orders' = [orders EXCEPT ![w.order] = StatusAfter[w.op]]
  /\ outbox' = Append(outbox, [order |-> w.order, type |-> w.op,
                               createdAt |-> w.stamp, status |-> "PENDING"])

\* Variant: the error of the transaction is not returned.
WriteIgnoringError(h) ==
  /\ handler[h] # Idle
  /\ Commit(handler[h]) \/ UNCHANGED <<orders, outbox>>
  /\ replies' = replies \cup {<<handler[h].op, handler[h].order, "OK">>}
  /\ handler' = [handler EXCEPT ![h] = Idle]

\* The transaction, and the answer that follows it: it commits, or it commits
\* and the connection fails before the handler learns of it, or it rolls back.
\* The last two are answered Internal.
WriteWithOutbox(h) ==
  /\ handler[h] # Idle
  /\ \/ /\ Commit(handler[h])
        /\ replies' = replies \cup {<<handler[h].op, handler[h].order, "OK">>}
     \/ Commit(handler[h]) /\ UNCHANGED replies
     \/ UNCHANGED <<orders, outbox, replies>>
  /\ handler' = [handler EXCEPT ![h] = Idle]

\* The process dies, or is stopped past its deadline, and starts again: only
\* the tables survive.
Crash ==
  /\ \E h \in Handlers : handler[h] # Idle
  /\ handler' = [h \in Handlers |-> Idle]
  /\ UNCHANGED <<orders, outbox, replies>>

Step(h) ==
  \/ \E o \in Orders : CreateOrder(h, o) \/ MarkOrderPaid(h, o) \/ CancelOrder(h, o)
  \/ WriteWithOutbox(h)

Next == Crash \/ \E h \in Handlers : Step(h)

Spec == Init /\ [][Next]_vars

-----------------------------------------------------------------------------
\* The events of an order, as indices into the outbox.
EventsOf(o) == {i \in DOMAIN outbox : outbox[i].order = o}

\* Outbox atomicity (writeWithOutbox): an order has a row exactly when it has
\* events, and its status is the one its latest event announces, however many
\* handlers raced on it, failed half-way or died.
StatusIsLastEvent ==
  \A o \in Orders :
    /\ orders[o] = NoRow => EventsOf(o) = {}
    /\ orders[o] # NoRow =>
         \E i \in EventsOf(o) : /\ StatusAfter[outbox[i].type] = orders[o]
                                /\ \A j \in EventsOf(o) : j <= i

\* Every order has exactly one OrderCreated event, and its created_at, which
\* orders the relay's batches, is older than that of any other of its events.
CreatedIsOldest ==
  \A o \in Orders : \A i, j \in EventsOf(o) :
    outbox[i].type = "OrderCreated" /\ i # j =>
      /\ outbox[j].type # "OrderCreated"
      /\ outbox[i].createdAt < outbox[j].createdAt

\* A client that was told OK (also by a CancelOrder that found the order
\* cancelled and wrote nothing) has its event in the outbox, so the relay will
\* find it after any crash.
AcksAreBacked ==
  \A o \in Orders, t \in EventTypes :
    <<t, o, "OK">> \in replies => \E i \in EventsOf(o) : outbox[i].type = t

\* A refusal with FailedPrecondition stays right: the order never becomes
\* payable or cancellable again, whatever stale handlers still write.
RefusalsAreFinal ==
  \A o \in Orders, t \in EventTypes :
    <<t, o, "FailedPrecondition">> \in replies => orders[o] \in {"PAID", "CANCELLED"}

\* The rows of the outbox that settle an order.
SettlementsOf(o) == {i \in EventsOf(o) : outbox[i].type \in Settlements}

\* Nothing keeps two handlers from settling the same order, but no order is
\* settled more often than there are handlers that can have read it CREATED:
\* stale writes do not breed new ones, whatever is retried.
SettledOncePerHandler ==
  \A o \in Orders : Cardinality(SettlementsOf(o)) <= Cardinality(Handlers)

\* The order state machine of the README, and of the refusals in MarkOrderPaid
\* and CancelOrder: an order leaves CREATED once, for PAID or for CANCELLED.
OrderStateMachine ==
  [][\A o \in Orders :
       orders'[o] # orders[o] =>
         <<orders[o], orders'[o]>> \in {<<NoRow, "CREATED">>, <<"CREATED", "PAID">>,
                                        <<"CREATED", "CANCELLED">>}]_orders

\* No client is told an order is paid while another is told it is cancelled.
NoContradictoryAcks ==
  \A o \in Orders :
    ~ (<<"OrderPaid", o, "OK">> \in replies /\ <<"OrderCancelled", o, "OK">> \in replies)

\* The rows of the outbox, as the ledger of the abstract specification.
Announced == [i \in DOMAIN outbox |-> <<outbox[i].order, outbox[i].type>>]

Outboxed == INSTANCE OrderLedger WITH
              status <- orders, ledger <- Announced

\* With any number of handlers the service is a ledger: status and event change
\* together or not at all (a stale handler may settle an order again).
ImplementsLedger == Outboxed!Spec
=============================================================================
