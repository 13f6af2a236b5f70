----------------------------- MODULE OrderBilling -----------------------------
(***************************************************************************)
(* The two services together.  Handlers and relay share the table          *)
(* outbox_events, and the process they run in; relay and consumers share   *)
(* the topics.  What OutboxRelay assumes of the rows and BillingConsumer   *)
(* of the messages is here done by the component before.  Each component   *)
(* is an instance of the module with its proofs, whose theorems can then   *)
(* be cited of these actions.                                              *)
(***************************************************************************)
EXTENDS OrderService

\* The constants of OutboxRelay and of BillingConsumer.
CONSTANTS Oversized, BatchSize, MaxEvents, MaxFaults,
          Kinds, Attempts, MaxMessages, MaxDisruptions

\* The variables of OutboxRelay, and of BillingConsumer.
VARIABLES batch, written, published, dropped, failed, faults,
          log, committed, position, consumer, invoices, processed, dlq, lost, gauge, baseline,
          stopping, disruptions

Relay == INSTANCE OutboxRelayProofs

Billing == INSTANCE BillingConsumerProofs

\* The outbox as the handlers know it: they write rows, and never look at one.
Unsent == [i \in DOMAIN outbox |-> [outbox[i] EXCEPT !.status = "PENDING"]]

Service == INSTANCE OrderServiceProofs WITH outbox <- Unsent

\* The assumptions of the components, and that the relay publishes events.
SystemAssumption ==
  /\ Service!HandlersAssumption
  /\ Relay!RelayAssumption
  /\ Billing!ConsumerAssumption
  /\ "event" \in Kinds

relay == <<batch, written, published, dropped, failed, faults>>
billing == <<log, committed, position, consumer, invoices, processed, dlq, lost, gauge, baseline,
             stopping, disruptions>>
systemVars == <<vars, relay, billing>>

SystemInit == Init /\ Relay!Init /\ Billing!Init

-----------------------------------------------------------------------------
\* A request is served, a transaction commits.
Serve(h) ==
  /\ Step(h)
  /\ Len(outbox') <= MaxEvents
  /\ UNCHANGED <<relay, billing>>

\* What the relay writes about a row.
MessageOf(i) == [order |-> outbox[i].order, kind |-> "event"]

\* topicMap: an event type has a topic of its own.
Deliver(i) == Billing!Publish(outbox[i].type, MessageOf(i))

\* A call of processOnce.  A message that the broker stores is on its topic.
Carry ==
  /\ Relay!Process
  /\ \/ published' = published /\ UNCHANGED billing
     \/ published' # published /\ Deliver(published'[Len(published')])
  /\ UNCHANGED <<orders, handler, replies>>

\* The context of the relay is cancelled; requests are still served.
RelayStops == Relay!Crash /\ UNCHANGED <<orders, handler, replies, billing>>

\* order_service dies, with its handlers and its relay.
OrderServiceDies ==
  /\ Crash \/ ((\A h \in Handlers : handler[h] = Idle) /\ UNCHANGED vars)
  /\ Relay!Crash \/ (batch = <<>> /\ UNCHANGED relay)
  /\ UNCHANGED billing

\* A message that is not from the relay.
Odd(t) == \E m \in Billing!Message : m.kind # "event" /\ Billing!Publish(t, m)

\* A step of billing_service.
Bill ==
  /\ \/ \E t \in EventTypes : Billing!Consume(t) \/ Billing!Rebalance(t) \/ Odd(t)
     \/ Billing!Crash \/ Billing!Shutdown \/ Billing!Restart
  /\ UNCHANGED <<vars, relay>>

SystemNext == (\E h \in Handlers : Serve(h)) \/ Carry \/ RelayStops \/ OrderServiceDies \/ Bill

SystemSpec == SystemInit /\ [][SystemNext]_systemVars

-----------------------------------------------------------------------------
\* The relay and the consumers do not disturb the handlers; the handlers commit
\* rows as the relay assumes them; the relay publishes what the consumers expect.
ServiceIsImplemented == Service!Spec
RelayIsImplemented == Relay!Spec
BillingIsImplemented == Billing!Spec

\* A message without headers, of nobody knows whom.
Bare(t, o) == \E j \in DOMAIN log[t] : log[t][j] = [order |-> o, kind |-> "bare"]

\* The databases of the two services agree: an invoice is never ahead of its
\* order, whatever is repeated, reordered or lost between them.  Unless somebody
\* else wrote to the topics it was created for an order that exists, and
\* settled for one that is.
InvoicesFollowOrders ==
  \A o \in Orders :
    /\ invoices[o] = "PENDING" => orders[o] # NoRow \/ Bare("OrderCreated", o)
    /\ \A t \in Settlements :
         invoices[o] = InvoiceAfter[t] => orders[o] \in {"PAID", "CANCELLED"} \/ Bare(t, o)

\* From the outbox to the invoice: the message of a row marked SENT is on its
\* topic or was lost by the broker; and once the consumers have committed past
\* it, the invoice shows its effect, or it was given up for the DLQ.
SentTakesEffect ==
  \A i \in Relay!Sent :
    LET t == outbox[i].type IN
      \/ i \in dropped
      \/ \E j \in DOMAIN log[t] :
           /\ log[t][j] = MessageOf(i)
           /\ j <= committed[t] =>
                Billing!Applied(t, outbox[i].order) \/ Billing!GivenUp(t, Billing!eventID(t, j))

\* Some handler has settled the order this way.
Issued(t, o) == \E i \in DOMAIN outbox : outbox[i].type = t /\ outbox[i].order = o

\* Somebody else has put a message on the topic that names the order.
Foreign(t, o) == \E j \in DOMAIN log[t] : log[t][j].order = o /\ log[t][j].kind # "event"

\* A settled invoice says what its order says, unless handlers have settled the
\* order both ways, or the message had no headers.
InvoicesAgree ==
  \A o \in Orders, t \in Settlements :
    invoices[o] = InvoiceAfter[t] =>
      orders[o] = StatusAfter[t] \/ (\A u \in Settlements : Issued(u, o)) \/ Bare(t, o)

\* An invoice leaves the documented state machine only if its order was settled
\* both ways: crashes, redeliveries and lost answers alone do not get it there.
InvoicesSettleOnce ==
  [][\A o \in Orders :
       invoices'[o] # invoices[o] =>
         \/ <<invoices[o], invoices'[o]>> \in {<<NoRow, "PENDING">>, <<"PENDING", "PAID">>,
                                               <<"PENDING", "CANCELLED">>}
         \/ \A t \in Settlements : Issued(t, o) \/ Foreign(t, o)]_invoices
==============================================================================
