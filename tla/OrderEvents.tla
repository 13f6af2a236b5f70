----------------------------- MODULE OrderEvents -----------------------------
(***************************************************************************)
(* The vocabulary the two services share: the order events, the topics     *)
(* they travel on, and the order and invoice statuses they lead to.        *)
(***************************************************************************)
EXTENDS Naturals

\* The event types.  topicMap (order_service) and topicHandlers
\* (billing_service) send each of them to a topic and a handler of its own,
\* so an event type also names its topic.
EventTypes == {"OrderCreated", "OrderPaid", "OrderCancelled"}

\* The events that settle an order, one way or the other.
Settlements == EventTypes \ {"OrderCreated"}

OrderStatus == {"CREATED", "PAID", "CANCELLED"}

InvoiceStatus == {"PENDING", "PAID", "CANCELLED"}

\* No row with this id in the table.
NoRow == "no row"

\* A row of outbox_events about one of these orders.  The model keeps the rows
\* in the order of their commits: the index of a row stands for its uuid key.
OutboxEvent(ids) ==
  [order : ids, type : EventTypes, createdAt : Nat, status : {"PENDING", "SENT"}]

\* The order status written together with an event of each type.
StatusAfter ==
  [t \in EventTypes |-> CASE t = "OrderCreated" -> "CREATED"
                          [] t = "OrderPaid" -> "PAID"
                          [] t = "OrderCancelled" -> "CANCELLED"]

\* The invoice status the handler of each event type writes.
InvoiceAfter ==
  [t \in EventTypes |-> CASE t = "OrderCreated" -> "PENDING"
                          [] t = "OrderPaid" -> "PAID"
                          [] t = "OrderCancelled" -> "CANCELLED"]
==============================================================================
