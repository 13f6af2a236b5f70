--------------------------- MODULE BillingConsumer ---------------------------
(***************************************************************************)
(* billing_service: three consumers, one per topic, each in a goroutine    *)
(* and a consumer group of its own, over the tables `invoices` and         *)
(* `processed_events`.  A message goes through the idempotency check, up   *)
(* to Attempts runs of its handler, and then Save and CommitMessages, or   *)
(* the dead letter queue and CommitMessages.  Each of these is a separate  *)
(* call to Postgres or Kafka: it may fail, also after it has taken effect, *)
(* and the process may stop before the next one.  A group may rebalance at *)
(* any time, also while its consumer has a message in hand.                *)
(***************************************************************************)
EXTENDS OrderEvents, Integers, Sequences, FiniteSets

CONSTANTS Orders,          \* order ids
          Kinds,           \* the kinds of messages producers put on the topics
          Attempts,        \* runs of a handler before Retry gives up: 3 in the code
          MaxMessages,     \* bound: messages on the topics
          MaxDisruptions   \* bound: failed calls, shutdowns, crashes, rebalances, odd messages

ASSUME ConsumerAssumption ==
  /\ IsFiniteSet(Orders)
  /\ Kinds \subseteq {"event", "malformed", "bare"}
  /\ Attempts \in Nat \ {0}
  /\ MaxMessages \in Nat
  /\ MaxDisruptions \in Nat

VARIABLES log,          \* the topics, one partition each
          committed,    \* the offset every consumer group has committed
          position,     \* the offset every reader has handed out last
          consumer,     \* every goroutine: the message in hand, the call it makes next
          invoices,     \* table invoices: the status column, by order_id (unique)
          processed,    \* table processed_events: its keys
          dlq,          \* messages stored on billing-dlq-topic
          lost,         \* history: messages whose DLQ Send did not store them
          gauge,        \* invoice_state_total, by status
          baseline,     \* history: the invoices when the process started
          stopping,     \* SIGTERM received: the context of every call is cancelled
          disruptions   \* disruptions so far

stores == <<invoices, processed, dlq, lost>>
metrics == <<gauge, baseline>>
vars == <<log, committed, position, consumer, stores, metrics, stopping, disruptions>>

\* "event": what the relay publishes.  "malformed": the headers of an event, but
\* a payload that does not decode or names no order.  "bare": no headers.
Message == [order : Orders, kind : Kinds]

\* processMessage, by the call it makes next; "fetch" is outside of it.
PC == {"fetch", "exists", "get", "write", "dec", "inc", "dlq", "save", "commit"}

Consumer == [pc : PC, tries : 0 .. Attempts, offset : Nat]

AtFetch == [pc |-> "fetch", tries |-> 0, offset |-> 0]

\* An event id, from the headers or else from the offset, in two formats that
\* never give the same string.
EventIds == ({"headers"} \X EventTypes \X Orders) \cup ({"offset"} \X EventTypes \X Nat)

\* A message, by topic and offset.
Offsets == EventTypes \X Nat

TypeOK ==
  /\ log \in [EventTypes -> Seq(Message)]
  /\ position \in [EventTypes -> Nat]
  /\ committed \in [EventTypes -> Nat]
  /\ consumer \in [EventTypes -> Consumer]
  /\ \A t \in EventTypes :
       /\ {position[t], committed[t], consumer[t].offset} \subseteq 0 .. Len(log[t])
       /\ consumer[t].offset = 0 <=> consumer[t].pc = "fetch"
  /\ invoices \in [Orders -> InvoiceStatus \cup {NoRow}]
  /\ processed \subseteq EventIds
  /\ dlq \subseteq Offsets
  /\ lost \subseteq Offsets
  /\ gauge \in [InvoiceStatus -> Int]
  /\ baseline \in [Orders -> InvoiceStatus \cup {NoRow}]
  /\ stopping \in BOOLEAN
  /\ disruptions \in 0 .. MaxDisruptions

Init ==
  /\ log = [t \in EventTypes |-> <<>>]
  /\ committed = [t \in EventTypes |-> 0]
  /\ position = [t \in EventTypes |-> 0]
  /\ consumer = [t \in EventTypes |-> AtFetch]
  /\ invoices = [o \in Orders |-> NoRow]
  /\ processed = {}
  /\ dlq = {}
  /\ lost = {}
  /\ gauge = [s \in InvoiceStatus |-> 0]
  /\ baseline = invoices
  /\ stopping = FALSE
  /\ disruptions = 0

-----------------------------------------------------------------------------
\* The message a consumer is working on.
Current(t) == log[t][consumer[t].offset]

\* Variant: the event id without the event type.
eventIDByOrder(t, i) == <<"headers", "OrderCreated", log[t][i].order>>

eventID(t, i) ==
  IF log[t][i].kind = "bare" THEN <<"offset", t, i>> ELSE <<"headers", t, log[t][i].order>>

CurrentID(t) == eventID(t, consumer[t].offset)

Disrupt == disruptions < MaxDisruptions /\ disruptions' = disruptions + 1

\* A call returns no error; once the context is cancelled none does.
Succeeds == ~ stopping /\ UNCHANGED disruptions

\* A call returns an error.
Fails == (stopping /\ UNCHANGED disruptions) \/ Disrupt

At(t, pc) == consumer[t].pc = pc

\* Retry's count of failed runs is gone when Retry has returned.
Goto(t, pc) ==
  consumer' = [consumer EXCEPT
    ![t] = [pc |-> pc, tries |-> IF pc \in {"get", "write"} THEN @.tries ELSE 0,
            offset |-> @.offset]]

\* processMessage returns.
Return(t) == consumer' = [consumer EXCEPT ![t] = AtFetch]

\* Steps inside processMessage move neither the topics nor the reader.
Within == UNCHANGED <<log, position, baseline, stopping>>

\* The messages on the topics, counted.
Arrived == Len(log["OrderCreated"]) + Len(log["OrderPaid"]) + Len(log["OrderCancelled"])

\* A message arrives, possibly a copy of one the relay published before, and
\* possibly of an order that is both paid and cancelled (see OrderService).
Publish(t, m) ==
  /\ Arrived < MaxMessages
  /\ IF m.kind = "event" THEN UNCHANGED disruptions ELSE Disrupt
  /\ log' = [log EXCEPT ![t] = Append(@, m)]
  /\ UNCHANGED <<committed, position, consumer, stores, metrics, stopping>>

\* FetchMessage hands out the next message, whatever became of the last one.
FetchMessage(t) ==
  /\ At(t, "fetch")
  /\ ~ stopping
  /\ position[t] < Len(log[t])
  /\ position' = [position EXCEPT ![t] = @ + 1]
  /\ consumer' = [consumer EXCEPT
       ![t] = [pc |-> "exists", tries |-> 0, offset |-> position[t] + 1]]
  /\ UNCHANGED <<log, committed, stores, metrics, stopping, disruptions>>

\* Variant: the event id is saved before the event is handled.
ExistsOrSave(t) ==
  /\ At(t, "exists")
  /\ Succeeds
  /\ Goto(t, IF CurrentID(t) \in processed THEN "commit" ELSE "get")
  /\ processed' = processed \cup {CurrentID(t)}
  /\ Within /\ UNCHANGED <<committed, invoices, dlq, lost, gauge>>

\* If the check itself fails the message is processed anyway.
Exists(t) ==
  /\ At(t, "exists")
  /\ \/ Succeeds /\ Goto(t, IF CurrentID(t) \in processed THEN "commit" ELSE "get")
     \/ Fails /\ Goto(t, "get")
  /\ Within /\ UNCHANGED <<committed, stores, gauge>>

\* Variant: Retry does not count.
RetryForever(t) == Goto(t, "get")

\* A run of the handler returned an error: Retry runs it again or gives up.
AttemptFailed(t) ==
  consumer' = [consumer EXCEPT
    ![t] = IF @.tries + 1 < Attempts
             THEN [pc |-> "get", tries |-> @.tries + 1, offset |-> @.offset]
             ELSE [pc |-> "dlq", tries |-> 0, offset |-> @.offset]]

\* The context is cancelled while Retry waits for the next run.
RetryCancelled(t) ==
  /\ stopping
  /\ At(t, "get") /\ consumer[t].tries > 0
  /\ Goto(t, "dlq")
  /\ Within /\ UNCHANGED <<committed, stores, gauge, disruptions>>

\* DLQProducer.Send: the message is on the topic, or the error is only logged,
\* or (no acknowledgement is asked for) there is no error either.
Send(t) ==
  /\ \/ dlq' = dlq \cup {<<t, consumer[t].offset>>} /\ UNCHANGED <<lost, disruptions>>
     \/ Fails /\ lost' = lost \cup {<<t, consumer[t].offset>>} /\ UNCHANGED dlq
  /\ UNCHANGED <<invoices, processed>>

\* A payload the handler cannot use goes to the DLQ, and the handler is done.
HandleMalformed(t) ==
  /\ At(t, "get")
  /\ Current(t).kind = "malformed"
  /\ Send(t)
  /\ Goto(t, "save")
  /\ Within /\ UNCHANGED <<committed, gauge>>

\* What each handler does about the invoice it has read.
HandleOrderCreated(t, row) == IF row = NoRow THEN Goto(t, "write") ELSE Goto(t, "save")

HandleOrderPaid(t, row) == IF row = "PENDING" THEN Goto(t, "write") ELSE AttemptFailed(t)

HandleOrderCancelled(t, row) ==
  CASE row = "PENDING" -> Goto(t, "write")
    [] row = "CANCELLED" -> Goto(t, "save")
    [] OTHER -> AttemptFailed(t)

Decide(t, row) ==
  CASE t = "OrderCreated" -> HandleOrderCreated(t, row)
    [] t = "OrderPaid" -> HandleOrderPaid(t, row)
    [] t = "OrderCancelled" -> HandleOrderCancelled(t, row)

\* repo.Get, and the decision on what it returned.  An error is treated the way
\* a missing row is.
Get(t) ==
  /\ At(t, "get")
  /\ Current(t).kind # "malformed"
  /\ \/ Succeeds /\ Decide(t, invoices[Current(t).order])
     \/ Fails /\ Decide(t, NoRow)
  /\ Within /\ UNCHANGED <<committed, stores, gauge>>

\* Variant: the invoice is saved by order_id (an upsert) instead of created.
Upsert(t, row) == TRUE

\* INSERT is refused by the unique index; UPDATE ... WHERE order_id has no
\* condition on the status the handler saw.
Writable(t, row) == t = "OrderCreated" => row = NoRow

SetInvoice(t) ==
  /\ Writable(t, invoices[Current(t).order])
  /\ invoices' = [invoices EXCEPT ![Current(t).order] = InvoiceAfter[t]]

\* repo.Create and repo.UpdateStatus.  The gauge is moved when they have returned.
WriteInvoice(t) ==
  /\ At(t, "write")
  /\ \/ /\ Succeeds /\ SetInvoice(t)
        /\ Goto(t, IF t = "OrderCreated" THEN "inc" ELSE "dec")
     \/ /\ Succeeds /\ ~ Writable(t, invoices[Current(t).order])
        /\ AttemptFailed(t) /\ UNCHANGED invoices
     \/ /\ Fails /\ AttemptFailed(t)
        /\ SetInvoice(t) \/ UNCHANGED invoices
  /\ Within /\ UNCHANGED <<committed, processed, dlq, lost, gauge>>

\* The gauge is in memory: moving it is not a call that can fail.
MoveGauge(t, s, d) ==
  /\ gauge' = [gauge EXCEPT ![s] = @ + d]
  /\ Within /\ UNCHANGED <<committed, stores, disruptions>>

\* Variant: PENDING is not decremented.
KeepPending(t) == At(t, "dec") /\ Goto(t, "inc") /\ MoveGauge(t, "PENDING", 0)

\* A settled invoice is no longer PENDING.
DecPending(t) == At(t, "dec") /\ Goto(t, "inc") /\ MoveGauge(t, "PENDING", -1)

\* The last statement of each handler.
IncStatus(t) == At(t, "inc") /\ Goto(t, "save") /\ MoveGauge(t, InvoiceAfter[t], 1)

\* Retry has given up.
DeadLetter(t) ==
  /\ At(t, "dlq")
  /\ Send(t)
  /\ Goto(t, "commit")
  /\ Within /\ UNCHANGED <<committed, gauge>>

\* INSERT into processed_events, with the event id as primary key.  On an error
\* processMessage returns and the offset is not committed.
Save(t) ==
  /\ At(t, "save")
  /\ \/ /\ Succeeds /\ CurrentID(t) \notin processed
        /\ processed' = processed \cup {CurrentID(t)} /\ Goto(t, "commit")
     \/ Succeeds /\ CurrentID(t) \in processed /\ Return(t) /\ UNCHANGED processed
     \/ /\ Fails /\ Return(t)
        /\ processed' \in {processed, processed \cup {CurrentID(t)}}
  /\ Within /\ UNCHANGED <<committed, invoices, dlq, lost, gauge>>

\* Variant: off by one, the offset after the next message is committed.
CommitNextOffset(t) ==
  /\ At(t, "commit")
  /\ committed' = [committed EXCEPT ![t] = consumer[t].offset + 1] /\ UNCHANGED disruptions
  /\ Return(t)
  /\ Within /\ UNCHANGED <<stores, gauge>>

\* An offset stands for all the messages before it.  A commit may go through
\* after the context is cancelled: it is queued before the context is looked at.
\* After a rebalance it still is of the message in hand, wherever the reader is.
CommitMessages(t) ==
  /\ At(t, "commit")
  /\ \/ committed' = [committed EXCEPT ![t] = consumer[t].offset] /\ UNCHANGED disruptions
     \/ Fails /\ UNCHANGED committed
  /\ Return(t)
  /\ Within /\ UNCHANGED <<stores, gauge>>

\* The readers start again from the committed offsets, and the gauge from 0.
Resume ==
  /\ gauge' = [s \in InvoiceStatus |-> 0]
  /\ baseline' = invoices
  /\ position' = committed
  /\ consumer' = [t \in EventTypes |-> AtFetch]
  /\ stopping' = FALSE
  /\ UNCHANGED <<log, committed, stores>>

Crash == ~ stopping /\ Disrupt /\ Resume

\* SIGTERM: Run closes readers and returns without waiting for the consumers.
Shutdown ==
  /\ ~ stopping
  /\ Disrupt
  /\ stopping' = TRUE
  /\ UNCHANGED <<log, committed, position, consumer, stores, metrics>>

Restart == stopping /\ Resume /\ UNCHANGED disruptions

\* The group rebalances, in the background of processMessage: the reader goes
\* back to what is committed, and the consumer keeps the message it has in hand.
Rebalance(t) ==
  /\ ~ stopping
  /\ Disrupt
  /\ position' = [position EXCEPT ![t] = committed[t]]
  /\ UNCHANGED <<log, committed, consumer, stores, metrics, stopping>>

\* One call of a consumer's loop.
Consume(t) ==
  \/ FetchMessage(t) \/ Exists(t) \/ RetryCancelled(t) \/ HandleMalformed(t) \/ Get(t)
  \/ WriteInvoice(t) \/ DecPending(t) \/ IncStatus(t) \/ DeadLetter(t) \/ Save(t)
  \/ CommitMessages(t)

Next ==
  \/ \E t \in EventTypes : Consume(t) \/ Rebalance(t) \/ \E m \in Message : Publish(t, m)
  \/ Crash \/ Shutdown \/ Restart

Spec == Init /\ [][Next]_vars

\* The goroutines keep running, and a service that stops is started again.  No
\* fairness between the goroutines is asked for.
FairSpec == Spec /\ WF_vars(\E t \in EventTypes : Consume(t)) /\ WF_vars(Restart)

-----------------------------------------------------------------------------
\* Both settlements of the order are on the topics.
Contended(o) ==
  \A t \in Settlements : \E i \in DOMAIN log[t] : log[t][i].order = o

\* The invoice shows the effect of the event: of two settlements either.
Applied(t, o) ==
  invoices[o] \in
    CASE t = "OrderCreated" -> InvoiceStatus
      [] t # "OrderCreated" /\ Contended(o) -> {"PAID", "CANCELLED"}
      [] OTHER -> {InvoiceAfter[t]}

\* A message with this event id was handed to the dead letter producer.
GivenUp(t, id) == \E i \in DOMAIN log[t] : eventID(t, i) = id /\ <<t, i>> \in dlq \cup lost

\* No message is passed over: below the committed offset of a topic the invoice
\* shows the effect of every message, or its event was given up for the DLQ.
\* It holds although a failed Save leaves a message to be overtaken by the
\* commit of the next one.
CommittedHasEffect ==
  \A t \in EventTypes : \A i \in 1 .. committed[t] :
    Applied(t, log[t][i].order) \/ GivenUp(t, eventID(t, i))

\* What the idempotency check relies on when it skips a message: an event id in
\* processed_events belongs to a message whose effect is in the invoices or
\* that was handed to the DLQ.
ProcessedHasEffect ==
  \A t \in EventTypes : \A i \in DOMAIN log[t] :
    eventID(t, i) \in processed =>
      Applied(t, log[t][i].order) \/ GivenUp(t, eventID(t, i))

\* Redeliveries, retries and restarts move no invoice backwards, and only two
\* settlements that race move one sideways.
InvoicesMoveForward ==
  [][\A o \in Orders :
       invoices'[o] # invoices[o] =>
         \/ <<invoices[o], invoices'[o]>> \in {<<NoRow, "PENDING">>, <<"PENDING", "PAID">>,
                                               <<"PENDING", "CANCELLED">>}
         \/ Contended(o) /\ {invoices[o], invoices'[o]} = {"PAID", "CANCELLED"}]_invoices

\* The invoices with status s in a table.
Count(table, s) == Cardinality({o \in Orders : table[o] = s})

\* How far the gauge is from what the process has done to the table.
Drift(s) == gauge[s] - (Count(invoices, s) - Count(baseline, s))

\* The messages on the topics that no relay has published.
OddMessages ==
  {m \in EventTypes \X (1 .. MaxMessages) :
     m[2] <= Len(log[m[1]]) /\ log[m[1]][m[2]].kind # "event"}

\* Failed calls, shutdowns, crashes and rebalances.
Failures == disruptions - Cardinality(OddMessages)

\* The consumers whose write has returned and whose gauge has not moved yet.
Lagging == {t \in EventTypes : consumer[t].pc \in {"dec", "inc"}}

\* invoice_state_total, from which the alert on pending invoices is computed,
\* follows the table since the start of the process: it is off by one at most
\* for every consumer between its write and the last statement of its handler,
\* for every failed call or restart and for every order settled twice; and in a
\* process that is shutting down for the write each consumer may have in hand.
GaugeDrift ==
  LET slack == Failures + Cardinality(Lagging) + Cardinality({o \in Orders : Contended(o)})
                 + (IF stopping THEN Cardinality(EventTypes) ELSE 0)
  IN  \A s \in InvoiceStatus : Drift(s) \in -slack .. slack

\* The invoice state machine of the README: PENDING, then one settlement.
InvoiceStateMachine ==
  [][\A o \in Orders :
       invoices'[o] # invoices[o] =>
         <<invoices[o], invoices'[o]>> \in {<<NoRow, "PENDING">>, <<"PENDING", "PAID">>,
                                            <<"PENDING", "CANCELLED">>}]_invoices

\* "Each processed event is stored in processed_events": below the committed
\* offset every message has its event id stored or was given up.
CommittedIsRecorded ==
  \A t \in EventTypes : \A i \in 1 .. committed[t] :
    eventID(t, i) \in processed \/ GivenUp(t, eventID(t, i))

\* "Messages that fail all retry attempts are published to billing-dlq-topic":
\* what was given up and will not be delivered again is there.
GivenUpIsInDLQ ==
  \A t \in EventTypes : \A i \in 1 .. committed[t] : <<t, i>> \in lost => <<t, i>> \in dlq

\* "Prevents poison messages from blocking the consumer": every consumer comes
\* to rest with every message of its topic handed out and dealt with.
ConsumersDrain ==
  <>[](\A t \in EventTypes : At(t, "fetch") /\ position[t] = Len(log[t]))
==============================================================================
