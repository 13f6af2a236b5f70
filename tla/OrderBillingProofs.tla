-------------------------- MODULE OrderBillingProofs --------------------------
(***************************************************************************)
(* OrderBilling, proved for any orders, handlers, kinds of messages and    *)
(* bounds.  A step of the system is a step of one component, or of two     *)
(* that share a table or a topic, and leaves the others alone: so every    *)
(* behaviour of the system is one of each component, and the theorems      *)
(* about the components hold of it.  What they say together relates the    *)
(* tables of the two services.                                             *)
(***************************************************************************)
EXTENDS OrderBilling, FiniteSetTheorems, SequenceTheorems, TLAPS

\* The types of what handlers and relay share.
Shared ==
  /\ outbox \in Seq(OutboxEvent(Orders))
  /\ handler \in [Handlers -> Write \cup {Idle}]

-----------------------------------------------------------------------------
\* The instances speak of the same events, statuses and rows.
LEMMA SameWords ==
  /\ Service!EventTypes = EventTypes /\ Relay!EventTypes = EventTypes
  /\ Billing!EventTypes = EventTypes
  /\ Service!Settlements = Settlements /\ Relay!Settlements = Settlements
  /\ Service!OrderStatus = OrderStatus
  /\ Service!NoRow = NoRow /\ Billing!NoRow = NoRow
  /\ Service!StatusAfter = StatusAfter /\ Billing!InvoiceAfter = InvoiceAfter
  /\ Service!OutboxEvent(Orders) = OutboxEvent(Orders)
  /\ Relay!OutboxEvent(Orders) = OutboxEvent(Orders)
  /\ Service!Idle = Idle /\ Service!Write = Write
  BY DEF EventTypes, Service!EventTypes, Relay!EventTypes, Billing!EventTypes,
         Settlements, Service!Settlements, Relay!Settlements,
         OrderStatus, Service!OrderStatus, NoRow, Service!NoRow, Billing!NoRow,
         StatusAfter, Service!StatusAfter, InvoiceAfter, Billing!InvoiceAfter,
         OutboxEvent, Service!OutboxEvent, Relay!OutboxEvent,
         Idle, Service!Idle, Write, Service!Write

\* The handlers' rows are those of the table, but for the status.
LEMMA UnsentFacts ==
  ASSUME outbox \in Seq(OutboxEvent(Orders))
  PROVE  /\ DOMAIN Unsent = DOMAIN outbox /\ Len(Unsent) = Len(outbox)
         /\ Unsent \in Seq(OutboxEvent(Orders))
         /\ \A i \in DOMAIN outbox :
              /\ Unsent[i].order = outbox[i].order /\ Unsent[i].type = outbox[i].type
              /\ Unsent[i].createdAt = outbox[i].createdAt
<1>1. PICK n \in Nat : n = Len(outbox) /\ DOMAIN outbox = 1 .. n
  BY LenProperties
<1>2. ASSUME NEW i \in DOMAIN outbox
      PROVE  /\ Unsent[i] \in OutboxEvent(Orders)
             /\ Unsent[i].order = outbox[i].order /\ Unsent[i].type = outbox[i].type
             /\ Unsent[i].createdAt = outbox[i].createdAt
  <2>1. outbox[i] \in OutboxEvent(Orders)
    BY <1>1, <1>2
  <2>2. Unsent[i] = [outbox[i] EXCEPT !.status = "PENDING"]
    BY DEF Unsent
  <2> QED
    BY <2>1, <2>2 DEF OutboxEvent
<1>3. Unsent \in [1 .. n -> OutboxEvent(Orders)]
  BY <1>1, <1>2 DEF Unsent
<1> QED
  BY <1>1, <1>2, <1>3

\* Append, as a function.
LEMMA AppendIs ==
  ASSUME NEW S, NEW s \in Seq(S), NEW e \in S
  PROVE  Append(s, e) = [i \in 1 .. Len(s) + 1 |-> IF i = Len(s) + 1 THEN e ELSE s[i]]
<1>1. PICK n \in Nat : n = Len(s) /\ DOMAIN s = 1 .. n
  BY LenProperties
<1>2. PICK u \in Seq(S) : u = Append(s, e)
  BY AppendProperties
<1>3. Len(u) = n + 1 /\ u[n + 1] = e /\ \A i \in 1 .. n : u[i] = s[i]
  BY <1>1, <1>2, AppendProperties
<1>4. u = [i \in 1 .. n + 1 |-> u[i]]
  BY <1>3
<1>5. \A i \in 1 .. n + 1 : u[i] = IF i = n + 1 THEN e ELSE s[i]
  BY <1>1, <1>3
<1> QED
  BY <1>1, <1>2, <1>4, <1>5

\* A committed row is a row to the handlers.
LEMMA CommitUnsent ==
  ASSUME outbox \in Seq(OutboxEvent(Orders)), NEW e \in OutboxEvent(Orders),
         e.status = "PENDING", outbox' = Append(outbox, e)
  PROVE  outbox' \in Seq(OutboxEvent(Orders)) /\ Unsent' = Append(Unsent, e)
<1>1. PICK n \in Nat : n = Len(outbox) /\ DOMAIN outbox = 1 .. n
  BY LenProperties
<1>2. /\ outbox' \in Seq(OutboxEvent(Orders)) /\ DOMAIN outbox' = 1 .. n + 1
      /\ \A i \in 1 .. n : outbox'[i] = outbox[i]
      /\ outbox'[n + 1] = e
  BY <1>1, AppendProperties
<1>3. [e EXCEPT !.status = "PENDING"] = e
  BY DEF OutboxEvent
<1>4. Unsent' = [i \in 1 .. n + 1 |-> [outbox'[i] EXCEPT !.status = "PENDING"]]
  BY <1>2 DEF Unsent
<1>5. Unsent \in Seq(OutboxEvent(Orders)) /\ Len(Unsent) = n
  BY <1>1, UnsentFacts
<1>6. Append(Unsent, e) = [i \in 1 .. n + 1 |-> IF i = n + 1 THEN e ELSE Unsent[i]]
  BY <1>5, AppendIs
<1>7. ASSUME NEW i \in 1 .. n + 1
      PROVE  [outbox'[i] EXCEPT !.status = "PENDING"] = IF i = n + 1 THEN e ELSE Unsent[i]
  <2>1. CASE i = n + 1
    BY <1>2, <1>3, <2>1
  <2>2. CASE i # n + 1
    <3>1. i \in 1 .. n
      BY <2>2
    <3> QED
      BY <1>1, <1>2, <2>2, <3>1 DEF Unsent
  <2> QED
    BY <2>1, <2>2
<1> QED
  BY <1>2, <1>4, <1>6, <1>7

\* Marking a row SENT changes nothing about it that the handlers know.
LEMMA RelayUnseen ==
  ASSUME Shared, Relay!Process \/ Relay!Crash
  PROVE  outbox' \in Seq(OutboxEvent(Orders)) /\ Unsent' = Unsent
<1>1. CASE outbox' = outbox
  BY <1>1 DEF Shared, Unsent
<1>2. CASE outbox' = [outbox EXCEPT ![Head(batch)].status = "SENT"]
  <2>1. PICK n \in Nat : n = Len(outbox) /\ DOMAIN outbox = 1 .. n
    BY LenProperties DEF Shared
  <2>2. DOMAIN outbox' = 1 .. n
    BY <1>2, <2>1
  <2>3. ASSUME NEW i \in 1 .. n
        PROVE  /\ outbox'[i] \in OutboxEvent(Orders)
               /\ [outbox'[i] EXCEPT !.status = "PENDING"] = [outbox[i] EXCEPT !.status = "PENDING"]
    <3>1. outbox[i] \in OutboxEvent(Orders)
      BY <2>1 DEF Shared
    <3>2. outbox'[i] \in {outbox[i], [outbox[i] EXCEPT !.status = "SENT"]}
      BY <1>2, <2>1
    <3> QED
      BY <3>1, <3>2 DEF OutboxEvent
  <2>4. outbox' \in [1 .. n -> OutboxEvent(Orders)]
    <3>1. outbox' = [i \in 1 .. n |-> outbox'[i]]
      BY <1>2, <2>1
    <3> QED
      BY <2>3, <3>1
  <2> QED
    BY <2>1, <2>2, <2>3, <2>4 DEF Unsent
<1> QED
  BY <1>1, <1>2 DEF Relay!Process, Relay!FetchPending, Relay!WriteMessages, Relay!MarkSent,
                    Relay!Crash

-----------------------------------------------------------------------------
(* The handlers.                                                           *)

\* The handlers commit to the table what they commit to their own view of it.
LEMMA CommitSeen ==
  ASSUME Shared, NEW w \in Write, Commit(w)
  PROVE  outbox' \in Seq(OutboxEvent(Orders)) /\ Service!Commit(w)
<1> DEFINE e == [order |-> w.order, type |-> w.op, createdAt |-> w.stamp, status |-> "PENDING"]
<1>1. e \in OutboxEvent(Orders) /\ e.status = "PENDING"
  BY DEF Write, OutboxEvent
<1>2. outbox' = Append(outbox, e)
  BY DEF Commit
<1>3. outbox' \in Seq(OutboxEvent(Orders)) /\ Unsent' = Append(Unsent, e)
  <2> HIDE DEF e
  <2> QED
    BY <1>1, <1>2, CommitUnsent DEF Shared
<1> QED
  BY <1>3, SameWords DEF Commit, Service!Commit

LEMMA ServeIsStep ==
  ASSUME Shared, NEW h \in Handlers, Step(h)
  PROVE  Shared' /\ Service!Step(h)
<1>1. Len(Unsent) = Len(outbox)
  BY UnsentFacts DEF Shared
<1>2. Now \in Nat
  BY DEF Shared, Now
<1>3. ASSUME NEW o \in Orders, NEW t \in EventTypes, Prepare(h, o, t)
      PROVE  Shared' /\ Service!Prepare(h, o, t)
  <2>1. [op |-> t, order |-> o, stamp |-> Now] \in Write
    BY <1>2 DEF Write
  <2>2. Shared'
    BY <1>3, <2>1 DEF Prepare, Shared
  <2>3. Unsent' = Unsent
    BY <1>3 DEF Prepare, Unsent
  <2> QED
    BY <1>1, <1>3, <2>2, <2>3 DEF Prepare, Service!Prepare, Now, Service!Now
<1>4. ASSUME NEW o, NEW t, NEW code, Answer(o, t, code)
      PROVE  Shared' /\ Service!Answer(o, t, code)
  BY <1>4 DEF Answer, Service!Answer, Shared, Unsent
<1>5. \A o \in Orders : Fresh(o) <=> Service!Fresh(o)
  BY SameWords DEF Fresh, Service!Fresh
<1>6. ASSUME NEW o \in Orders, CreateOrder(h, o) PROVE Shared' /\ Service!CreateOrder(h, o)
  <2>1. "OrderCreated" \in EventTypes
    BY DEF EventTypes
  <2> QED
    BY <1>3, <1>5, <1>6, <2>1, SameWords DEF CreateOrder, Service!CreateOrder
<1>7. ASSUME NEW o \in Orders, MarkOrderPaid(h, o) PROVE Shared' /\ Service!MarkOrderPaid(h, o)
  <2>1. "OrderPaid" \in EventTypes
    BY DEF EventTypes
  <2> QED
    BY <1>3, <1>4, <1>7, <2>1, SameWords DEF MarkOrderPaid, Service!MarkOrderPaid
<1>8. ASSUME NEW o \in Orders, CancelOrder(h, o) PROVE Shared' /\ Service!CancelOrder(h, o)
  <2>1. "OrderCancelled" \in EventTypes
    BY DEF EventTypes
  <2> QED
    BY <1>3, <1>4, <1>8, <2>1, SameWords DEF CancelOrder, Service!CancelOrder
<1>9. ASSUME WriteWithOutbox(h) PROVE Shared' /\ Service!WriteWithOutbox(h)
  <2>1. handler[h] \in Write
    BY <1>9 DEF WriteWithOutbox, Shared
  <2>2. handler' \in [Handlers -> Write \cup {Idle}]
    BY <1>9 DEF WriteWithOutbox, Shared
  <2>3. CASE Commit(handler[h])
    BY <1>9, <2>1, <2>2, <2>3, CommitSeen, SameWords
       DEF WriteWithOutbox, Service!WriteWithOutbox, Shared
  <2>4. CASE UNCHANGED <<orders, outbox, replies>>
    <3>1. Unsent' = Unsent
      BY <2>4 DEF Unsent
    <3> QED
      BY <1>9, <2>2, <2>4, <3>1, SameWords DEF WriteWithOutbox, Service!WriteWithOutbox, Shared
  <2> QED
    BY <1>9, <2>3, <2>4 DEF WriteWithOutbox
<1> QED
  BY <1>6, <1>7, <1>8, <1>9 DEF Step, Service!Step

LEMMA HandlersNext ==
  ASSUME Shared, [SystemNext]_systemVars
  PROVE  Shared' /\ [Service!Next]_(Service!vars)
<1>1. ASSUME NEW h \in Handlers, Serve(h) PROVE Shared' /\ Service!Next
  BY <1>1, ServeIsStep DEF Serve, Service!Next
<1>2. ASSUME Relay!Process \/ Relay!Crash, UNCHANGED <<orders, handler, replies>>
      PROVE  Shared' /\ UNCHANGED Service!vars
  BY <1>2, RelayUnseen DEF Shared, Service!vars
<1>3. CASE Carry \/ RelayStops
  BY <1>2, <1>3 DEF Carry, RelayStops
<1>4. CASE OrderServiceDies
  <2>1. Relay!Crash => UNCHANGED outbox
    BY DEF Relay!Crash
  <2>2. UNCHANGED outbox
    BY <1>4 DEF OrderServiceDies, Crash, vars
  <2>3. Unsent' = Unsent
    BY <2>2 DEF Unsent
  <2>4. CASE Crash
    BY <2>2, <2>3, <2>4, SameWords DEF Crash, Service!Next, Service!Crash, Shared
  <2>5. CASE UNCHANGED vars
    BY <2>3, <2>5 DEF vars, Service!vars, Shared
  <2> QED
    BY <1>4, <2>4, <2>5 DEF OrderServiceDies
<1>5. ASSUME UNCHANGED vars PROVE Shared' /\ UNCHANGED Service!vars
  BY <1>5 DEF vars, Service!vars, Shared, Unsent
<1> QED
  BY <1>1, <1>3, <1>4, <1>5 DEF SystemNext, Bill, systemVars

LEMMA SharedInit == Init => Shared /\ Service!Init
<1> SUFFICES ASSUME Init PROVE Shared /\ Service!Init
  OBVIOUS
<1>1. Shared
  BY DEF Init, Shared
<1>2. Unsent = <<>>
  BY DEF Init, Unsent
<1> QED
  BY <1>1, <1>2, SameWords DEF Init, Service!Init

\* Whatever relay and consumers do, the order service is the one OrderService
\* describes, and keeps its invariant.
THEOREM ServiceImplemented == SystemSpec => ServiceIsImplemented
<1>1. SystemInit => Shared /\ Service!Init
  BY SharedInit DEF SystemInit
<1>2. Shared /\ [SystemNext]_systemVars => Shared' /\ [Service!Next]_(Service!vars)
  BY HandlersNext
<1> QED
  BY <1>1, <1>2, PTL DEF SystemSpec, ServiceIsImplemented, Service!Spec

LEMMA ServiceInvariant ==
  ASSUME SystemAssumption
  PROVE  SystemSpec => [](Shared /\ Service!IInv)
<1>1. SystemInit => Shared
  BY SharedInit DEF SystemInit
<1>2. Shared /\ [SystemNext]_systemVars => Shared'
  BY HandlersNext
<1>3. Service!Spec => []Service!IInv
  BY Service!Invariance DEF SystemAssumption
<1> QED
  BY <1>1, <1>2, <1>3, ServiceImplemented, PTL DEF SystemSpec, ServiceIsImplemented

-----------------------------------------------------------------------------
(* The relay.                                                              *)

\* What a handler commits is what the relay assumes of a new row: the first
\* OrderCreated of its order, or a settlement stamped after it.
LEMMA CommitIsEnqueue ==
  ASSUME SystemAssumption, Shared, Service!IInv, NEW h \in Handlers, handler[h] # Idle,
         Commit(handler[h]), Len(outbox') <= MaxEvents, UNCHANGED relay
  PROVE  Relay!Next
<1> DEFINE w == handler[h]
<1>1. /\ w \in Write /\ w.order \in Orders /\ w.op \in EventTypes /\ w.stamp \in Nat
  BY DEF Shared, Write
<1>2. Service!SoundWrite(h)
  BY SameWords DEF Service!IInv, Service!WritesAreSound
<1>3. PICK n \in Nat : n = Len(outbox) /\ DOMAIN outbox = 1 .. n /\ Len(outbox') = n + 1
  BY <1>1, LenProperties, AppendProperties DEF Shared, Commit, OutboxEvent
<1>4. MaxEvents \in Nat
  BY DEF SystemAssumption, Relay!RelayAssumption
<1>5. w.stamp <= n /\ n < MaxEvents
  BY <1>2, <1>3, <1>4, UnsentFacts DEF Service!SoundWrite, Shared
<1>6. w.stamp \in 0 .. MaxEvents
  BY <1>1, <1>3, <1>4, <1>5
<1>7. CASE w.op = "OrderCreated"
  <2>1. orders[w.order] = NoRow
    BY <1>2, <1>7, SameWords DEF Service!SoundWrite
  <2>2. Service!EventsOf(w.order) = {}
    BY <1>1, <2>1, SameWords DEF Service!IInv, Service!StatusIsLastEvent
  <2>3. \A i \in Relay!Rows : ~ Relay!IsCreated(i, w.order)
    BY <2>2, UnsentFacts DEF Shared, Service!EventsOf, Relay!Rows, Relay!IsCreated
  <2>4. Relay!Enqueue(w.order, w.op, w.stamp)
    BY <1>3, <1>5, <1>7, <2>3 DEF Commit, Relay!Enqueue, relay
  <2> QED
    BY <1>1, <1>6, <2>4, SameWords DEF Relay!Next
<1>8. CASE w.op # "OrderCreated"
  <2>1. Service!CreatedBefore(w.order, w.stamp)
    BY <1>2, <1>8 DEF Service!SoundWrite
  <2>2. \E i \in Relay!Rows : Relay!IsCreated(i, w.order) /\ i <= w.stamp
    BY <2>1, UnsentFacts DEF Shared, Service!CreatedBefore, Service!EventsOf, Service!IsCreated,
                             Relay!Rows, Relay!IsCreated
  <2>3. w.op \in Relay!Settlements
    BY <1>1, <1>8, SameWords DEF Settlements
  <2>4. Relay!Enqueue(w.order, w.op, w.stamp)
    BY <1>3, <1>5, <2>2, <2>3 DEF Commit, Relay!Enqueue, relay
  <2> QED
    BY <1>1, <1>6, <2>4, SameWords DEF Relay!Next
<1> QED
  BY <1>7, <1>8

LEMMA RelayNext ==
  ASSUME SystemAssumption, Shared, Service!IInv, [SystemNext]_systemVars
  PROVE  [Relay!Next]_(Relay!vars)
<1>1. ASSUME NEW h \in Handlers, Serve(h) PROVE [Relay!Next]_(Relay!vars)
  <2>1. CASE UNCHANGED outbox
    BY <1>1, <2>1 DEF Serve, relay, Relay!vars
  <2>2. CASE handler[h] # Idle /\ Commit(handler[h])
    BY <1>1, <2>2, CommitIsEnqueue DEF Serve
  <2> QED
    BY <1>1, <2>1, <2>2 DEF Serve, Step, CreateOrder, MarkOrderPaid, CancelOrder, Prepare, Answer,
                            WriteWithOutbox
<1>2. CASE Carry \/ RelayStops
  BY <1>2 DEF Carry, RelayStops, Relay!Next
<1>3. CASE OrderServiceDies
  BY <1>3 DEF OrderServiceDies, Crash, vars, relay, Relay!vars, Relay!Next
<1>4. CASE Bill \/ UNCHANGED systemVars
  BY <1>4 DEF Bill, systemVars, vars, relay, Relay!vars
<1> QED
  BY <1>1, <1>2, <1>3, <1>4 DEF SystemNext

\* The rows the relay finds in the table are those its proofs assume: its
\* theorems hold behind these handlers.
THEOREM RelayImplemented == ASSUME SystemAssumption PROVE SystemSpec => RelayIsImplemented
<1>1. SystemInit => Relay!Init
  BY DEF SystemInit
<1>2. Shared /\ Service!IInv /\ [SystemNext]_systemVars => [Relay!Next]_(Relay!vars)
  BY RelayNext
<1> QED
  BY <1>1, <1>2, ServiceInvariant, PTL DEF SystemSpec, RelayIsImplemented, Relay!Spec

LEMMA RelayInvariant ==
  ASSUME SystemAssumption
  PROVE  SystemSpec => []Relay!IInv
<1>1. Relay!Init => Relay!IInv
  BY Relay!InitIInv DEF SystemAssumption
<1>2. Relay!IInv /\ [Relay!Next]_(Relay!vars) => Relay!IInv'
  BY Relay!NextIInv DEF SystemAssumption
<1> QED
  BY <1>1, <1>2, RelayImplemented, PTL DEF RelayIsImplemented, Relay!Spec

-----------------------------------------------------------------------------
(* The consumers.                                                          *)

\* What the relay stores is the message of a row, on the topic of its type.
LEMMA StoreIsDelivery ==
  ASSUME Shared, Relay!IInv, Carry, published' # published
  PROVE  \E i \in DOMAIN outbox :
           /\ outbox[i] \in OutboxEvent(Orders) /\ UNCHANGED outbox
           /\ published' = Append(published, i)
           /\ Deliver(i)
<1>1. Relay!WriteMessages /\ UNCHANGED outbox
  BY DEF Carry, Relay!Process, Relay!FetchPending, Relay!WriteMessages, Relay!MarkSent
<1>2. batch \in Seq(DOMAIN outbox) /\ published \in Seq(DOMAIN outbox) /\ batch # <<>>
  BY <1>1 DEF Relay!IInv, Relay!TypeOK, Relay!Rows, Relay!WriteMessages
<1>3. PICK i : i = Head(batch)
  OBVIOUS
<1>4. i \in DOMAIN outbox
  BY <1>2, <1>3, HeadTailProperties
<1>5. published' = Append(published, i)
  BY <1>1, <1>3 DEF Relay!WriteMessages, Relay!Written, Relay!WriteFailed, Relay!Store
<1>6. published'[Len(published')] = i
  BY <1>2, <1>4, <1>5, AppendProperties, LenProperties
<1>7. outbox[i] \in OutboxEvent(Orders)
  BY <1>4, LenProperties DEF Shared
<1> QED
  BY <1>1, <1>4, <1>5, <1>6, <1>7 DEF Carry

LEMMA BillingNext ==
  ASSUME SystemAssumption, Shared, Relay!IInv, [SystemNext]_systemVars
  PROVE  [Billing!Next]_(Billing!vars)
<1>1. ASSUME UNCHANGED billing PROVE UNCHANGED Billing!vars
  BY <1>1 DEF billing, Billing!vars, Billing!stores, Billing!metrics
<1>2. ASSUME Carry, published' # published PROVE Billing!Next
  <2>1. PICK i \in DOMAIN outbox : outbox[i] \in OutboxEvent(Orders) /\ Deliver(i)
    BY <1>2, StoreIsDelivery
  <2>2. outbox[i].type \in Billing!EventTypes /\ MessageOf(i) \in Billing!Message
    BY <2>1, SameWords DEF OutboxEvent, MessageOf, Billing!Message, SystemAssumption
  <2> QED
    BY <2>1, <2>2 DEF Deliver, Billing!Next
<1>3. CASE Carry
  BY <1>1, <1>2, <1>3 DEF Carry
<1>4. CASE Bill
  BY <1>4, SameWords DEF Bill, Odd, Billing!Next
<1>5. ASSUME UNCHANGED systemVars PROVE UNCHANGED billing
  BY <1>5 DEF systemVars
<1> QED
  BY <1>1, <1>3, <1>4, <1>5 DEF SystemNext, Serve, RelayStops, OrderServiceDies

\* The messages the relay publishes are those the consumers' proofs assume:
\* their theorems hold behind this relay.
THEOREM BillingImplemented == ASSUME SystemAssumption PROVE SystemSpec => BillingIsImplemented
<1>1. SystemInit => Billing!Init
  BY DEF SystemInit
<1>2. Shared /\ Relay!IInv /\ [SystemNext]_systemVars => [Billing!Next]_(Billing!vars)
  BY BillingNext
<1> QED
  BY <1>1, <1>2, ServiceInvariant, RelayInvariant, PTL
     DEF SystemSpec, BillingIsImplemented, Billing!Spec

LEMMA BillingInvariant ==
  ASSUME SystemAssumption
  PROVE  SystemSpec => []Billing!IInv
<1>1. Billing!Init => Billing!IInv
  BY Billing!InitIInv DEF SystemAssumption
<1>2. Billing!IInv /\ [Billing!Next]_(Billing!vars) => Billing!IInv'
  BY Billing!NextIInv DEF SystemAssumption
<1> QED
  BY <1>1, <1>2, BillingImplemented, PTL DEF BillingIsImplemented, Billing!Spec

-----------------------------------------------------------------------------
(* From the rows to the messages.                                          *)

Whole == Shared /\ Service!IInv /\ Relay!IInv /\ Billing!IInv

\* An event on a topic is that of a row, whose type the topic belongs to.
LogIsFromOutbox ==
  \A t \in EventTypes : \A j \in DOMAIN log[t] :
    log[t][j].kind = "event" =>
      \E i \in DOMAIN outbox : outbox[i].type = t /\ outbox[i].order = log[t][j].order

\* What the relay has stored is on the topics.
PublishedIsLogged ==
  \A k \in DOMAIN published :
    LET t == outbox[published[k]].type
    IN  \E j \in DOMAIN log[t] : log[t][j] = MessageOf(published[k])

\* A row keeps its place, its type and its order.
LEMMA OutboxGrows ==
  ASSUME SystemAssumption, Whole, [SystemNext]_systemVars, NEW i \in DOMAIN outbox
  PROVE  /\ i \in DOMAIN outbox'
         /\ outbox'[i].type = outbox[i].type /\ outbox'[i].order = outbox[i].order
<1>1. PICK n \in Nat : n = Len(outbox) /\ DOMAIN outbox = 1 .. n
  BY LenProperties DEF Whole, Shared
<1>2. outbox[i] \in OutboxEvent(Orders)
  BY <1>1 DEF Whole, Shared
<1>3. [Relay!Next]_(Relay!vars)
  BY RelayNext DEF Whole
<1>4. CASE UNCHANGED outbox
  BY <1>4
<1>5. ASSUME NEW o \in Orders, NEW t \in EventTypes, NEW stamp \in 0 .. MaxEvents,
             Relay!Enqueue(o, t, stamp)
      PROVE  i \in DOMAIN outbox' /\ outbox'[i] = outbox[i]
  <2> DEFINE e == [order |-> o, type |-> t, createdAt |-> stamp, status |-> "PENDING"]
  <2>1. e \in OutboxEvent(Orders)
    BY DEF OutboxEvent, SystemAssumption, Relay!RelayAssumption
  <2>2. outbox' = Append(outbox, e)
    BY <1>5 DEF Relay!Enqueue
  <2> HIDE DEF e
  <2>3. outbox' = [k \in 1 .. n + 1 |-> IF k = n + 1 THEN e ELSE outbox[k]]
    BY <1>1, <2>1, <2>2, AppendIs DEF Whole, Shared
  <2> QED
    BY <1>1, <2>3
<1>6. CASE Relay!MarkSent
  <2>1. outbox' \in {outbox, [outbox EXCEPT ![Head(batch)].status = "SENT"]}
    BY <1>6 DEF Relay!MarkSent
  <2>2. DOMAIN outbox' = DOMAIN outbox /\ outbox'[i] \in {outbox[i], [outbox[i] EXCEPT !.status = "SENT"]}
    BY <2>1
  <2> QED
    BY <1>2, <2>2 DEF OutboxEvent
<1> QED
  BY <1>3, <1>4, <1>5, <1>6, SameWords
     DEF Relay!Next, Relay!vars, Relay!Process, Relay!FetchPending, Relay!WriteMessages, Relay!Crash

\* Messages come from the relay, which stores them, or from somebody else, and
\* then they are no events.
LEMMA WhoAdds ==
  ASSUME Whole, [SystemNext]_systemVars
  PROVE  \/ UNCHANGED <<log, published>>
         \/ \E i \in DOMAIN outbox :
              /\ outbox[i] \in OutboxEvent(Orders) /\ UNCHANGED outbox
              /\ published' = Append(published, i) /\ Deliver(i)
         \/ \E t \in EventTypes : Odd(t) /\ UNCHANGED published
<1>1. UNCHANGED billing => UNCHANGED log
  BY DEF billing
<1>2. UNCHANGED relay => UNCHANGED published
  BY DEF relay
<1>3. Relay!Crash => UNCHANGED published
  BY DEF Relay!Crash
<1>4. CASE Carry
  BY <1>1, <1>4, StoreIsDelivery DEF Carry, Whole
<1>5. CASE Bill
  <2>1. CASE \E t \in EventTypes : Odd(t)
    BY <1>2, <1>5, <2>1 DEF Bill
  <2>2. ASSUME NEW t \in EventTypes, Billing!Consume(t) PROVE UNCHANGED log
    BY <2>2 DEF Billing!Consume, Billing!FetchMessage, Billing!Exists, Billing!RetryCancelled,
                Billing!HandleMalformed, Billing!Get, Billing!WriteInvoice, Billing!DecPending,
                Billing!IncStatus, Billing!MoveGauge, Billing!DeadLetter, Billing!Save,
                Billing!CommitMessages, Billing!Within
  <2>3. ASSUME \/ Billing!Crash \/ Billing!Shutdown \/ Billing!Restart
               \/ \E t \in EventTypes : Billing!Rebalance(t)
        PROVE  UNCHANGED log
    BY <2>3 DEF Billing!Crash, Billing!Shutdown, Billing!Restart, Billing!Resume, Billing!Rebalance
  <2> QED
    BY <1>2, <1>5, <2>1, <2>2, <2>3 DEF Bill
<1>6. UNCHANGED systemVars => UNCHANGED relay /\ UNCHANGED billing
  BY DEF systemVars
<1> QED
  BY <1>1, <1>2, <1>3, <1>4, <1>5, <1>6 DEF SystemNext, Serve, RelayStops, OrderServiceDies

\* What Publish does to the topics.
LEMMA Published ==
  ASSUME SystemAssumption, Whole, NEW t \in EventTypes, NEW m \in Billing!Message,
         Billing!Publish(t, m)
  PROVE  /\ \A u \in EventTypes : \A j \in DOMAIN log'[u] :
              \/ j \in DOMAIN log[u] /\ log'[u][j] = log[u][j]
              \/ u = t /\ log'[u][j] = m
         /\ \A u \in EventTypes : \A j \in DOMAIN log[u] :
              j \in DOMAIN log'[u] /\ log'[u][j] = log[u][j]
         /\ \E j \in DOMAIN log'[t] : log'[t][j] = m
<1>1. t \in Billing!EventTypes /\ Billing!TypeOK /\ Billing!ConsumerAssumption
  BY SameWords DEF Whole, Billing!IInv, SystemAssumption
<1> QED
  BY <1>1, Billing!PublishFacts, SameWords

LEMMA LogNext ==
  ASSUME SystemAssumption, Whole, LogIsFromOutbox, [SystemNext]_systemVars
  PROVE  LogIsFromOutbox'
<1> SUFFICES ASSUME NEW t \in EventTypes, NEW j \in DOMAIN log'[t], log'[t][j].kind = "event"
             PROVE  \E i \in DOMAIN outbox' :
                      outbox'[i].type = t /\ outbox'[i].order = log'[t][j].order
  BY DEF LogIsFromOutbox
<1>1. ASSUME j \in DOMAIN log[t], log'[t][j] = log[t][j]
      PROVE  \E i \in DOMAIN outbox : outbox[i].type = t /\ outbox[i].order = log'[t][j].order
  BY <1>1 DEF LogIsFromOutbox
<1>2. \E i \in DOMAIN outbox : outbox[i].type = t /\ outbox[i].order = log'[t][j].order
  <2>1. CASE UNCHANGED log
    BY <1>1, <2>1
  <2>2. ASSUME NEW i \in DOMAIN outbox, outbox[i] \in OutboxEvent(Orders), Deliver(i)
        PROVE  \E k \in DOMAIN outbox : outbox[k].type = t /\ outbox[k].order = log'[t][j].order
    <3>1. outbox[i].type \in EventTypes /\ MessageOf(i) \in Billing!Message
      BY <2>2 DEF OutboxEvent, MessageOf, Billing!Message, SystemAssumption
    <3>2. \/ j \in DOMAIN log[t] /\ log'[t][j] = log[t][j]
          \/ t = outbox[i].type /\ log'[t][j] = MessageOf(i)
      BY <2>2, <3>1, Published DEF Deliver
    <3> QED
      BY <1>1, <3>2 DEF MessageOf
  <2>3. ASSUME NEW u \in EventTypes, Odd(u)
        PROVE  j \in DOMAIN log[t] /\ log'[t][j] = log[t][j]
    <3>1. PICK m \in Billing!Message : m.kind # "event" /\ Billing!Publish(u, m)
      BY <2>3 DEF Odd
    <3> QED
      BY <3>1, Published
  <2> QED
    BY <1>1, <2>1, <2>2, <2>3, WhoAdds
<1> QED
  BY <1>2, OutboxGrows

LEMMA PublishedNext ==
  ASSUME SystemAssumption, Whole, PublishedIsLogged, [SystemNext]_systemVars
  PROVE  PublishedIsLogged'
<1> SUFFICES ASSUME NEW k \in DOMAIN published'
             PROVE  LET t == outbox'[published'[k]].type
                    IN  \E j \in DOMAIN log'[t] :
                          log'[t][j] = [order |-> outbox'[published'[k]].order, kind |-> "event"]
  BY DEF PublishedIsLogged, MessageOf
<1>1. published \in Seq(DOMAIN outbox)
  BY DEF Whole, Relay!IInv, Relay!TypeOK, Relay!Rows
<1>2. \A u \in EventTypes : \A j \in DOMAIN log[u] : j \in DOMAIN log'[u] /\ log'[u][j] = log[u][j]
  <2>1. CASE UNCHANGED log
    BY <2>1
  <2>2. ASSUME NEW i \in DOMAIN outbox, outbox[i] \in OutboxEvent(Orders), Deliver(i)
        PROVE  \A u \in EventTypes : \A j \in DOMAIN log[u] :
                 j \in DOMAIN log'[u] /\ log'[u][j] = log[u][j]
    <3>1. outbox[i].type \in EventTypes /\ MessageOf(i) \in Billing!Message
      BY <2>2 DEF OutboxEvent, MessageOf, Billing!Message, SystemAssumption
    <3> QED
      BY <2>2, <3>1, Published DEF Deliver
  <2>3. ASSUME NEW u \in EventTypes, Odd(u)
        PROVE  \A v \in EventTypes : \A j \in DOMAIN log[v] :
                 j \in DOMAIN log'[v] /\ log'[v][j] = log[v][j]
    <3>1. PICK m \in Billing!Message : m.kind # "event" /\ Billing!Publish(u, m)
      BY <2>3 DEF Odd
    <3> QED
      BY <3>1, Published
  <2> QED
    BY <2>1, <2>2, <2>3, WhoAdds
<1>3. ASSUME NEW i \in DOMAIN outbox, NEW u, u = outbox[i].type,
             \E j \in DOMAIN log'[u] : log'[u][j] = MessageOf(i)
      PROVE  /\ outbox'[i].type = u
             /\ \E j \in DOMAIN log'[u] :
                  log'[u][j] = [order |-> outbox'[i].order, kind |-> "event"]
  BY <1>3, OutboxGrows DEF MessageOf
<1>4. ASSUME k \in DOMAIN published, published'[k] = published[k]
      PROVE  LET t == outbox[published[k]].type
             IN  \E j \in DOMAIN log'[t] : log'[t][j] = MessageOf(published[k])
  <2>1. published[k] \in DOMAIN outbox
    BY <1>1, <1>4
  <2>2. outbox[published[k]] \in OutboxEvent(Orders)
    BY <2>1, LenProperties DEF Whole, Shared
  <2>3. outbox[published[k]].type \in EventTypes
    BY <2>2 DEF OutboxEvent
  <2> QED
    BY <1>2, <1>4, <2>3 DEF PublishedIsLogged
<1>5. PICK i \in DOMAIN outbox :
        /\ published'[k] = i
        /\ \E j \in DOMAIN log'[outbox[i].type] : log'[outbox[i].type][j] = MessageOf(i)
  <2>1. CASE UNCHANGED published
    BY <1>1, <1>4, <2>1
  <2>2. ASSUME NEW i \in DOMAIN outbox, outbox[i] \in OutboxEvent(Orders), Deliver(i),
               published' = Append(published, i)
        PROVE  \E n \in DOMAIN outbox :
                 /\ published'[k] = n
                 /\ \E j \in DOMAIN log'[outbox[n].type] : log'[outbox[n].type][j] = MessageOf(n)
    <3>1. outbox[i].type \in EventTypes /\ MessageOf(i) \in Billing!Message
      BY <2>2 DEF OutboxEvent, MessageOf, Billing!Message, SystemAssumption
    <3>2. \E j \in DOMAIN log'[outbox[i].type] : log'[outbox[i].type][j] = MessageOf(i)
      BY <2>2, <3>1, Published DEF Deliver
    <3>3. published'[k] = i \/ (k \in DOMAIN published /\ published'[k] = published[k])
      BY <1>1, <2>2, AppendProperties, LenProperties
    <3> QED
      BY <1>1, <1>4, <3>2, <3>3
  <2> QED
    BY <2>1, <2>2, WhoAdds
<1> QED
  BY <1>3, <1>5

LEMMA WholeInvariant ==
  ASSUME SystemAssumption
  PROVE  SystemSpec => [](Whole /\ LogIsFromOutbox /\ PublishedIsLogged)
<1>1. SystemInit => LogIsFromOutbox /\ PublishedIsLogged
  <2> SUFFICES ASSUME SystemInit PROVE LogIsFromOutbox /\ PublishedIsLogged
    OBVIOUS
  <2>1. \A t \in EventTypes : log[t] = <<>>
    BY SameWords DEF SystemInit, Billing!Init
  <2>2. published = <<>>
    BY DEF SystemInit, Relay!Init
  <2> QED
    BY <2>1, <2>2 DEF LogIsFromOutbox, PublishedIsLogged
<1>2. Whole /\ LogIsFromOutbox /\ PublishedIsLogged /\ [SystemNext]_systemVars =>
        LogIsFromOutbox' /\ PublishedIsLogged'
  BY LogNext, PublishedNext
<1>3. Shared /\ Service!IInv /\ Relay!IInv /\ Billing!IInv => Whole
  BY DEF Whole
<1> QED
  BY <1>1, <1>2, <1>3, ServiceInvariant, RelayInvariant, BillingInvariant, PTL DEF SystemSpec

-----------------------------------------------------------------------------
(* From the orders to the invoices.                                        *)

\* An order with a row exists, and one with a settlement among its rows is settled.
LEMMA RowsShow ==
  ASSUME Whole, NEW i \in DOMAIN outbox, NEW o \in Orders, outbox[i].order = o
  PROVE  /\ i \in Service!EventsOf(o)
         /\ orders[o] # NoRow
         /\ outbox[i].type \in Settlements =>
              \E j \in Service!EventsOf(o) :
                outbox[j].type \in Settlements /\ orders[o] = StatusAfter[outbox[j].type]
<1>1. outbox \in Seq(OutboxEvent(Orders)) /\ DOMAIN Unsent = DOMAIN outbox
  BY UnsentFacts DEF Whole, Shared
<1>2. \A k \in DOMAIN outbox :
        /\ Unsent[k].order = outbox[k].order /\ Unsent[k].type = outbox[k].type
        /\ Unsent[k].createdAt = outbox[k].createdAt
        /\ outbox[k].type \in EventTypes /\ outbox[k].createdAt \in Nat /\ k \in Nat
  <2>1. \A k \in DOMAIN outbox : outbox[k] \in OutboxEvent(Orders) /\ k \in Nat
    BY <1>1, LenProperties
  <2> QED
    BY <1>1, <2>1, UnsentFacts DEF OutboxEvent
<1>3. i \in Service!EventsOf(o)
  BY <1>1, <1>2 DEF Service!EventsOf
<1>4. orders[o] # NoRow
  BY <1>3, SameWords DEF Whole, Service!IInv, Service!StatusIsLastEvent
<1>5. ASSUME outbox[i].type \in Settlements
      PROVE  \E j \in Service!EventsOf(o) :
               outbox[j].type \in Settlements /\ orders[o] = StatusAfter[outbox[j].type]
  <2>1. PICK j \in Service!EventsOf(o) :
          StatusAfter[Unsent[j].type] = orders[o] /\ \A k \in Service!EventsOf(o) : k <= j
    BY <1>4, SameWords DEF Whole, Service!IInv, Service!StatusIsLastEvent
  <2>2. j \in DOMAIN outbox
    BY <1>1, <2>1 DEF Service!EventsOf
  <2>3. \A k \in Service!EventsOf(o) : k \in DOMAIN outbox
    BY <1>1 DEF Service!EventsOf
  <2>4. outbox[j].type # "OrderCreated"
    <3> SUFFICES ASSUME outbox[j].type = "OrderCreated" PROVE FALSE
      OBVIOUS
    <3>1. ~ Service!IsCreated(i)
      BY <1>2, <1>5 DEF Service!IsCreated, Settlements
    <3>2. Unsent[i].createdAt < i /\ Service!CreatedBefore(o, Unsent[i].createdAt)
      BY <1>3, <3>1 DEF Whole, Service!IInv, Service!EventsAreOrdered
    <3>3. PICK c \in Service!EventsOf(o) : Service!IsCreated(c) /\ c <= Unsent[i].createdAt
      BY <3>2 DEF Service!CreatedBefore
    <3>4. Service!IsCreated(j)
      BY <1>2, <2>2 DEF Service!IsCreated
    <3>5. c = j
      BY <2>1, <3>3, <3>4 DEF Whole, Service!IInv, Service!EventsAreOrdered
    <3>6. i <= j
      BY <1>3, <2>1
    <3>7. i \in Nat /\ j \in Nat /\ Unsent[i].createdAt \in Nat
      BY <1>2, <2>2
    <3> QED
      BY <3>2, <3>3, <3>5, <3>6, <3>7
  <2> QED
    BY <1>2, <2>1, <2>2, <2>4 DEF Settlements
<1> QED
  BY <1>3, <1>4, <1>5

\* The message an invoice has its status from is bare, or that of a row.
LEMMA InvoiceHasRow ==
  ASSUME SystemAssumption, Whole, LogIsFromOutbox, Billing!InvoicesHaveMessages,
         NEW o \in Orders, NEW t \in EventTypes, invoices[o] = InvoiceAfter[t]
  PROVE  Bare(t, o) \/ \E i \in DOMAIN outbox : outbox[i].type = t /\ outbox[i].order = o
<1>1. PICK j \in DOMAIN log[t] : log[t][j].order = o /\ log[t][j].kind # "malformed"
  BY SameWords DEF Billing!InvoicesHaveMessages
<1>2. log[t] \in Seq(Billing!Message)
  BY SameWords DEF Whole, Billing!IInv, Billing!TypeOK
<1>3. log[t][j] \in [order : Orders, kind : Kinds]
  BY <1>1, <1>2, LenProperties DEF Billing!Message
<1>4. log[t][j].kind \in {"event", "bare"}
  BY <1>1, <1>3 DEF SystemAssumption, Billing!ConsumerAssumption
<1>5. CASE log[t][j].kind = "event"
  BY <1>1, <1>5 DEF LogIsFromOutbox
<1>6. CASE log[t][j].kind = "bare"
  <2>1. log[t][j] = [order |-> o, kind |-> "bare"]
    BY <1>1, <1>3, <1>6
  <2> QED
    BY <1>1, <2>1 DEF Bare
<1> QED
  BY <1>4, <1>5, <1>6

\* The databases of the two services agree: whatever handlers, relay and
\* consumers repeat, lose or do late, no invoice is there before its order, and
\* none is settled before it, unless a message was forged.
THEOREM InvoicesFollow == ASSUME SystemAssumption PROVE SystemSpec => []InvoicesFollowOrders
<1>1. ASSUME Whole, LogIsFromOutbox, Billing!InvoicesHaveMessages
      PROVE  InvoicesFollowOrders
  <2> SUFFICES ASSUME NEW o \in Orders
               PROVE  /\ invoices[o] = "PENDING" => orders[o] # NoRow \/ Bare("OrderCreated", o)
                      /\ \A t \in Settlements :
                           invoices[o] = InvoiceAfter[t] =>
                             orders[o] \in {"PAID", "CANCELLED"} \/ Bare(t, o)
    BY DEF InvoicesFollowOrders
  <2>1. ASSUME invoices[o] = "PENDING", ~ Bare("OrderCreated", o)
        PROVE  orders[o] # NoRow
    <3>1. "OrderCreated" \in EventTypes /\ invoices[o] = InvoiceAfter["OrderCreated"]
      BY <2>1 DEF EventTypes, InvoiceAfter
    <3> QED
      BY <1>1, <2>1, <3>1, InvoiceHasRow, RowsShow
  <2>2. ASSUME NEW t \in Settlements, invoices[o] = InvoiceAfter[t], ~ Bare(t, o)
        PROVE  orders[o] \in {"PAID", "CANCELLED"}
    <3>1. t \in EventTypes
      BY DEF Settlements
    <3>2. PICK i \in DOMAIN outbox : outbox[i].type = t /\ outbox[i].order = o
      BY <1>1, <2>2, <3>1, InvoiceHasRow
    <3>3. \E u \in Settlements : orders[o] = StatusAfter[u]
      BY <1>1, <3>2, RowsShow
    <3> QED
      BY <3>3 DEF Settlements, EventTypes, StatusAfter
  <2> QED
    BY <2>1, <2>2
<1>2. Billing!Spec => []Billing!InvoicesHaveMessages
  BY Billing!InvoicesCaused DEF SystemAssumption
<1> QED
  BY <1>1, <1>2, WholeInvariant, BillingImplemented, PTL DEF BillingIsImplemented

\* No event is forgotten between the services: a row marked SENT has its
\* message on the topic or lost by the broker, and a message the consumers have
\* committed past has had its effect or was given up.
THEOREM SentTakenIn == ASSUME SystemAssumption PROVE SystemSpec => []SentTakesEffect
<1>1. ASSUME Whole, PublishedIsLogged, Billing!CommittedHasEffect
      PROVE  SentTakesEffect
  <2> SUFFICES ASSUME NEW i \in Relay!Sent, i \notin dropped
               PROVE  \E j \in DOMAIN log[outbox[i].type] :
                        /\ log[outbox[i].type][j] = MessageOf(i)
                        /\ j <= committed[outbox[i].type] =>
                             \/ Billing!Applied(outbox[i].type, outbox[i].order)
                             \/ Billing!GivenUp(outbox[i].type, Billing!eventID(outbox[i].type, j))
    BY DEF SentTakesEffect
  <2>1. PICK k \in DOMAIN published : published[k] = i
    BY <1>1 DEF Whole, Relay!IInv, Relay!SentWasWritten
  <2>2. i \in DOMAIN outbox
    BY DEF Relay!Sent, Relay!Rows
  <2>3. outbox[i] \in OutboxEvent(Orders)
    BY <1>1, <2>2, LenProperties DEF Whole, Shared
  <2>4. PICK t \in EventTypes : t = outbox[i].type
    BY <2>3 DEF OutboxEvent
  <2>5. PICK j \in DOMAIN log[t] : log[t][j] = MessageOf(i)
    BY <1>1, <2>1, <2>4 DEF PublishedIsLogged
  <2>6. log[t] \in Seq(Billing!Message) /\ committed[t] \in Nat
    BY <1>1, SameWords DEF Whole, Billing!IInv, Billing!TypeOK
  <2>7. j \in Nat /\ 1 <= j
    BY <2>6, LenProperties
  <2>8. ASSUME j <= committed[t]
        PROVE  Billing!Applied(t, log[t][j].order) \/ Billing!GivenUp(t, Billing!eventID(t, j))
    <3>1. j \in 1 .. committed[t]
      BY <2>6, <2>7, <2>8
    <3> QED
      BY <1>1, <3>1, SameWords DEF Billing!CommittedHasEffect
  <2>9. log[t][j].order = outbox[i].order
    BY <2>5 DEF MessageOf
  <2> QED
    BY <2>4, <2>5, <2>8, <2>9
<1>2. Billing!Spec => []Billing!CommittedHasEffect
  BY Billing!CommittedTookEffect DEF SystemAssumption
<1> QED
  BY <1>1, <1>2, WholeInvariant, BillingImplemented, PTL DEF BillingIsImplemented

-----------------------------------------------------------------------------
(* Orders that are settled both ways.                                      *)

\* An invoice that disagrees with its order has a row of its own settlement in
\* the outbox, and the order has one of the other: a settled invoice says what
\* the orders table says, unless handlers that raced settled the order both
\* ways or the message was forged.
THEOREM InvoicesAgreeWithOrders == ASSUME SystemAssumption PROVE SystemSpec => []InvoicesAgree
<1>1. ASSUME Whole, LogIsFromOutbox, Billing!InvoicesHaveMessages
      PROVE  InvoicesAgree
  <2> SUFFICES ASSUME NEW o \in Orders, NEW t \in Settlements, invoices[o] = InvoiceAfter[t],
                      ~ Bare(t, o), orders[o] # StatusAfter[t]
               PROVE  \A u \in Settlements : Issued(u, o)
    BY DEF InvoicesAgree
  <2>1. t \in EventTypes
    BY DEF Settlements
  <2>2. PICK i \in DOMAIN outbox : outbox[i].type = t /\ outbox[i].order = o
    BY <1>1, <2>1, InvoiceHasRow
  <2>3. PICK j \in Service!EventsOf(o) :
          outbox[j].type \in Settlements /\ orders[o] = StatusAfter[outbox[j].type]
    BY <1>1, <2>2, RowsShow
  <2>4. j \in DOMAIN outbox /\ outbox[j].order = o
    BY <1>1, UnsentFacts DEF Service!EventsOf, Whole, Shared
  <2>5. outbox[j].type # t /\ Issued(t, o) /\ Issued(outbox[j].type, o)
    BY <2>2, <2>3, <2>4 DEF Issued
  <2>6. \A u \in Settlements : u \in {t, outbox[j].type}
    BY <2>3, <2>5 DEF Settlements, EventTypes
  <2> QED
    BY <2>5, <2>6
<1>2. Billing!Spec => []Billing!InvoicesHaveMessages
  BY Billing!InvoicesCaused DEF SystemAssumption
<1> QED
  BY <1>1, <1>2, WholeInvariant, BillingImplemented, PTL DEF BillingIsImplemented

\* An invoice of an order that was not settled both ways follows the documented
\* state machine, whatever fails, restarts or is delivered again.
THEOREM InvoicesSettleAsOrders ==
  ASSUME SystemAssumption
  PROVE  SystemSpec => InvoicesSettleOnce
<1> DEFINE Documented(o) ==
             <<invoices[o], invoices'[o]>> \in {<<NoRow, "PENDING">>, <<"PENDING", "PAID">>,
                                                <<"PENDING", "CANCELLED">>}
           SettledBothWays(o) == \A t \in Settlements : Issued(t, o) \/ Foreign(t, o)
           Contention == \A o \in Orders : Billing!Contended(o) => SettledBothWays(o)
           Forward == \A o \in Orders :
             invoices'[o] # invoices[o] => Documented(o) \/ Billing!Contended(o)
           Explained == \A o \in Orders :
             invoices'[o] # invoices[o] =>
               \/ <<invoices[o], invoices'[o]>> \in {<<NoRow, "PENDING">>, <<"PENDING", "PAID">>,
                                                    <<"PENDING", "CANCELLED">>}
               \/ \A t \in Settlements : Issued(t, o) \/ Foreign(t, o)
<1>1. ASSUME Whole, LogIsFromOutbox
      PROVE  Contention
  <2> SUFFICES ASSUME NEW o \in Orders, Billing!Contended(o), NEW t \in Settlements,
                      ~ Foreign(t, o)
               PROVE  Issued(t, o)
    OBVIOUS
  <2>1. t \in EventTypes /\ t \in Billing!Settlements
    BY SameWords DEF Settlements, Billing!Settlements
  <2>2. PICK j \in DOMAIN log[t] : log[t][j].order = o
    BY <2>1 DEF Billing!Contended
  <2>3. log[t][j].kind = "event"
    BY <2>2 DEF Foreign
  <2> QED
    BY <1>1, <2>1, <2>2, <2>3 DEF LogIsFromOutbox, Issued
<1>2. Contention /\ [Forward]_invoices => [Explained]_invoices
  <2>1. Explained <=> \A o \in Orders : invoices'[o] # invoices[o] => Documented(o) \/ SettledBothWays(o)
    OBVIOUS
  <2> HIDE DEF Documented, SettledBothWays, Explained
  <2> QED
    BY <2>1
<1>3. Billing!Spec => [][Forward]_invoices
  <2> DEFINE Onward == \A o \in Orders :
        invoices'[o] # invoices[o] =>
          \/ <<invoices[o], invoices'[o]>> \in {<<Billing!NoRow, "PENDING">>, <<"PENDING", "PAID">>,
                                                <<"PENDING", "CANCELLED">>}
          \/ Billing!Contended(o) /\ {invoices[o], invoices'[o]} = {"PAID", "CANCELLED"}
  <2>1. Billing!Spec => [][Onward]_invoices
    BY Billing!InvoicesForward DEF SystemAssumption, Billing!InvoicesMoveForward
  <2>2. [Onward]_invoices => [Forward]_invoices
    BY SameWords
  <2> HIDE DEF Onward, Forward
  <2> QED
    BY <2>1, <2>2, PTL
<1>4. InvoicesSettleOnce <=> [][Explained]_invoices
  BY DEF InvoicesSettleOnce
<1> HIDE DEF Contention, Explained, Forward
<1> QED
  BY <1>1, <1>2, <1>3, <1>4, WholeInvariant, BillingImplemented, PTL DEF BillingIsImplemented
==============================================================================
