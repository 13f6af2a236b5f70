------------------------- MODULE OrderServiceProofs -------------------------
(***************************************************************************)
(* OrderService, proved for any sets of orders and of handlers.            *)
(*                                                                         *)
(* A handler's write is prepared in one step and committed in another, so  *)
(* no property of the tables is inductive without saying what the pending  *)
(* writes may be: WritesAreSound.  EventsAreOrdered says the same of the   *)
(* writes that became rows.                                                *)
(***************************************************************************)
EXTENDS OrderService, FiniteSetTheorems, TLAPS

IsCreated(i) == outbox[i].type = "OrderCreated"

\* An OrderCreated row of o was committed before the clock showed `stamp`.
CreatedBefore(o, stamp) == \E i \in EventsOf(o) : IsCreated(i) /\ i <= stamp

\* What a handler is about to write: a new order that nobody else touches, or
\* the settlement of an order that was already there when it was stamped.
SoundWrite(h) ==
  LET w == handler[h] IN
  /\ w.stamp <= Len(outbox)
  /\ w.op = "OrderCreated" =>
       /\ orders[w.order] = NoRow
       /\ \A g \in Handlers : g # h /\ handler[g] # Idle => handler[g].order # w.order
  /\ w.op # "OrderCreated" => CreatedBefore(w.order, w.stamp)

WritesAreSound == \A h \in Handlers : handler[h] # Idle => SoundWrite(h)

EventsAreOrdered ==
  \A o \in Orders : \A i \in EventsOf(o) :
    /\ outbox[i].createdAt < i
    /\ IsCreated(i) => \A j \in EventsOf(o) : IsCreated(j) => i = j
    /\ ~ IsCreated(i) => CreatedBefore(o, outbox[i].createdAt)

IInv ==
  /\ TypeOK
  /\ WritesAreSound
  /\ EventsAreOrdered
  /\ StatusIsLastEvent
  /\ AcksAreBacked
  /\ RefusalsAreFinal

-----------------------------------------------------------------------------
LEMMA InitIInv == Init => IInv
  BY DEF Init, IInv, TypeOK, WritesAreSound, EventsAreOrdered, StatusIsLastEvent,
         AcksAreBacked, RefusalsAreFinal, EventsOf, Idle, OutboxEvent

LEMMA RowFacts ==
  ASSUME TypeOK, NEW i \in DOMAIN outbox
  PROVE  /\ i \in 1 .. Len(outbox)
         /\ outbox[i] \in OutboxEvent(Orders)
         /\ outbox[i].createdAt \in Nat
<1>1. i \in 1 .. Len(outbox) /\ outbox[i] \in OutboxEvent(Orders)
  BY DEF TypeOK
<1> QED
  BY <1>1 DEF OutboxEvent

\* A step that leaves the tables alone keeps what is said about the events.
LEMMA TablesKept ==
  ASSUME IInv, UNCHANGED <<orders, outbox>>
  PROVE  /\ EventsAreOrdered' /\ StatusIsLastEvent'
         /\ \A o \in Orders : EventsOf(o)' = EventsOf(o)
         /\ \A o \in Orders, stamp \in Nat : CreatedBefore(o, stamp)' <=> CreatedBefore(o, stamp)
  BY DEF IInv, EventsAreOrdered, StatusIsLastEvent, EventsOf, CreatedBefore, IsCreated

\* A handler that goes idle leaves the other writes sound.
LEMMA GoingIdle ==
  ASSUME IInv, UNCHANGED <<orders, outbox, replies>>,
         handler' \in [Handlers -> Write \cup {Idle}],
         \A g \in Handlers : handler'[g] \in {handler[g], Idle}
  PROVE  IInv'
<1>1. TypeOK'
  BY DEF IInv, TypeOK
<1>2. WritesAreSound'
  <2> SUFFICES ASSUME NEW h \in Handlers, handler'[h] # Idle
               PROVE  SoundWrite(h)'
    BY DEF WritesAreSound
  <2>1. handler'[h] = handler[h] /\ SoundWrite(h)
    BY DEF IInv, WritesAreSound
  <2>2. handler[h] \in Write
    BY <2>1 DEF IInv, TypeOK
  <2> QED
    BY <2>1, <2>2, TablesKept DEF SoundWrite, Write
<1>3. AcksAreBacked' /\ RefusalsAreFinal'
  BY TablesKept DEF IInv, AcksAreBacked, RefusalsAreFinal, EventsOf
<1> QED
  BY <1>1, <1>2, <1>3, TablesKept DEF IInv

\* A handler that has read a row, or drawn a fresh id, prepares a sound write.
LEMMA PrepareIInv ==
  ASSUME IInv, NEW h \in Handlers, NEW o \in Orders, NEW t \in EventTypes,
         handler[h] = Idle,
         Prepare(h, o, t),
         t = "OrderCreated" => Fresh(o),
         t # "OrderCreated" => orders[o] # NoRow
  PROVE  IInv'
<1> USE DEF Prepare, Now
<1>1. TypeOK' /\ handler'[h] = [op |-> t, order |-> o, stamp |-> Len(outbox)]
  BY DEF IInv, TypeOK, Write, Idle, OutboxEvent
<1>2. \A g \in Handlers : g # h => handler'[g] = handler[g]
  BY DEF IInv, TypeOK
<1>3. t # "OrderCreated" => CreatedBefore(o, Len(outbox))
  <2> SUFFICES ASSUME orders[o] # NoRow PROVE CreatedBefore(o, Len(outbox))
    OBVIOUS
  <2>1. PICK i \in EventsOf(o) : TRUE
    BY DEF IInv, StatusIsLastEvent
  <2>2. i \in 1 .. Len(outbox) /\ outbox[i].order = o /\ outbox[i].createdAt \in Nat
    BY RowFacts DEF EventsOf, IInv
  <2>3. CASE IsCreated(i)
    BY <2>1, <2>2, <2>3 DEF CreatedBefore, IInv, TypeOK
  <2>4. CASE ~ IsCreated(i)
    <3>1. CreatedBefore(o, outbox[i].createdAt) /\ outbox[i].createdAt < i
      BY <2>2, <2>4 DEF IInv, EventsAreOrdered, TypeOK
    <3>2. PICK j \in EventsOf(o) : IsCreated(j) /\ j <= outbox[i].createdAt
      BY <3>1 DEF CreatedBefore
    <3>3. j \in 1 .. Len(outbox)
      BY <3>2 DEF EventsOf, IInv, TypeOK
    <3> QED
      BY <3>2, <3>3 DEF CreatedBefore
  <2> QED
    BY <2>3, <2>4
<1>4. WritesAreSound'
  <2> SUFFICES ASSUME NEW g \in Handlers, handler'[g] # Idle
               PROVE  SoundWrite(g)'
    BY DEF WritesAreSound
  <2>1. CASE g = h
    <3>1. Len(outbox) \in Nat
      BY DEF IInv, TypeOK
    <3>2. t = "OrderCreated" =>
            \A f \in Handlers : f # h /\ handler[f] # Idle => handler[f].order # o
      BY DEF Fresh
    <3> QED
      BY <1>1, <1>2, <1>3, <2>1, <3>1, <3>2, TablesKept DEF SoundWrite, Fresh
  <2>2. CASE g # h
    <3>1. handler'[g] = handler[g] /\ SoundWrite(g) /\ handler[g] \in Write
      BY <1>2, <2>2 DEF IInv, WritesAreSound, TypeOK
    <3>2. handler[g].op = "OrderCreated" => handler[g].order # o
      BY <3>1 DEF SoundWrite, Fresh, Write
    <3> QED
      BY <1>1, <1>2, <3>1, <3>2, TablesKept DEF SoundWrite, Write
  <2> QED
    BY <2>1, <2>2
<1>5. AcksAreBacked' /\ RefusalsAreFinal'
  BY TablesKept DEF IInv, AcksAreBacked, RefusalsAreFinal, EventsOf
<1> QED
  BY <1>1, <1>4, <1>5, TablesKept DEF IInv

\* The transaction commits a sound write.
LEMMA CommitIInv ==
  ASSUME IInv, NEW h \in Handlers, NEW w, handler[h] = w, w # Idle,
         Commit(w),
         handler' = [handler EXCEPT ![h] = Idle],
         replies' \in {replies, replies \cup {<<w.op, w.order, "OK">>}}
  PROVE  IInv'
<1> DEFINE n == Len(outbox) + 1
           e == [order |-> w.order, type |-> w.op, createdAt |-> w.stamp, status |-> "PENDING"]
<1>1. /\ w.op \in EventTypes /\ w.order \in Orders /\ w.stamp \in Nat
      /\ SoundWrite(h)
  BY DEF IInv, TypeOK, WritesAreSound, Write
<1>2. e \in OutboxEvent(Orders)
  BY <1>1 DEF OutboxEvent
<1>3. /\ outbox' \in Seq(OutboxEvent(Orders))
      /\ Len(outbox) \in Nat
      /\ Len(outbox') = n
      /\ DOMAIN outbox = 1 .. Len(outbox)
      /\ DOMAIN outbox' = 1 .. n
      /\ outbox'[n] = e
      /\ \A i \in 1 .. Len(outbox) : outbox'[i] = outbox[i]
  BY <1>2 DEF Commit, IInv, TypeOK
<1>4. /\ e.order = w.order /\ e.type = w.op /\ e.createdAt = w.stamp
      /\ w.stamp < n
  BY <1>1, <1>3 DEF SoundWrite
<1> HIDE DEF e
<1>5. \A o : \A i : i \in EventsOf(o)' <=> i \in EventsOf(o) \/ (i = n /\ o = w.order)
  BY <1>3, <1>4 DEF EventsOf
<1>6. \A o : \A i \in EventsOf(o) : i \in 1 .. Len(outbox) /\ i # n /\ outbox'[i] = outbox[i]
  BY <1>3 DEF EventsOf
<1>7. \A o, stamp : CreatedBefore(o, stamp) => CreatedBefore(o, stamp)'
  BY <1>5, <1>6 DEF CreatedBefore, IsCreated
<1>8. /\ orders' = [orders EXCEPT ![w.order] = StatusAfter[w.op]]
      /\ StatusAfter[w.op] \in OrderStatus
      /\ StatusAfter[w.op] # NoRow
      /\ orders'[w.order] = StatusAfter[w.op]
      /\ \A o \in Orders : o # w.order => orders'[o] = orders[o]
  BY <1>1 DEF Commit, StatusAfter, EventTypes, OrderStatus, NoRow, IInv, TypeOK
<1>9. TypeOK'
  <2>1. replies' \subseteq EventTypes \X Orders \X {"OK", "FailedPrecondition"}
    BY <1>1 DEF IInv, TypeOK
  <2> QED
    BY <1>3, <1>8, <2>1 DEF IInv, TypeOK
<1>10. WritesAreSound'
  <2> SUFFICES ASSUME NEW g \in Handlers, handler'[g] # Idle
               PROVE  SoundWrite(g)'
    BY DEF WritesAreSound
  <2>1. g # h /\ handler'[g] = handler[g] /\ SoundWrite(g) /\ handler[g] \in Write
    BY DEF IInv, WritesAreSound, TypeOK
  <2>2. handler[g].op = "OrderCreated" => handler[g].order # w.order
    BY <2>1 DEF SoundWrite
  <2>3. \A f \in Handlers : handler'[f] # Idle => f # h /\ handler'[f] = handler[f]
    BY DEF IInv, TypeOK
  <2> QED
    BY <1>3, <1>7, <1>8, <2>1, <2>2, <2>3 DEF SoundWrite, Write
<1>11. EventsAreOrdered'
  <2> SUFFICES ASSUME NEW o \in Orders, NEW i \in EventsOf(o)'
               PROVE  /\ outbox'[i].createdAt < i
                      /\ outbox'[i].type = "OrderCreated" =>
                           \A j \in EventsOf(o)' : outbox'[j].type = "OrderCreated" => i = j
                      /\ outbox'[i].type # "OrderCreated" =>
                           \E j \in EventsOf(o)' : /\ outbox'[j].type = "OrderCreated"
                                                   /\ j <= outbox'[i].createdAt
    BY DEF EventsAreOrdered, IsCreated, CreatedBefore
  <2>1. w.op = "OrderCreated" => EventsOf(w.order) = {}
    BY <1>1 DEF SoundWrite, IInv, StatusIsLastEvent
  <2>2. CASE i = n /\ o = w.order
    <3>1. w.op = "OrderCreated" => \A j \in EventsOf(o)' : i = j
      BY <1>5, <2>1, <2>2
    <3>2. w.op # "OrderCreated" =>
            \E j \in EventsOf(o)' : outbox'[j].type = "OrderCreated" /\ j <= w.stamp
      BY <1>1, <1>7, <2>2 DEF SoundWrite, CreatedBefore, IsCreated
    <3> QED
      BY <1>3, <1>4, <2>2, <3>1, <3>2
  <2>3. CASE i \in EventsOf(o)
    <3>1. i \in 1 .. Len(outbox) /\ i # n /\ outbox'[i] = outbox[i]
      BY <1>6, <2>3
    <3>2. /\ outbox[i].createdAt < i
          /\ outbox[i].type = "OrderCreated" =>
               \A j \in EventsOf(o) : outbox[j].type = "OrderCreated" => i = j
          /\ outbox[i].type # "OrderCreated" =>
               \E j \in EventsOf(o) : outbox[j].type = "OrderCreated" /\ j <= outbox[i].createdAt
      BY <2>3 DEF IInv, EventsAreOrdered, IsCreated, CreatedBefore
    <3>3. ASSUME outbox[i].type = "OrderCreated", NEW j \in EventsOf(o)',
                 outbox'[j].type = "OrderCreated"
          PROVE  i = j
      <4>1. CASE j = n /\ o = w.order
        BY <1>3, <1>4, <2>1, <2>3, <3>3, <4>1
      <4>2. CASE j \in EventsOf(o)
        BY <1>6, <3>2, <3>3, <4>2
      <4> QED
        BY <1>5, <4>1, <4>2
    <3>4. \A j \in EventsOf(o) : j \in EventsOf(o)' /\ outbox'[j] = outbox[j]
      BY <1>5, <1>6
    <3> QED
      BY <3>1, <3>2, <3>3, <3>4
  <2> QED
    BY <1>5, <2>2, <2>3
<1>12. StatusIsLastEvent'
  <2> SUFFICES ASSUME NEW o \in Orders
               PROVE  /\ orders'[o] = NoRow => EventsOf(o)' = {}
                      /\ orders'[o] # NoRow =>
                           \E i \in EventsOf(o)' : /\ StatusAfter[outbox'[i].type] = orders'[o]
                                                   /\ \A j \in EventsOf(o)' : j <= i
    BY DEF StatusIsLastEvent
  <2>1. CASE o = w.order
    <3>1. n \in EventsOf(o)' /\ outbox'[n].type = w.op
      BY <1>3, <1>4, <1>5, <2>1
    <3>2. \A j \in EventsOf(o)' : j <= n
      BY <1>3, <1>5, <1>6
    <3> QED
      BY <1>8, <2>1, <3>1, <3>2
  <2>2. CASE o # w.order
    <3>1. orders'[o] = orders[o] /\ EventsOf(o)' = EventsOf(o)
      BY <1>3, <1>4, <1>8, <2>2 DEF EventsOf
    <3> QED
      BY <1>6, <3>1 DEF IInv, StatusIsLastEvent
  <2> QED
    BY <2>1, <2>2
<1>13. AcksAreBacked'
  <2> SUFFICES ASSUME NEW o \in Orders, NEW t \in EventTypes, <<t, o, "OK">> \in replies'
               PROVE  \E i \in EventsOf(o)' : outbox'[i].type = t
    BY DEF AcksAreBacked
  <2>1. CASE <<t, o, "OK">> \in replies
    <3>1. PICK i \in EventsOf(o) : outbox[i].type = t
      BY <2>1 DEF IInv, AcksAreBacked
    <3> QED
      BY <1>5, <1>6, <3>1
  <2>2. CASE t = w.op /\ o = w.order
    BY <1>3, <1>4, <1>5, <2>2
  <2> QED
    BY <2>1, <2>2
<1>14. RefusalsAreFinal'
  <2> SUFFICES ASSUME NEW o \in Orders, NEW t \in EventTypes,
                      <<t, o, "FailedPrecondition">> \in replies'
               PROVE  orders'[o] \in {"PAID", "CANCELLED"}
    BY DEF RefusalsAreFinal
  <2>1. orders[o] \in {"PAID", "CANCELLED"}
    BY DEF IInv, RefusalsAreFinal
  <2>2. o = w.order => w.op # "OrderCreated"
    BY <1>1, <2>1 DEF SoundWrite, NoRow
  <2> QED
    BY <1>1, <1>8, <2>1, <2>2 DEF StatusAfter, EventTypes
<1> QED
  BY <1>9, <1>10, <1>11, <1>12, <1>13, <1>14 DEF IInv

-----------------------------------------------------------------------------
\* Every step of the service keeps the invariant, one case per operation.
LEMMA NextIInv == IInv /\ [Next]_vars => IInv'
<1> SUFFICES ASSUME IInv, [Next]_vars PROVE IInv'
  OBVIOUS
<1>1. ASSUME NEW h \in Handlers, NEW o \in Orders, CreateOrder(h, o) PROVE IInv'
  BY <1>1, PrepareIInv DEF CreateOrder, EventTypes
<1>2. ASSUME NEW o \in Orders, NEW t \in EventTypes, NEW code \in {"OK", "FailedPrecondition"},
             Answer(o, t, code),
             code = "OK" => t = "OrderCancelled" /\ orders[o] = "CANCELLED",
             code = "FailedPrecondition" => orders[o] \in {"PAID", "CANCELLED"}
      PROVE  IInv'
  <2>1. TypeOK'
    BY <1>2 DEF Answer, IInv, TypeOK
  <2>2. WritesAreSound'
    <3> SUFFICES ASSUME NEW h \in Handlers, handler'[h] # Idle
                 PROVE  SoundWrite(h)'
      BY DEF WritesAreSound
    <3>1. SoundWrite(h) /\ handler[h] \in Write
      BY <1>2 DEF Answer, IInv, WritesAreSound, TypeOK
    <3> QED
      BY <1>2, <3>1, TablesKept DEF Answer, SoundWrite, Write
  <2>3. AcksAreBacked'
    <3>1. code = "OK" => \E i \in EventsOf(o) : outbox[i].type = t
      <4> SUFFICES ASSUME code = "OK" PROVE \E i \in EventsOf(o) : outbox[i].type = t
        OBVIOUS
      <4>1. PICK i \in EventsOf(o) : StatusAfter[outbox[i].type] = "CANCELLED"
        BY <1>2 DEF IInv, StatusIsLastEvent, NoRow
      <4>2. outbox[i].type \in EventTypes
        BY RowFacts DEF IInv, EventsOf, OutboxEvent
      <4> QED
        BY <1>2, <4>1, <4>2 DEF StatusAfter, EventTypes
    <3> QED
      BY <1>2, <3>1, TablesKept DEF Answer, IInv, AcksAreBacked, EventsOf
  <2>4. RefusalsAreFinal'
    BY <1>2 DEF Answer, IInv, RefusalsAreFinal
  <2> QED
    BY <1>2, <2>1, <2>2, <2>3, <2>4, TablesKept DEF Answer, IInv
<1>3. ASSUME NEW h \in Handlers, NEW o \in Orders, MarkOrderPaid(h, o) PROVE IInv'
  <2>1. orders[o] \in OrderStatus \cup {NoRow}
    BY DEF IInv, TypeOK
  <2>2. CASE Prepare(h, o, "OrderPaid")
    BY <1>3, <2>2, PrepareIInv DEF MarkOrderPaid, EventTypes
  <2>3. CASE orders[o] # "CREATED" /\ Answer(o, "OrderPaid", "FailedPrecondition")
    BY <1>2, <1>3, <2>1, <2>3 DEF MarkOrderPaid, EventTypes, OrderStatus
  <2> QED
    BY <1>3, <2>2, <2>3 DEF MarkOrderPaid
<1>4. ASSUME NEW h \in Handlers, NEW o \in Orders, CancelOrder(h, o) PROVE IInv'
  <2>1. CASE orders[o] = "PAID" /\ Answer(o, "OrderCancelled", "FailedPrecondition")
    BY <1>2, <2>1 DEF EventTypes
  <2>2. CASE orders[o] = "CANCELLED" /\ Answer(o, "OrderCancelled", "OK")
    BY <1>2, <2>2 DEF EventTypes
  <2>3. CASE orders[o] = "CREATED" /\ Prepare(h, o, "OrderCancelled")
    BY <1>4, <2>3, PrepareIInv DEF CancelOrder, EventTypes
  <2> QED
    BY <1>4, <2>1, <2>2, <2>3 DEF CancelOrder
<1>5. ASSUME NEW h \in Handlers, WriteWithOutbox(h) PROVE IInv'
  <2>1. CASE Commit(handler[h]) /\ replies' \in {replies, replies \cup {<<handler[h].op, handler[h].order, "OK">>}}
    BY <1>5, <2>1, CommitIInv DEF WriteWithOutbox
  <2>2. CASE UNCHANGED <<orders, outbox, replies>>
    <3>1. /\ handler' \in [Handlers -> Write \cup {Idle}]
          /\ \A g \in Handlers : handler'[g] \in {handler[g], Idle}
      BY <1>5 DEF WriteWithOutbox, IInv, TypeOK
    <3> QED
      BY <2>2, <3>1, GoingIdle
  <2> QED
    BY <1>5, <2>1, <2>2 DEF WriteWithOutbox
<1>6. CASE Crash
  <2>1. /\ handler' \in [Handlers -> Write \cup {Idle}]
        /\ \A g \in Handlers : handler'[g] \in {handler[g], Idle}
    BY <1>6 DEF Crash
  <2> QED
    BY <1>6, <2>1, GoingIdle DEF Crash
<1>7. CASE UNCHANGED vars
  <2>1. /\ handler' \in [Handlers -> Write \cup {Idle}]
        /\ \A g \in Handlers : handler'[g] \in {handler[g], Idle}
    BY <1>7 DEF vars, IInv, TypeOK
  <2> QED
    BY <1>7, <2>1, GoingIdle DEF vars
<1> QED
  BY <1>1, <1>3, <1>4, <1>5, <1>6, <1>7 DEF Next, Step

\* IInv holds in every reachable state: the safety of the service with any
\* number of concurrent handlers, failed transactions and crashes.
THEOREM Invariance == Spec => []IInv
  BY InitIInv, NextIInv, PTL DEF Spec

\* The state of the service stays well-typed.
THEOREM TypeCorrect == Spec => []TypeOK
<1>1. IInv => TypeOK
  BY DEF IInv
<1> QED
  BY <1>1, Invariance, PTL

\* writeWithOutbox keeps the status of every order that of its latest event.
THEOREM OutboxAtomicity == Spec => []StatusIsLastEvent
<1>1. IInv => StatusIsLastEvent
  BY DEF IInv
<1> QED
  BY <1>1, Invariance, PTL

\* OrderCreated is the one oldest event of its order, by the created_at the
\* relay sorts on.
THEOREM CreatedFirst == Spec => []CreatedIsOldest
<1>1. ASSUME IInv PROVE CreatedIsOldest
  <2> SUFFICES ASSUME NEW o \in Orders, NEW i \in EventsOf(o), NEW j \in EventsOf(o),
                      IsCreated(i), i # j
               PROVE  ~ IsCreated(j) /\ outbox[i].createdAt < outbox[j].createdAt
    BY DEF CreatedIsOldest, IsCreated
  <2>1. ~ IsCreated(j)
    BY <1>1 DEF IInv, EventsAreOrdered
  <2>2. CreatedBefore(o, outbox[j].createdAt)
    BY <1>1, <2>1 DEF IInv, EventsAreOrdered
  <2>3. i <= outbox[j].createdAt /\ outbox[i].createdAt < i
    BY <1>1, <2>2 DEF IInv, EventsAreOrdered, CreatedBefore
  <2>4. i \in Nat /\ outbox[i].createdAt \in Nat /\ outbox[j].createdAt \in Nat
    BY <1>1, RowFacts DEF IInv, EventsOf
  <2> QED
    BY <2>1, <2>3, <2>4
<1> QED
  BY <1>1, Invariance, PTL

\* Whoever was told OK has the event in the outbox, through any crash.
THEOREM AcksBacked == Spec => []AcksAreBacked
<1>1. IInv => AcksAreBacked
  BY DEF IInv
<1> QED
  BY <1>1, Invariance, PTL

\* Whoever was told FailedPrecondition was told the truth for good.
THEOREM RefusalsFinal == Spec => []RefusalsAreFinal
<1>1. IInv => RefusalsAreFinal
  BY DEF IInv
<1> QED
  BY <1>1, Invariance, PTL

-----------------------------------------------------------------------------
\* The handlers about to settle an order.
SettlersOf(o) ==
  {h \in Handlers : handler[h] # Idle /\ handler[h].order = o /\ handler[h].op # "OrderCreated"}

\* A handler settles an order at most once, now or in the past, and an order
\* that can still be read CREATED has not been settled.
SettlersInv ==
  \A o \in Orders :
    /\ IsFiniteSet(SettlementsOf(o))
    /\ Cardinality(SettlementsOf(o)) + Cardinality(SettlersOf(o)) <= Cardinality(Handlers)
    /\ orders[o] \in {NoRow, "CREATED"} => SettlementsOf(o) = {}

LEMMA SettlersFinite ==
  \A S \in SUBSET Handlers :
    /\ IsFiniteSet(S) /\ Cardinality(S) \in Nat
    /\ Cardinality(Handlers) \in Nat /\ Cardinality(S) <= Cardinality(Handlers)
  BY HandlersAssumption, FS_Subset, FS_CardinalityType

LEMMA SettlersInit == Init => SettlersInv
<1> SUFFICES ASSUME Init, NEW o \in Orders
             PROVE  /\ SettlementsOf(o) = {} /\ IsFiniteSet({})
                    /\ Cardinality({}) + Cardinality(SettlersOf(o)) <= Cardinality(Handlers)
  BY DEF SettlersInv
<1>1. SettlementsOf(o) = {}
  BY DEF Init, SettlementsOf, EventsOf
<1>2. SettlersOf(o) \in SUBSET Handlers
  BY DEF SettlersOf
<1> QED
  BY <1>1, <1>2, FS_EmptySet, SettlersFinite

\* With the tables as they are, fewer settlers are no worse.
LEMMA FewerSettlers ==
  ASSUME SettlersInv, UNCHANGED <<orders, outbox>>, NEW o \in Orders,
         SettlersOf(o)' \subseteq SettlersOf(o) \/ orders[o] = "CREATED"
  PROVE  /\ IsFiniteSet(SettlementsOf(o)')
         /\ Cardinality(SettlementsOf(o)') + Cardinality(SettlersOf(o)') <= Cardinality(Handlers)
         /\ orders'[o] \in {NoRow, "CREATED"} => SettlementsOf(o)' = {}
<1>1. SettlementsOf(o)' = SettlementsOf(o)
  BY DEF SettlementsOf, EventsOf
<1>2. /\ SettlersOf(o) \in SUBSET Handlers /\ IsFiniteSet(SettlersOf(o))
      /\ SettlersOf(o)' \in SUBSET Handlers
      /\ Cardinality(SettlersOf(o)) \in Nat /\ Cardinality(SettlersOf(o)') \in Nat
      /\ Cardinality(Handlers) \in Nat
      /\ Cardinality(SettlersOf(o)') <= Cardinality(Handlers)
  BY SettlersFinite DEF SettlersOf
<1>3. Cardinality(SettlementsOf(o)) \in Nat
  BY FS_CardinalityType DEF SettlersInv
<1>4. CASE SettlersOf(o)' \subseteq SettlersOf(o)
  <2>1. Cardinality(SettlersOf(o)') <= Cardinality(SettlersOf(o))
    BY <1>2, <1>4, FS_Subset
  <2> QED
    BY <1>1, <1>2, <1>3, <2>1 DEF SettlersInv
<1>5. CASE orders[o] = "CREATED"
  <2>1. SettlementsOf(o) = {} /\ Cardinality(SettlementsOf(o)) = 0
    BY <1>5, FS_EmptySet DEF SettlersInv
  <2> QED
    BY <1>1, <1>2, <2>1 DEF SettlersInv
<1> QED
  BY <1>4, <1>5

LEMMA SettlersPrepare ==
  ASSUME IInv, SettlersInv, NEW h \in Handlers, NEW o \in Orders, NEW t \in EventTypes,
         Prepare(h, o, t), handler[h] = Idle, t # "OrderCreated" => orders[o] = "CREATED"
  PROVE  SettlersInv'
<1>1. /\ handler'[h] = [op |-> t, order |-> o, stamp |-> Now]
      /\ \A g \in Handlers : g # h => handler'[g] = handler[g]
  BY DEF Prepare, IInv, TypeOK
<1>2. ASSUME NEW p \in Orders
      PROVE  SettlersOf(p)' \subseteq SettlersOf(p) \/ orders[p] = "CREATED"
  <2>1. CASE p = o /\ t # "OrderCreated"
    BY <2>1
  <2>2. CASE p # o \/ t = "OrderCreated"
    BY <1>1, <2>2 DEF SettlersOf
  <2> QED
    BY <2>1, <2>2
<1> QED
  BY <1>2, FewerSettlers DEF SettlersInv, Prepare

LEMMA SettlersCommit ==
  ASSUME IInv, SettlersInv, NEW h \in Handlers, handler[h] # Idle, Commit(handler[h]),
         handler' = [handler EXCEPT ![h] = Idle]
  PROVE  SettlersInv'
<1> DEFINE w == handler[h]
           n == Len(outbox) + 1
           e == [order |-> w.order, type |-> w.op, createdAt |-> w.stamp, status |-> "PENDING"]
<1>1. w \in Write /\ w.order \in Orders /\ w.op \in EventTypes /\ SoundWrite(h)
  BY DEF IInv, TypeOK, WritesAreSound, Write
<1>2. /\ DOMAIN outbox = 1 .. Len(outbox) /\ Len(outbox) \in Nat
      /\ DOMAIN outbox' = 1 .. n /\ outbox'[n] = e
      /\ \A i \in 1 .. Len(outbox) : outbox'[i] = outbox[i]
  <2>1. e \in OutboxEvent(Orders)
    BY <1>1 DEF OutboxEvent, Write
  <2> QED
    BY <2>1 DEF Commit, IInv, TypeOK
<1>3. e.order = w.order /\ e.type = w.op
  OBVIOUS
<1> HIDE DEF e
<1>4. \A o \in Orders :
        SettlementsOf(o)' = IF o = w.order /\ w.op \in Settlements THEN SettlementsOf(o) \cup {n}
                                                                 ELSE SettlementsOf(o)
  BY <1>2, <1>3 DEF SettlementsOf, EventsOf
<1>5. \A o \in Orders : n \notin SettlementsOf(o)
  BY <1>2 DEF SettlementsOf, EventsOf
<1>6. /\ \A g \in Handlers : g # h => handler'[g] = handler[g]
      /\ handler'[h] = Idle
  BY DEF IInv, TypeOK
<1>7. \A o \in Orders : SettlersOf(o)' = SettlersOf(o) \ {h}
  BY <1>6 DEF SettlersOf
<1>8. /\ orders'[w.order] = StatusAfter[w.op]
      /\ \A o \in Orders : o # w.order => orders'[o] = orders[o]
  BY <1>1 DEF Commit, IInv, TypeOK
<1> SUFFICES ASSUME NEW o \in Orders
             PROVE  /\ IsFiniteSet(SettlementsOf(o)')
                    /\ Cardinality(SettlementsOf(o)') + Cardinality(SettlersOf(o)') <= Cardinality(Handlers)
                    /\ orders'[o] \in {NoRow, "CREATED"} => SettlementsOf(o)' = {}
  BY DEF SettlersInv
<1>9. /\ IsFiniteSet(SettlementsOf(o)) /\ Cardinality(SettlementsOf(o)) \in Nat
      /\ Cardinality(SettlementsOf(o)) + Cardinality(SettlersOf(o)) <= Cardinality(Handlers)
      /\ orders[o] \in {NoRow, "CREATED"} => SettlementsOf(o) = {}
  BY FS_CardinalityType DEF SettlersInv
<1>10. /\ IsFiniteSet(SettlersOf(o)) /\ Cardinality(SettlersOf(o)) \in Nat
       /\ Cardinality(Handlers) \in Nat
  <2>1. SettlersOf(o) \in SUBSET Handlers
    BY DEF SettlersOf
  <2> QED
    BY <2>1, SettlersFinite
<1>11. Cardinality(SettlersOf(o)') = IF h \in SettlersOf(o) THEN Cardinality(SettlersOf(o)) - 1
                                                          ELSE Cardinality(SettlersOf(o))
  BY <1>7, <1>10, FS_RemoveElement
<1>12. CASE o = w.order /\ w.op \in Settlements
  <2>1. h \in SettlersOf(o)
    BY <1>12 DEF SettlersOf, Settlements
  <2>2. IsFiniteSet(SettlementsOf(o)') /\ Cardinality(SettlementsOf(o)') = Cardinality(SettlementsOf(o)) + 1
    BY <1>4, <1>5, <1>9, <1>12, FS_AddElement
  <2>3. orders'[o] \notin {NoRow, "CREATED"}
    BY <1>8, <1>12 DEF StatusAfter, Settlements, EventTypes, NoRow
  <2> QED
    BY <1>9, <1>10, <1>11, <2>1, <2>2, <2>3
<1>13. CASE ~ (o = w.order /\ w.op \in Settlements)
  <2>1. SettlementsOf(o)' = SettlementsOf(o)
    BY <1>4, <1>13
  <2>2. Cardinality(SettlersOf(o)') <= Cardinality(SettlersOf(o)) /\ Cardinality(SettlersOf(o)') \in Int
    BY <1>10, <1>11
  <2>3. o = w.order => orders[o] = NoRow
    BY <1>1, <1>13 DEF SoundWrite, Settlements
  <2>4. orders'[o] \in {NoRow, "CREATED"} => SettlementsOf(o) = {}
    BY <1>8, <1>9, <2>3
  <2> QED
    BY <1>9, <1>10, <2>1, <2>2, <2>4
<1> QED
  BY <1>12, <1>13

LEMMA SettlersNext == IInv /\ SettlersInv /\ [Next]_vars => SettlersInv'
<1> SUFFICES ASSUME IInv, SettlersInv, [Next]_vars PROVE SettlersInv'
  OBVIOUS
<1>1. ASSUME UNCHANGED <<orders, outbox>>, \A g \in Handlers : handler'[g] \in {handler[g], Idle}
      PROVE  SettlersInv'
  <2>1. \A o \in Orders : SettlersOf(o)' \subseteq SettlersOf(o)
    BY <1>1 DEF SettlersOf
  <2> QED
    BY <1>1, <2>1, FewerSettlers DEF SettlersInv
<1>2. ASSUME NEW h \in Handlers, NEW o \in Orders,
             CreateOrder(h, o) \/ MarkOrderPaid(h, o) \/ CancelOrder(h, o)
      PROVE  SettlersInv'
  <2>1. CASE \E t \in EventTypes, code \in {"OK", "FailedPrecondition"} : Answer(o, t, code)
    BY <1>1, <2>1 DEF Answer
  <2>2. CASE CreateOrder(h, o)
    BY <2>2, SettlersPrepare DEF CreateOrder, EventTypes
  <2>3. CASE MarkOrderPaid(h, o)
    BY <2>1, <2>3, SettlersPrepare DEF MarkOrderPaid, EventTypes
  <2>4. CASE CancelOrder(h, o)
    BY <2>1, <2>4, SettlersPrepare DEF CancelOrder, EventTypes
  <2> QED
    BY <1>2, <2>2, <2>3, <2>4
<1>3. ASSUME NEW h \in Handlers, WriteWithOutbox(h) PROVE SettlersInv'
  <2>1. \A g \in Handlers : handler'[g] \in {handler[g], Idle}
    BY <1>3 DEF WriteWithOutbox, IInv, TypeOK
  <2>2. CASE Commit(handler[h])
    BY <1>3, <2>2, SettlersCommit DEF WriteWithOutbox
  <2>3. CASE UNCHANGED <<orders, outbox>>
    BY <1>1, <2>1, <2>3
  <2> QED
    BY <1>3, <2>2, <2>3 DEF WriteWithOutbox
<1>4. CASE Crash
  BY <1>1, <1>4 DEF Crash
<1>5. CASE UNCHANGED vars
  BY <1>1, <1>5 DEF vars
<1> QED
  BY <1>2, <1>3, <1>4, <1>5 DEF Next, Step

\* However many requests race on an order, it is settled at most once by each
\* of the handlers that can be at work at the same time.
THEOREM SettlementsBounded == Spec => []SettledOncePerHandler
<1>1. ASSUME SettlersInv PROVE SettledOncePerHandler
  <2> SUFFICES ASSUME NEW o \in Orders
               PROVE  Cardinality(SettlementsOf(o)) <= Cardinality(Handlers)
    BY DEF SettledOncePerHandler
  <2>1. SettlersOf(o) \in SUBSET Handlers
    BY DEF SettlersOf
  <2>2. Cardinality(SettlersOf(o)) \in Nat /\ Cardinality(Handlers) \in Nat
    BY <2>1, SettlersFinite
  <2>3. Cardinality(SettlementsOf(o)) \in Nat
    BY <1>1, FS_CardinalityType DEF SettlersInv
  <2> QED
    BY <1>1, <2>2, <2>3 DEF SettlersInv
<1> QED
  BY <1>1, SettlersInit, SettlersNext, Invariance, PTL DEF Spec

-----------------------------------------------------------------------------
\* A committed transaction appends its event to the ledger, and nothing else does.
LEMMA CommitRecords ==
  ASSUME TypeOK, NEW w \in Write, Commit(w)
  PROVE  /\ Announced' = Append(Announced, <<w.order, w.op>>)
         /\ orders' = [orders EXCEPT ![w.order] = StatusAfter[w.op]]
<1> DEFINE n == Len(outbox) + 1
           e == [order |-> w.order, type |-> w.op, createdAt |-> w.stamp, status |-> "PENDING"]
<1>1. /\ e \in OutboxEvent(Orders)
      /\ e.order = w.order /\ e.type = w.op
  BY DEF Write, OutboxEvent
<1>2. /\ Len(outbox) \in Nat
      /\ DOMAIN outbox = 1 .. Len(outbox)
      /\ DOMAIN outbox' = 1 .. n
      /\ outbox'[n] = e
      /\ \A i \in 1 .. Len(outbox) : outbox'[i] = outbox[i]
  BY <1>1 DEF Commit, TypeOK
<1>3. /\ \A i \in 1 .. Len(outbox) : outbox[i].order \in Orders /\ outbox[i].type \in EventTypes
      /\ Announced = [i \in 1 .. Len(outbox) |-> <<outbox[i].order, outbox[i].type>>]
  BY <1>2, RowFacts DEF Announced, OutboxEvent
<1>4. Announced \in Seq(Orders \X EventTypes) /\ Len(Announced) = Len(outbox)
  BY <1>2, <1>3
<1>5. Announced' = [i \in 1 .. n |-> <<outbox'[i].order, outbox'[i].type>>]
  BY <1>2 DEF Announced
<1>6. <<w.order, w.op>> \in Orders \X EventTypes
  BY DEF Write
<1> HIDE DEF e
<1>7. Append(Announced, <<w.order, w.op>>) =
        [i \in 1 .. n |-> IF i = n THEN <<w.order, w.op>> ELSE Announced[i]]
  BY <1>2, <1>4, <1>6
<1>8. \A i \in 1 .. n : <<outbox'[i].order, outbox'[i].type>> =
                          IF i = n THEN <<w.order, w.op>> ELSE Announced[i]
  BY <1>1, <1>2, <1>3
<1> QED
  BY <1>5, <1>7, <1>8 DEF Commit

\* Every step that is not a commit leaves the tables alone.
LEMMA OnlyCommitsWrite ==
  ASSUME [Next]_vars
  PROVE  \/ \E h \in Handlers : handler[h] # Idle /\ Commit(handler[h])
         \/ UNCHANGED <<orders, outbox>>
  BY DEF Next, Step, CreateOrder, MarkOrderPaid, CancelOrder, Prepare, Answer,
         WriteWithOutbox, Crash, vars

\* A pending write finds its order as the abstract ledger expects it.
LEMMA WriteFinds ==
  ASSUME IInv, NEW h \in Handlers, handler[h] # Idle
  PROVE  /\ handler[h] \in Write
         /\ handler[h].op = "OrderCreated" => orders[handler[h].order] = NoRow
         /\ handler[h].op # "OrderCreated" => orders[handler[h].order] # NoRow
<1>1. handler[h] \in Write /\ SoundWrite(h)
  BY DEF IInv, TypeOK, WritesAreSound
<1>2. handler[h].order \in Orders
  BY <1>1 DEF Write
<1>3. orders[handler[h].order] = NoRow => EventsOf(handler[h].order) = {}
  BY <1>2 DEF IInv, StatusIsLastEvent
<1> QED
  BY <1>1, <1>3 DEF SoundWrite, CreatedBefore

\* The instance of the abstract module speaks of the same events and statuses.
LEMMA SameVocabulary ==
  /\ Outboxed!NoRow = NoRow
  /\ Outboxed!Settlements = Settlements
  /\ Outboxed!StatusAfter = StatusAfter
  BY DEF NoRow, Settlements, EventTypes, StatusAfter,
         Outboxed!NoRow, Outboxed!Settlements, Outboxed!EventTypes, Outboxed!StatusAfter

LEMMA InitAnnounced == Init => orders = [o \in Orders |-> NoRow] /\ Announced = <<>>
<1> SUFFICES ASSUME Init PROVE Announced = <<>>
  BY DEF Init
<1>1. DOMAIN outbox = {}
  BY DEF Init
<1> QED
  BY <1>1 DEF Announced

\* With any number of handlers, the service implements the ledger: an order's
\* status and the event that announces it change in one step.
THEOREM Refinement == Spec => ImplementsLedger
<1>1. Init => Outboxed!Init
  BY InitAnnounced, SameVocabulary DEF Outboxed!Init
<1>2. IInv /\ [Next]_vars => [Outboxed!Next]_(Outboxed!vars)
  <2> SUFFICES ASSUME IInv, [Next]_vars PROVE [Outboxed!Next]_(Outboxed!vars)
    OBVIOUS
  <2>1. CASE UNCHANGED <<orders, outbox>>
    BY <2>1 DEF Outboxed!vars, Announced
  <2>2. ASSUME NEW h \in Handlers, handler[h] # Idle, Commit(handler[h])
        PROVE  Outboxed!Next
    <3> DEFINE w == handler[h]
    <3>1. /\ w \in Write /\ w.order \in Orders /\ w.op \in EventTypes
          /\ w.op = "OrderCreated" => orders[w.order] = NoRow
          /\ w.op # "OrderCreated" => orders[w.order] # NoRow
      BY <2>2, WriteFinds DEF Write
    <3>2. Outboxed!Record(w.order, w.op)
      BY <2>2, <3>1, CommitRecords, SameVocabulary DEF IInv, Outboxed!Record
    <3>3. CASE w.op = "OrderCreated"
      BY <3>1, <3>2, <3>3, SameVocabulary DEF Outboxed!Next, Outboxed!Open
    <3>4. CASE w.op # "OrderCreated"
      BY <3>1, <3>2, <3>4, SameVocabulary DEF Outboxed!Next, Outboxed!Settle, Settlements
    <3> QED
      BY <3>3, <3>4
  <2> QED
    BY <2>1, <2>2, OnlyCommitsWrite
<1> QED
  BY <1>1, <1>2, Invariance, PTL DEF Spec, ImplementsLedger, Outboxed!Spec

=============================================================================
