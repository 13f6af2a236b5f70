--------------------------- MODULE OrderAPIProofs ---------------------------
(***************************************************************************)
(* OrderAPI, proved for any sets of orders, handlers and baskets and any   *)
(* number of calls and crashes.                                            *)
(*                                                                         *)
(* Every step is a step of OrderService or leaves its variables alone, so  *)
(* the theorems of OrderServiceProofs hold of the service behind its API.  *)
(* A row may appear for a CreateOrder the client knows no outcome of:      *)
(* RowsAreFew keeps the account of the rows, of the calls that can still   *)
(* add one, and of what the client was told.                               *)
(***************************************************************************)
EXTENDS OrderAPI, OrderServiceProofs, PricingProofs

\* The types that the other parts of the invariant need.
APITypes ==
  /\ call \in [Handlers -> Call \cup {NoCall}]
  /\ requestsTotal \in [Codes -> Nat] /\ ordersTotal \in [EventTypes -> Nat]
  /\ unsure \in Nat /\ crashes \in Nat
  /\ epoch \in Nat /\ epoch <= Len(outbox)
  /\ told \in BOOLEAN

\* The methods that write.
Writers == DOMAIN EventOf

\* A goroutine of the service writes what its call has asked for.
WritesAreAsked ==
  \A h \in Handlers :
    /\ handler[h] # Idle => In(h, "tx") /\ handler[h].op = EventOf[call[h].method]
    /\ In(h, "tx") \/ In(h, "inc") => call[h].method \in Writers

\* The client waits for one CreateOrder, and for none once it was told OK.
OneIsAwaited ==
  \A h \in Handlers : Awaits(h) => ~ told /\ \A g \in Handlers : Awaits(g) => g = h

\* The calls that may add a row after the client has given them up.
Adrift == {h \in Handlers : /\ Serves(h, "CreateOrder") /\ call[h].abandoned
                            /\ call[h].stage \in {"handler", "tx"}}

\* The call that may have added one, and whose answer is on its way.
Answering == {h \in Handlers : /\ Awaits(h) /\ call[h].stage \in {"inc", "return"}
                               /\ call[h].result \in {"ok", "ERR_INTERNAL"}}

\* The order the client knows of.
Known == IF told THEN 1 ELSE 0

RowsAreFew ==
  /\ IsFiniteSet(Rows)
  /\ Cardinality(Rows) + Cardinality(Adrift) <= unsure + Known + Cardinality(Answering)

\* Nothing that mapProtoItemsDomain or validateItems stops is stored.
OnlyValidItems ==
  Rows # {} \/ (\E h \in Handlers : In(h, "tx") /\ Serves(h, "CreateOrder")) =>
    ~ MapPanics(basket) /\ validateItems(basket)

\* A row, or an order about to become one, has a total of what the client asked
\* for.
Chosen(o) == orders[o] # NoRow \/ \E h \in Handlers : handler[h] # Idle /\ handler[h].order = o

PricesAreCalculated ==
  /\ basket \in Baskets
  /\ totals \in [Orders -> MinInt .. MaxInt]
  /\ \A o \in Orders : Chosen(o) => totals[o] \in calcTotalUSD(basket)

\* A call in its transaction has something to write.
WritesAreHeld == \A h \in Handlers : In(h, "tx") => handler[h] # Idle

\* A call is counted once, after it was open; the client is at a loss only about
\* calls it has made; and a counter of orders moves once for a call that writes.
Open == {h \in Handlers : call[h] # NoCall}

Waiting == {h \in Handlers : Awaits(h)}

Unwritten == {h \in Handlers : call[h] # NoCall /\ call[h].stage \in {"handler", "tx", "inc"}}

SumOfCodes(f) ==
  f["OK"] + f["InvalidArgument"] + f["NotFound"] + f["FailedPrecondition"] + f["Internal"]

SumOfTypes(f) == f["OrderCreated"] + f["OrderPaid"] + f["OrderCancelled"]

CallsAreCounted ==
  /\ calls \in Nat /\ calls <= MaxCalls /\ crashes <= MaxCrashes
  /\ SumOfCodes(requestsTotal) + Cardinality(Open) <= calls
  /\ unsure + Cardinality(Waiting) <= calls
  /\ SumOfTypes(ordersTotal) + Cardinality(Unwritten) <= calls

APIInv ==
  /\ IInv
  /\ APITypes
  /\ WritesAreAsked
  /\ WritesAreHeld
  /\ CallsAreCounted
  /\ PricesAreCalculated
  /\ OneIsAwaited
  /\ RowsAreFew
  /\ OnlyValidItems
  /\ CountersFallShort

-----------------------------------------------------------------------------
\* Every step of a call is a step of the service or leaves its state alone.
LEMMA StepsOfService ==
  ASSUME TypeOK, [APINext]_apiVars
  PROVE  [Next]_vars
<1>1. ASSUME NEW h \in Handlers, Handle(h) PROVE [Next]_vars
  <2>1. CASE HandleCreateOrder(h)
    BY <2>1 DEF HandleCreateOrder, Returns, Next, Step
  <2>2. CASE HandleGetOrder(h)
    BY <2>2 DEF HandleGetOrder, NoOrder, Returns
  <2>3. CASE HandleMarkOrderPaid(h)
    BY <2>3 DEF HandleMarkOrderPaid, NoOrder, Returns, Next, Step
  <2>4. CASE HandleCancelOrder(h)
    BY <2>4 DEF HandleCancelOrder, NoOrder, Returns, Next, Step
  <2> QED
    BY <1>1, <2>1, <2>2, <2>3, <2>4 DEF Handle
<1>2. ASSUME NEW h \in Handlers, Transact(h) PROVE [Next]_vars
  BY <1>2 DEF Transact, Next, Step
<1>3. CASE APICrash
  <2>1. handler' = [h \in Handlers |-> Idle] /\ UNCHANGED <<orders, outbox, replies>>
    BY <1>3 DEF APICrash, Die
  <2>2. CASE \E h \in Handlers : handler[h] # Idle
    BY <2>1, <2>2 DEF Next, Crash
  <2>3. CASE \A h \in Handlers : handler[h] = Idle
    <3>1. handler' = handler
      BY <2>1, <2>3 DEF TypeOK
    <3> QED
      BY <2>1, <3>1 DEF vars
  <2> QED
    BY <2>2, <2>3
<1>4. ASSUME NEW h \in Handlers,
             \/ \E method \in Methods : Dispatch(h, method)
             \/ Inc(h) \/ Return(h) \/ Recover(h) \/ GiveUp(h)
      PROVE  UNCHANGED vars
  BY <1>4 DEF Dispatch, Inc, Returns, Return, Recover, GiveUp, Reply
<1>5. CASE UNCHANGED apiVars
  BY <1>5 DEF apiVars
<1> QED
  BY <1>1, <1>2, <1>3, <1>4, <1>5 DEF APINext

\* A call has its four parts, and is not NoCall.
LEMMA CallFacts ==
  /\ \A c \in Call : /\ c # NoCall /\ c.method \in Methods /\ c.result \in Results
                     /\ c.stage \in {"handler", "tx", "inc", "panic", "return"}
                     /\ c.abandoned \in BOOLEAN
  /\ "ok" \in Results /\ "OK" \in Codes /\ "Internal" \in Codes
  /\ \A r \in Results : mapError(r) \in Codes
  BY DEF Call, NoCall, Results, Codes, mapError

\* What the methods write.
LEMMA EventOfMeans ==
  /\ Writers = {"CreateOrder", "MarkOrderPaid", "CancelOrder"}
  /\ EventOf["CreateOrder"] = "OrderCreated" /\ EventOf["MarkOrderPaid"] = "OrderPaid"
  /\ EventOf["CancelOrder"] = "OrderCancelled"
  /\ \A m \in Writers : /\ EventOf[m] \in EventTypes
                        /\ EventOf[m] = "OrderCreated" <=> m = "CreateOrder"
<1>1. /\ Writers = {"CreateOrder", "MarkOrderPaid", "CancelOrder"}
      /\ EventOf["CreateOrder"] = "OrderCreated" /\ EventOf["MarkOrderPaid"] = "OrderPaid"
      /\ EventOf["CancelOrder"] = "OrderCancelled"
  BY DEF Writers, EventOf
<1>2. ASSUME NEW m \in Writers
      PROVE  EventOf[m] \in EventTypes /\ (EventOf[m] = "OrderCreated" <=> m = "CreateOrder")
  BY <1>1 DEF EventTypes
<1> QED
  BY <1>1, <1>2

\* The service moves a call on.
LEMMA BecomesMeans ==
  ASSUME APITypes, NEW h \in Handlers, call[h] # NoCall, NEW r \in Results,
         NEW s \in {"handler", "tx", "inc", "panic", "return"}, Becomes(h, s, r)
  PROVE  /\ \E c \in Call : /\ call' = [call EXCEPT ![h] = c] /\ c.stage = s /\ c.result = r
                            /\ c.method = call[h].method /\ c.abandoned = call[h].abandoned
         /\ UNCHANGED <<basket, unsure, told, calls, requestsTotal, epoch, crashes>>
<1> DEFINE c == [call[h] EXCEPT !.stage = s, !.result = r]
<1>1. call[h] \in Call
  BY DEF APITypes
<1>2. /\ c \in Call /\ c.stage = s /\ c.result = r
      /\ c.method = call[h].method /\ c.abandoned = call[h].abandoned
  BY <1>1 DEF Call
<1>3. call' = [call EXCEPT ![h] = c]
  BY DEF Becomes
<1> QED
  BY <1>2, <1>3 DEF Becomes, client

\* What a handler may come to: a write is prepared for a CreateOrder of valid
\* items only, and one that is refused was refused for its items.
Outcome(h, c) ==
  /\ call' = [call EXCEPT ![h] = c]
  /\ c.method = call[h].method /\ c.abandoned = call[h].abandoned
  /\ \/ /\ c.stage = "tx"
        /\ \E w \in Write : /\ handler' = [handler EXCEPT ![h] = w]
                            /\ w.op = EventOf[c.method]
        /\ c.method \in Writers
        /\ c.method = "CreateOrder" => ~ MapPanics(basket) /\ validateItems(basket)
     \/ /\ c.stage \in {"panic", "return"} /\ handler' = handler
        /\ c.result # "ERR_INTERNAL"

LEMMA HandleMeans ==
  ASSUME APIInv, NEW h \in Handlers, Handle(h)
  PROVE  /\ In(h, "handler") /\ handler[h] = Idle
         /\ \E c \in Call : Outcome(h, c)
         /\ UNCHANGED <<orders, outbox, basket, unsure, told, calls, requestsTotal, ordersTotal,
                        epoch, crashes>>
<1>1. APITypes /\ TypeOK /\ In(h, "handler") /\ call[h] # NoCall /\ call[h] \in Call
  BY DEF APIInv, IInv, Handle, HandleCreateOrder, HandleGetOrder, HandleMarkOrderPaid,
         HandleCancelOrder, In, APITypes
<1>2. handler[h] = Idle
  BY <1>1 DEF APIInv, WritesAreAsked, In
<1>3. ASSUME NEW r \in Results, r # "ERR_INTERNAL", NEW s \in {"panic", "return"},
             Becomes(h, s, r), handler' = handler
      PROVE  /\ \E c \in Call : Outcome(h, c)
             /\ UNCHANGED <<basket, unsure, told, calls, requestsTotal, epoch, crashes>>
  BY <1>1, <1>3, BecomesMeans DEF Outcome
<1>4. ASSUME NEW o \in Orders, NEW t \in EventTypes, Prepare(h, o, t), Becomes(h, "tx", "ok"),
             call[h].method \in Writers, t = EventOf[call[h].method],
             t = "OrderCreated" => ~ MapPanics(basket) /\ validateItems(basket)
      PROVE  /\ \E c \in Call : Outcome(h, c)
             /\ UNCHANGED <<basket, unsure, told, calls, requestsTotal, epoch, crashes>>
  <2>1. PICK c \in Call : /\ call' = [call EXCEPT ![h] = c] /\ c.stage = "tx"
                          /\ c.method = call[h].method /\ c.abandoned = call[h].abandoned
    BY <1>1, <1>4, BecomesMeans, CallFacts
  <2>2. PICK w \in Write : handler' = [handler EXCEPT ![h] = w] /\ w.op = t
    <3>1. Len(outbox) \in Nat
      BY <1>1 DEF TypeOK
    <3>2. [op |-> t, order |-> o, stamp |-> Now] \in Write
      BY <3>1 DEF Write, Now
    <3> QED
      BY <1>4, <3>2 DEF Prepare
  <2>3. Outcome(h, c)
    BY <1>4, <2>1, <2>2, EventOfMeans DEF Outcome
  <2> QED
    BY <1>1, <1>4, <2>3, BecomesMeans, CallFacts
<1>5. UNCHANGED ordersTotal
  BY DEF Handle
<1>6. ASSUME NoOrder(h)
      PROVE  /\ \E c \in Call : Outcome(h, c)
             /\ UNCHANGED <<orders, outbox, basket, unsure, told, calls, requestsTotal, epoch, crashes>>
  BY <1>3, <1>6 DEF NoOrder, Returns, Results, vars
<1>7. CASE HandleCreateOrder(h)
  <2>1. call[h].method = "CreateOrder" /\ call[h].method \in Writers
    BY <1>7, EventOfMeans DEF HandleCreateOrder, Serves
  <2>2. CASE MapPanics(basket) /\ Becomes(h, "panic", "ok") /\ UNCHANGED <<vars, totals>>
    BY <1>1, <1>2, <1>3, <1>5, <2>2 DEF Results, vars
  <2>3. CASE Returns(h, "ERR_INVALID_INPUT")
    BY <1>1, <1>2, <1>3, <1>5, <2>3 DEF Returns, Results, vars
  <2>4. CASE /\ ~ MapPanics(basket) /\ validateItems(basket)
             /\ (\E o \in Orders : CreateOrder(h, o)) /\ Becomes(h, "tx", "ok")
    BY <1>1, <1>2, <1>4, <1>5, <2>1, <2>4, EventOfMeans DEF CreateOrder, Prepare, EventTypes
  <2> QED
    BY <1>7, <2>2, <2>3, <2>4 DEF HandleCreateOrder
<1>8. CASE HandleGetOrder(h)
  <2>1. CASE NoOrder(h)
    BY <1>1, <1>2, <1>5, <1>6, <2>1
  <2>2. CASE Returns(h, "ok")
    BY <1>1, <1>2, <1>3, <1>5, <2>2 DEF Returns, Results, vars
  <2> QED
    BY <1>8, <2>1, <2>2 DEF HandleGetOrder
<1>9. CASE HandleMarkOrderPaid(h)
  <2>1. call[h].method = "MarkOrderPaid" /\ call[h].method \in Writers
    BY <1>9, EventOfMeans DEF HandleMarkOrderPaid, Serves
  <2>2. CASE NoOrder(h)
    BY <1>1, <1>2, <1>5, <1>6, <2>2
  <2>3. CASE /\ \E o \in Orders : MarkOrderPaid(h, o)
             /\ IF handler'[h] # Idle THEN Becomes(h, "tx", "ok")
                                      ELSE Becomes(h, "return", "ERR_INVALID_ORDER_STATE")
    <3>1. PICK o \in Orders : MarkOrderPaid(h, o)
      BY <2>3
    <3>2. CASE Prepare(h, o, "OrderPaid")
      <4>1. handler'[h] # Idle
        BY <1>1, <3>2 DEF Prepare, TypeOK, Idle
      <4> QED
        BY <1>1, <1>2, <1>4, <1>5, <2>1, <2>3, <3>2, <4>1, EventOfMeans DEF Prepare, EventTypes
    <3>3. CASE Answer(o, "OrderPaid", "FailedPrecondition")
      <4>1. handler' = handler /\ UNCHANGED <<orders, outbox>>
        BY <3>3 DEF Answer
      <4> QED
        BY <1>1, <1>2, <1>3, <1>5, <2>3, <4>1 DEF Results
    <3> QED
      BY <3>1, <3>2, <3>3 DEF MarkOrderPaid
  <2> QED
    BY <1>9, <2>2, <2>3 DEF HandleMarkOrderPaid
<1>10. CASE HandleCancelOrder(h)
  <2>1. call[h].method = "CancelOrder" /\ call[h].method \in Writers
    BY <1>10, EventOfMeans DEF HandleCancelOrder, Serves
  <2>2. CASE NoOrder(h)
    BY <1>1, <1>2, <1>5, <1>6, <2>2
  <2>3. CASE \E o \in Orders :
               /\ CancelOrder(h, o)
               /\ CASE orders[o] = "CREATED" -> Becomes(h, "tx", "ok")
                    [] orders[o] = "CANCELLED" -> Becomes(h, "return", "ok")
                    [] orders[o] = "PAID" -> Becomes(h, "return", "ERR_INVALID_ORDER_STATE")
    <3>1. PICK o \in Orders :
               /\ CancelOrder(h, o)
               /\ CASE orders[o] = "CREATED" -> Becomes(h, "tx", "ok")
                    [] orders[o] = "CANCELLED" -> Becomes(h, "return", "ok")
                    [] orders[o] = "PAID" -> Becomes(h, "return", "ERR_INVALID_ORDER_STATE")
      BY <2>3
    <3>2. CASE orders[o] = "CREATED"
      BY <1>1, <1>2, <1>4, <1>5, <2>1, <3>1, <3>2, EventOfMeans DEF CancelOrder, Prepare, EventTypes
    <3>3. CASE orders[o] = "CANCELLED"
      BY <1>1, <1>2, <1>3, <1>5, <3>1, <3>3 DEF CancelOrder, Answer, Results
    <3>4. CASE orders[o] = "PAID"
      BY <1>1, <1>2, <1>3, <1>5, <3>1, <3>4 DEF CancelOrder, Answer, Results
    <3> QED
      BY <3>1, <3>2, <3>3, <3>4 DEF CancelOrder
  <2> QED
    BY <1>10, <2>2, <2>3 DEF HandleCancelOrder
<1> QED
  BY <1>7, <1>8, <1>9, <1>10 DEF Handle

\* writeWithOutbox returns nil only after a COMMIT.
LEMMA TransactMeans ==
  ASSUME APIInv, NEW h \in Handlers, Transact(h)
  PROVE  /\ In(h, "tx") /\ handler[h] # Idle /\ handler[h] \in Write
         /\ \E c \in Call :
              /\ call' = [call EXCEPT ![h] = c]
              /\ c.method = call[h].method /\ c.abandoned = call[h].abandoned
              /\ \/ c.stage = "inc" /\ c.result = "ok" /\ Commit(handler[h])
                 \/ /\ c.stage = "return" /\ c.result = "ERR_INTERNAL"
                    /\ Commit(handler[h]) \/ UNCHANGED <<orders, outbox>>
         /\ handler' = [handler EXCEPT ![h] = Idle]
         /\ UNCHANGED <<totals, basket, unsure, told, calls, requestsTotal, ordersTotal, epoch, crashes>>
<1>1. In(h, "tx") /\ call[h] # NoCall /\ WriteWithOutbox(h) /\ UNCHANGED <<totals, ordersTotal>>
  BY DEF Transact, In
<1>2. /\ handler[h] # Idle /\ handler' = [handler EXCEPT ![h] = Idle]
      /\ Commit(handler[h]) \/ UNCHANGED <<orders, outbox>>
  BY <1>1 DEF WriteWithOutbox
<1>3. handler[h] \in Write /\ APITypes
  BY <1>2 DEF APIInv, IInv, TypeOK
<1>4. \/ outbox' # outbox /\ Becomes(h, "inc", "ok")
      \/ Becomes(h, "return", "ERR_INTERNAL")
  BY DEF Transact, Written
<1>5. CASE outbox' # outbox /\ Becomes(h, "inc", "ok")
  <2>1. Commit(handler[h])
    BY <1>2, <1>5
  <2>2. /\ \E c \in Call : /\ call' = [call EXCEPT ![h] = c] /\ c.stage = "inc" /\ c.result = "ok"
                           /\ c.method = call[h].method /\ c.abandoned = call[h].abandoned
        /\ UNCHANGED <<basket, unsure, told, calls, requestsTotal, epoch, crashes>>
    BY <1>1, <1>3, <1>5, BecomesMeans DEF Results
  <2> QED
    BY <1>1, <1>2, <1>3, <1>5, <2>1, <2>2
<1>6. CASE Becomes(h, "return", "ERR_INTERNAL")
  <2>1. /\ \E c \in Call : /\ call' = [call EXCEPT ![h] = c] /\ c.stage = "return"
                           /\ c.result = "ERR_INTERNAL"
                           /\ c.method = call[h].method /\ c.abandoned = call[h].abandoned
        /\ UNCHANGED <<basket, unsure, told, calls, requestsTotal, epoch, crashes>>
    BY <1>1, <1>3, <1>6, BecomesMeans DEF Results
  <2> QED
    BY <1>1, <1>2, <1>3, <1>6, <2>1
<1> QED
  BY <1>4, <1>5, <1>6

LEMMA TransactMoves ==
  ASSUME APIInv, NEW h \in Handlers, Transact(h)
  PROVE  /\ call[h] # NoCall /\ handler' = [handler EXCEPT ![h] = Idle] /\ told' = told
         /\ call[h].method \in Writers
         /\ \E c \in Call : /\ call' = [call EXCEPT ![h] = c] /\ c.stage \in {"inc", "return"}
                            /\ c.result \in {"ok", "ERR_INTERNAL"}
                            /\ c.method = call[h].method /\ c.abandoned = call[h].abandoned
<1>1. call[h] # NoCall
  BY TransactMeans DEF In
<1>2. call[h].method \in Writers
  BY TransactMeans DEF APIInv, WritesAreAsked
<1> QED
  BY <1>1, <1>2, TransactMeans

\* The counter of the method moves, and nothing else but the call.
LEMMA IncMeans ==
  ASSUME APIInv, NEW h \in Handlers, Inc(h)
  PROVE  /\ In(h, "inc") /\ call[h] # NoCall /\ call[h].method \in Writers
         /\ ordersTotal' = [ordersTotal EXCEPT ![EventOf[call[h].method]] =
                              ordersTotal[EventOf[call[h].method]] + 1]
         /\ \E c \in Call : /\ call' = [call EXCEPT ![h] = c] /\ c.stage = "return"
                            /\ c.result = call[h].result
                            /\ c.method = call[h].method /\ c.abandoned = call[h].abandoned
         /\ UNCHANGED <<vars, totals, basket, unsure, told, calls, requestsTotal, epoch, crashes>>
<1>1. APITypes /\ In(h, "inc") /\ call[h] # NoCall /\ call[h] \in Call
  BY DEF APIInv, Inc, In, APITypes
<1>2. call[h].method \in Writers
  BY <1>1 DEF APIInv, WritesAreAsked
<1>3. call[h].result \in Results
  BY <1>1, CallFacts
<1>4. Becomes(h, "return", call[h].result) /\ UNCHANGED <<vars, totals>>
  BY DEF Inc, Returns
<1>5. /\ \E c \in Call : /\ call' = [call EXCEPT ![h] = c] /\ c.stage = "return"
                         /\ c.result = call[h].result
                         /\ c.method = call[h].method /\ c.abandoned = call[h].abandoned
      /\ UNCHANGED <<basket, unsure, told, calls, requestsTotal, epoch, crashes>>
  BY <1>1, <1>3, <1>4, BecomesMeans
<1> QED
  BY <1>1, <1>2, <1>4, <1>5 DEF Inc

\* The other steps, as they change the calls.
LEMMA DispatchMeans ==
  ASSUME NEW h \in Handlers, NEW m \in Methods, Dispatch(h, m)
  PROVE  /\ call[h] = NoCall /\ MayCall(m) /\ calls < MaxCalls /\ calls' = calls + 1
         /\ \E c \in Call : /\ call' = [call EXCEPT ![h] = c] /\ c.stage = "handler"
                            /\ c.method = m /\ c.abandoned = FALSE
         /\ UNCHANGED <<orders, outbox, handler, basket, unsure, told, requestsTotal, ordersTotal,
                        epoch, crashes>>
<1>1. [method |-> m, stage |-> "handler", result |-> "ok", abandoned |-> FALSE] \in Call
  BY CallFacts DEF Call
<1> QED
  BY <1>1 DEF Dispatch, vars, metrics

LEMMA GiveUpMeans ==
  ASSUME APITypes, NEW h \in Handlers, GiveUp(h)
  PROVE  /\ Awaits(h) /\ call[h] # NoCall /\ call[h] \in Call /\ unsure' = unsure + 1
         /\ \E c \in Call : /\ call' = [call EXCEPT ![h] = c] /\ c.stage = call[h].stage
                            /\ c.result = call[h].result /\ c.method = call[h].method /\ c.abandoned
         /\ UNCHANGED <<orders, outbox, handler, basket, told, calls, requestsTotal, ordersTotal,
                        epoch, crashes>>
<1> DEFINE c == [call[h] EXCEPT !.abandoned = TRUE]
<1>1. Awaits(h) /\ call[h] # NoCall /\ call[h] \in Call
  BY DEF GiveUp, Awaits, Serves, APITypes
<1>2. /\ c \in Call /\ c.stage = call[h].stage /\ c.result = call[h].result
      /\ c.method = call[h].method /\ c.abandoned
  BY <1>1 DEF Call
<1>3. call' = [call EXCEPT ![h] = c]
  BY DEF GiveUp
<1> QED
  BY <1>1, <1>2, <1>3 DEF GiveUp, vars, metrics

LEMMA ReplyMeans ==
  ASSUME APITypes, NEW h \in Handlers, Return(h) \/ Recover(h)
  PROVE  \E code \in Codes :
           /\ call[h] # NoCall /\ call[h] \in Call
           /\ call' = [call EXCEPT ![h] = NoCall]
           /\ told' = (told \/ (Awaits(h) /\ code = "OK"))
           /\ unsure' = IF Awaits(h) /\ code = "Internal" THEN unsure + 1 ELSE unsure
           /\ \/ In(h, "return") /\ code = mapError(call[h].result) /\ Count(code)
              \/ In(h, "panic") /\ code = "Internal" /\ UNCHANGED requestsTotal
           /\ UNCHANGED <<orders, outbox, handler, basket, calls, ordersTotal, epoch, crashes>>
<1>1. call[h] # NoCall /\ call[h] \in Call
  BY DEF Return, Recover, In, APITypes
<1>2. CASE Return(h)
  <2>1. mapError(call[h].result) \in Codes
    BY <1>1, CallFacts
  <2> QED
    BY <1>1, <1>2, <2>1 DEF Return, Reply, vars
<1>3. CASE Recover(h)
  BY <1>1, <1>3, CallFacts DEF Recover, Reply, vars
<1> QED
  BY <1>2, <1>3

\* One process ends and the next one begins.
LEMMA DieMeans ==
  ASSUME APIInv, Die
  PROVE  /\ handler' = [h \in Handlers |-> Idle] /\ call' = [h \in Handlers |-> NoCall]
         /\ {h \in Handlers : Awaits(h)} \subseteq Handlers
         /\ Cardinality({h \in Handlers : Awaits(h)}) \in Nat
         /\ unsure' = unsure + Cardinality({h \in Handlers : Awaits(h)})
         /\ requestsTotal' = Zero(Codes) /\ ordersTotal' = Zero(EventTypes)
         /\ epoch' = Len(outbox)
         /\ UNCHANGED <<orders, outbox, basket, told, calls>>
<1>1. IsFiniteSet({h \in Handlers : Awaits(h)})
  BY HandlersAssumption, FS_Subset
<1> QED
  BY <1>1, FS_CardinalityType DEF Die

\* The counters and the calls keep their types.
LEMMA TypesNext ==
  ASSUME APIInv, [APINext]_apiVars
  PROVE  APITypes'
<1>1. APITypes /\ TypeOK /\ Len(outbox) \in Nat
  BY DEF APIInv, IInv, TypeOK
<1>2. ASSUME NEW h \in Handlers, NEW m \in Methods, Dispatch(h, m) PROVE APITypes'
  <2>1. call' \in [Handlers -> Call \cup {NoCall}]
    <3>1. PICK c \in Call : call' = [call EXCEPT ![h] = c]
      BY <1>2, DispatchMeans
    <3>2. call \in [Handlers -> Call \cup {NoCall}]
      BY <1>1 DEF APITypes
    <3> QED
      BY <3>1, <3>2
  <2> QED
    BY <1>1, <1>2, <2>1, DispatchMeans DEF APITypes
<1>3. ASSUME NEW h \in Handlers, Inc(h) PROVE APITypes'
  <2>1. PICK c \in Call : call' = [call EXCEPT ![h] = c]
    BY <1>3, IncMeans
  <2>2. call' \in [Handlers -> Call \cup {NoCall}]
    BY <1>1, <2>1 DEF APITypes
  <2>3. EventOf[call[h].method] \in EventTypes
    BY <1>3, IncMeans, EventOfMeans
  <2>4. ordersTotal' \in [EventTypes -> Nat]
    BY <1>1, <1>3, <2>3, IncMeans DEF APITypes
  <2>5. UNCHANGED <<outbox, requestsTotal, unsure, told, epoch, crashes>>
    BY <1>3, IncMeans DEF vars
  <2> QED
    BY <1>1, <2>2, <2>4, <2>5 DEF APITypes
<1>4. ASSUME NEW h \in Handlers, Handle(h) PROVE APITypes'
  <2>1. PICK c \in Call : Outcome(h, c)
    BY <1>4, HandleMeans
  <2>2. call' \in [Handlers -> Call \cup {NoCall}]
    BY <1>1, <2>1 DEF Outcome, APITypes
  <2> QED
    BY <1>1, <1>4, <2>2, HandleMeans DEF APITypes
<1>5. ASSUME NEW h \in Handlers, Transact(h) PROVE APITypes'
  <2>1. PICK c \in Call :
              /\ call' = [call EXCEPT ![h] = c]
              /\ Commit(handler[h]) \/ UNCHANGED <<orders, outbox>>
    BY <1>5, TransactMeans
  <2>2. call' \in [Handlers -> Call \cup {NoCall}]
    BY <1>1, <2>1 DEF APITypes
  <2>3. UNCHANGED <<requestsTotal, ordersTotal, unsure, told, epoch, crashes>>
    BY <1>5, TransactMeans
  <2>4. epoch <= Len(outbox')
    <3>1. CASE Commit(handler[h])
      <4>1. Len(outbox') = Len(outbox) + 1
        BY <1>1, <3>1 DEF Commit, TypeOK
      <4> QED
        BY <1>1, <4>1 DEF APITypes
    <3>2. CASE outbox' = outbox
      BY <1>1, <3>2 DEF APITypes
    <3> QED
      BY <2>1, <3>1, <3>2
  <2> QED
    BY <1>1, <2>2, <2>3, <2>4 DEF APITypes
<1>6. ASSUME NEW h \in Handlers, Return(h) \/ Recover(h) PROVE APITypes'
  <2>1. PICK code \in Codes :
           /\ call' = [call EXCEPT ![h] = NoCall]
           /\ told' = (told \/ (Awaits(h) /\ code = "OK"))
           /\ unsure' = IF Awaits(h) /\ code = "Internal" THEN unsure + 1 ELSE unsure
           /\ Count(code) \/ UNCHANGED requestsTotal
           /\ UNCHANGED <<orders, outbox, handler, basket, ordersTotal, epoch, crashes>>
    BY <1>1, <1>6, ReplyMeans
  <2>2. requestsTotal' \in [Codes -> Nat]
    BY <1>1, <2>1 DEF APITypes, Count
  <2>3. unsure' \in Nat
    BY <1>1, <2>1 DEF APITypes
  <2>4. told' \in BOOLEAN
    BY <1>1, <2>1 DEF APITypes
  <2>5. call' \in [Handlers -> Call \cup {NoCall}]
    BY <1>1, <2>1 DEF APITypes
  <2> QED
    BY <1>1, <2>1, <2>2, <2>3, <2>4, <2>5 DEF APITypes
<1>7. ASSUME NEW h \in Handlers, GiveUp(h) PROVE APITypes'
  <2>1. call' \in [Handlers -> Call \cup {NoCall}]
    BY <1>1, <1>7, GiveUpMeans DEF APITypes
  <2> QED
    BY <1>1, <1>7, <2>1, GiveUpMeans DEF APITypes
<1>8. CASE APICrash
  <2>1. Die /\ crashes' \in Nat
    BY <1>1, <1>8 DEF APICrash, APITypes
  <2>2. call' \in [Handlers -> Call \cup {NoCall}]
    BY <2>1, DieMeans
  <2>3. requestsTotal' \in [Codes -> Nat] /\ ordersTotal' \in [EventTypes -> Nat]
    BY <2>1, DieMeans DEF Zero
  <2>4. unsure' \in Nat
    BY <1>1, <2>1, DieMeans DEF APITypes
  <2> QED
    BY <1>1, <2>1, <2>2, <2>3, <2>4, DieMeans DEF APITypes
<1>9. CASE UNCHANGED apiVars
  BY <1>1, <1>9 DEF apiVars, vars, client, metrics, APITypes
<1> QED
  BY <1>2, <1>3, <1>4, <1>5, <1>6, <1>7, <1>8, <1>9 DEF APINext

LEMMA OtherCalls ==
  ASSUME APITypes, NEW h \in Handlers, NEW c, call' = [call EXCEPT ![h] = c]
  PROVE  call'[h] = c /\ \A g \in Handlers : g # h => call'[g] = call[g]
  BY DEF APITypes

LEMMA AskedNext ==
  ASSUME APIInv, [APINext]_apiVars
  PROVE  WritesAreAsked'
<1>1. APITypes /\ TypeOK /\ WritesAreAsked
  BY DEF APIInv, IInv
<1> USE DEF WritesAreAsked, In, Serves
<1>2. ASSUME NEW h \in Handlers, NEW m \in Methods, Dispatch(h, m) PROVE WritesAreAsked'
  <2>1. PICK c \in Call : /\ call' = [call EXCEPT ![h] = c] /\ c.stage = "handler"
                          /\ call[h] = NoCall /\ handler' = handler
    BY <1>2, DispatchMeans
  <2>2. call'[h] = c /\ \A g \in Handlers : g # h => call'[g] = call[g]
    BY <1>1, <2>1, OtherCalls
  <2> QED
    BY <1>1, <2>1, <2>2
<1>3. ASSUME NEW h \in Handlers, Inc(h) PROVE WritesAreAsked'
  <2>1. PICK c \in Call : call' = [call EXCEPT ![h] = c] /\ c.stage = "return"
    BY <1>3, IncMeans
  <2>2. call'[h] = c /\ \A g \in Handlers : g # h => call'[g] = call[g]
    BY <1>1, <2>1, OtherCalls
  <2>3. In(h, "inc") /\ handler' = handler
    BY <1>3, IncMeans DEF vars
  <2> QED
    BY <1>1, <2>1, <2>2, <2>3
<1>4. ASSUME NEW h \in Handlers, Handle(h) PROVE WritesAreAsked'
  <2>1. PICK c \in Call : Outcome(h, c)
    BY <1>4, HandleMeans
  <2>2. call'[h] = c /\ c # NoCall /\ \A g \in Handlers : g # h => call'[g] = call[g]
    BY <1>1, <2>1, OtherCalls, CallFacts DEF Outcome
  <2>3. CASE c.stage = "tx"
    <3>1. PICK w \in Write : /\ handler' = [handler EXCEPT ![h] = w]
                             /\ w.op = EventOf[c.method] /\ c.method \in Writers
      BY <2>1, <2>3 DEF Outcome
    <3>2. handler'[h] = w /\ \A g \in Handlers : g # h => handler'[g] = handler[g]
      BY <1>1, <3>1 DEF TypeOK
    <3> QED
      BY <1>1, <2>2, <2>3, <3>1, <3>2
  <2>4. CASE c.stage \in {"panic", "return"} /\ handler' = handler
    BY <1>1, <1>4, <2>2, <2>4, HandleMeans
  <2> QED
    BY <2>1, <2>3, <2>4 DEF Outcome
<1>5. ASSUME NEW h \in Handlers, Transact(h) PROVE WritesAreAsked'
  <2>1. PICK c \in Call : /\ call' = [call EXCEPT ![h] = c] /\ c.method \in Writers
                          /\ handler' = [handler EXCEPT ![h] = Idle]
    BY <1>5, TransactMoves
  <2>2. handler'[h] = Idle /\ \A g \in Handlers : g # h => handler'[g] = handler[g]
    BY <1>1, <2>1 DEF TypeOK
  <2>3. call'[h] = c /\ \A g \in Handlers : g # h => call'[g] = call[g]
    BY <1>1, <2>1, OtherCalls
  <2> QED
    BY <1>1, <2>1, <2>2, <2>3
<1>6. ASSUME NEW h \in Handlers, Return(h) \/ Recover(h) PROVE WritesAreAsked'
  <2>1. /\ call' = [call EXCEPT ![h] = NoCall] /\ handler' = handler
        /\ call[h].stage \in {"return", "panic"}
    BY <1>1, <1>6, ReplyMeans
  <2> QED
    BY <1>1, <2>1, OtherCalls
<1>7. ASSUME NEW h \in Handlers, GiveUp(h) PROVE WritesAreAsked'
  <2>1. PICK c \in Call : /\ call' = [call EXCEPT ![h] = c] /\ c.stage = call[h].stage
                          /\ c.method = call[h].method /\ handler' = handler /\ c # NoCall
                          /\ call[h] # NoCall
    BY <1>1, <1>7, GiveUpMeans, CallFacts
  <2>2. call'[h] = c /\ \A g \in Handlers : g # h => call'[g] = call[g]
    BY <1>1, <2>1, OtherCalls
  <2> QED
    BY <1>1, <2>1, <2>2
<1>8. CASE APICrash
  BY <1>8, DieMeans DEF APICrash
<1>9. CASE UNCHANGED apiVars
  BY <1>1, <1>9 DEF apiVars, vars
<1> QED
  BY <1>2, <1>3, <1>4, <1>5, <1>6, <1>7, <1>8, <1>9 DEF APINext

LEMMA AwaitedNext ==
  ASSUME APIInv, [APINext]_apiVars
  PROVE  OneIsAwaited'
<1>1. APITypes /\ TypeOK /\ OneIsAwaited
  BY DEF APIInv, IInv
<1> USE DEF OneIsAwaited, Awaits, Serves
<1>2. ASSUME NEW h \in Handlers, NEW m \in Methods, Dispatch(h, m) PROVE OneIsAwaited'
  <2>1. PICK c \in Call : /\ call' = [call EXCEPT ![h] = c] /\ c.method = m /\ told' = told /\ MayCall(m)
    BY <1>2, DispatchMeans
  <2>2. call'[h] = c /\ \A g \in Handlers : g # h => call'[g] = call[g]
    BY <1>1, <2>1, OtherCalls
  <2> QED
    BY <1>1, <2>1, <2>2 DEF MayCall
<1>4. ASSUME NEW h \in Handlers, NEW c \in Call, call[h] # NoCall,
             call' = [call EXCEPT ![h] = c], told' = told,
             c.method = call[h].method, call[h].abandoned => c.abandoned
      PROVE  OneIsAwaited'
  <2>1. call'[h] = c /\ \A g \in Handlers : g # h => call'[g] = call[g]
    BY <1>1, <1>4, OtherCalls
  <2> QED
    BY <1>1, <1>4, <2>1
<1>5. ASSUME NEW h \in Handlers, Handle(h) PROVE OneIsAwaited'
  BY <1>4, <1>5, HandleMeans DEF Outcome, In
<1>6. ASSUME NEW h \in Handlers, Transact(h) PROVE OneIsAwaited'
  BY <1>4, <1>6, TransactMoves
<1>3. ASSUME NEW h \in Handlers, Inc(h) PROVE OneIsAwaited'
  BY <1>3, <1>4, IncMeans
<1>7. ASSUME NEW h \in Handlers, Return(h) \/ Recover(h) PROVE OneIsAwaited'
  <2>1. PICK code \in Codes : /\ call' = [call EXCEPT ![h] = NoCall]
                              /\ told' = (told \/ (Awaits(h) /\ code = "OK"))
    BY <1>1, <1>7, ReplyMeans
  <2>2. call'[h] = NoCall /\ \A g \in Handlers : g # h => call'[g] = call[g]
    BY <1>1, <2>1, OtherCalls
  <2> QED
    BY <1>1, <2>1, <2>2
<1>8. ASSUME NEW h \in Handlers, GiveUp(h) PROVE OneIsAwaited'
  BY <1>1, <1>4, <1>8, GiveUpMeans
<1>9. CASE APICrash
  BY <1>9, DieMeans DEF APICrash
<1>10. CASE UNCHANGED apiVars
  BY <1>1, <1>10 DEF apiVars, client
<1> QED
  BY <1>2, <1>3, <1>5, <1>6, <1>7, <1>8, <1>9, <1>10 DEF APINext

\* Only a CreateOrder adds a row: a settlement finds the row of its order.
LEMMA RowsAfter ==
  ASSUME APIInv, NEW h \in Handlers, Transact(h)
  PROVE  \/ Rows' = Rows
         \/ Serves(h, "CreateOrder") /\ \E o \in Orders : Rows' = Rows \cup {o}
<1>1. handler[h] # Idle /\ handler[h] \in Write
  BY TransactMeans
<1>2. PICK w \in Write : w = handler[h] /\ w.order \in Orders /\ w.op \in EventTypes
  BY <1>1 DEF Write
<1>3. CASE UNCHANGED <<orders, outbox>>
  BY <1>3 DEF Rows
<1>4. CASE Commit(w)
  <2>1. /\ orders'[w.order] = StatusAfter[w.op]
        /\ \A o \in Orders : o # w.order => orders'[o] = orders[o]
    BY <1>2, <1>4 DEF Commit, APIInv, IInv, TypeOK
  <2>2. orders'[w.order] # NoRow
    BY <1>2, <2>1 DEF StatusAfter, EventTypes, NoRow
  <2>3. Rows' = Rows \cup {w.order}
    BY <1>2, <2>1, <2>2 DEF Rows
  <2>4. CASE w.op = "OrderCreated"
    <3>1. /\ In(h, "tx") /\ call[h].method \in Writers
          /\ EventOf[call[h].method] = "OrderCreated"
      BY <1>1, <1>2, <2>4 DEF APIInv, WritesAreAsked
    <3>2. Serves(h, "CreateOrder")
      BY <3>1, EventOfMeans DEF Serves, In
    <3> QED
      BY <1>2, <2>3, <3>2
  <2>5. CASE w.op # "OrderCreated"
    <3>1. CreatedBefore(w.order, w.stamp)
      BY <1>1, <1>2, <2>5 DEF APIInv, IInv, WritesAreSound, SoundWrite
    <3>2. EventsOf(w.order) # {}
      BY <3>1 DEF CreatedBefore
    <3>3. orders[w.order] # NoRow
      BY <1>2, <3>2 DEF APIInv, IInv, StatusIsLastEvent
    <3> QED
      BY <1>2, <2>3, <3>3 DEF Rows
  <2> QED
    BY <2>4, <2>5
<1> QED
  BY <1>2, <1>3, <1>4, TransactMeans

LEMMA ValidNext ==
  ASSUME APIInv, [APINext]_apiVars
  PROVE  OnlyValidItems'
<1>1. APITypes /\ OnlyValidItems
  BY DEF APIInv
<1>2. basket' = basket => (MapPanics(basket)' <=> MapPanics(basket)) /\ (validateItems(basket)' <=> validateItems(basket))
  BY DEF MapPanics, validateItems
<1> DEFINE Storing == \E h \in Handlers : In(h, "tx") /\ Serves(h, "CreateOrder")
           Valid == ~ MapPanics(basket) /\ validateItems(basket)
<1>3. ASSUME basket' = basket, orders' = orders \/ Rows' = Rows, Storing' => Storing PROVE OnlyValidItems'
  BY <1>1, <1>2, <1>3 DEF OnlyValidItems, Rows
<1>4. ASSUME NEW h \in Handlers, NEW c \in Call \cup {NoCall}, call' = [call EXCEPT ![h] = c],
             c = NoCall \/ c.stage # "tx" \/ c.method # "CreateOrder"
                  \/ (call[h] # NoCall /\ c.stage = call[h].stage /\ c.method = call[h].method)
      PROVE  Storing' => Storing
  <2>1. call'[h] = c /\ \A g \in Handlers : g # h => call'[g] = call[g]
    BY <1>1, <1>4, OtherCalls
  <2> QED
    BY <1>4, <2>1 DEF In, Serves
<1>5. ASSUME NEW h \in Handlers, NEW m \in Methods, Dispatch(h, m) PROVE OnlyValidItems'
  BY <1>3, <1>4, <1>5, DispatchMeans
<1>6. ASSUME NEW h \in Handlers, Inc(h) PROVE OnlyValidItems'
  <2>1. PICK c \in Call : call' = [call EXCEPT ![h] = c] /\ c.stage = "return"
    BY <1>6, IncMeans
  <2>2. basket' = basket /\ orders' = orders
    BY <1>6, IncMeans DEF vars
  <2> QED
    BY <1>3, <1>4, <2>1, <2>2
<1>7. ASSUME NEW h \in Handlers, Handle(h) PROVE OnlyValidItems'
  <2>1. PICK c \in Call : Outcome(h, c)
    BY <1>7, HandleMeans
  <2>2. basket' = basket /\ orders' = orders
    BY <1>7, HandleMeans
  <2>3. CASE c.stage = "tx" /\ c.method = "CreateOrder"
    BY <1>2, <2>1, <2>2, <2>3 DEF Outcome, OnlyValidItems
  <2>4. CASE ~ (c.stage = "tx" /\ c.method = "CreateOrder")
    BY <1>3, <1>4, <2>1, <2>2, <2>4 DEF Outcome
  <2> QED
    BY <2>3, <2>4
<1>8. ASSUME NEW h \in Handlers, Transact(h) PROVE OnlyValidItems'
  <2>1. PICK c \in Call : call' = [call EXCEPT ![h] = c] /\ c.stage \in {"inc", "return"}
    BY <1>8, TransactMoves
  <2>2. basket' = basket /\ In(h, "tx") /\ (Storing' => Storing)
    BY <1>4, <1>8, <2>1, TransactMeans
  <2>3. CASE Rows' = Rows
    BY <1>3, <2>2, <2>3
  <2>4. CASE Serves(h, "CreateOrder")
    BY <1>1, <1>2, <2>2, <2>4 DEF OnlyValidItems
  <2> QED
    BY <1>8, <2>3, <2>4, RowsAfter
<1>9. ASSUME NEW h \in Handlers, Return(h) \/ Recover(h) PROVE OnlyValidItems'
  BY <1>1, <1>3, <1>4, <1>9, ReplyMeans
<1>10. ASSUME NEW h \in Handlers, GiveUp(h) PROVE OnlyValidItems'
  BY <1>1, <1>3, <1>4, <1>10, GiveUpMeans
<1>11. CASE APICrash
  BY <1>3, <1>11, DieMeans DEF APICrash, In
<1>12. CASE UNCHANGED apiVars
  BY <1>3, <1>12 DEF apiVars, vars, client, In, Serves
<1> QED
  BY <1>5, <1>6, <1>7, <1>8, <1>9, <1>10, <1>11, <1>12 DEF APINext

-----------------------------------------------------------------------------
(* The account of the rows.                                                *)

LEMMA FewerCalls ==
  ASSUME NEW T \in SUBSET Handlers, NEW S \in SUBSET T
  PROVE  /\ Cardinality(S) \in Nat /\ Cardinality(T) \in Nat /\ Cardinality(S) <= Cardinality(T)
         /\ \A h \in T \ S : Cardinality(S) + 1 <= Cardinality(T)
<1>1. IsFiniteSet(T) /\ IsFiniteSet(S)
  BY HandlersAssumption, FS_Subset
<1>2. Cardinality(S) \in Nat /\ Cardinality(T) \in Nat /\ Cardinality(S) <= Cardinality(T)
  BY <1>1, FS_Subset, FS_CardinalityType
<1>3. ASSUME NEW h \in T \ S PROVE Cardinality(S) + 1 <= Cardinality(T)
  <2>1. Cardinality(S \cup {h}) = Cardinality(S) + 1
    BY <1>1, FS_AddElement
  <2>2. Cardinality(S \cup {h}) <= Cardinality(T)
    BY <1>1, FS_Subset
  <2> QED
    BY <2>1, <2>2
<1> QED
  BY <1>2, <1>3

\* One call leaves a set of calls.
LEMMA OneCallLess ==
  ASSUME NEW T \in SUBSET Handlers, NEW h \in T
  PROVE  Cardinality(T) = Cardinality(T \ {h}) + 1 /\ Cardinality(T \ {h}) \in Nat
<1>1. IsFiniteSet(T) /\ IsFiniteSet(T \ {h})
  BY HandlersAssumption, FS_Subset
<1>2. Cardinality((T \ {h}) \cup {h}) = Cardinality(T \ {h}) + 1
  BY <1>1, FS_AddElement
<1>3. (T \ {h}) \cup {h} = T
  OBVIOUS
<1> QED
  BY <1>1, <1>2, <1>3, FS_CardinalityType

\* The account balances when no row is added, no call goes adrift, and what
\* leaves the calls that answer is told or left unsure.
LEMMA Balance ==
  ASSUME APIInv, APITypes', Rows' = Rows, Adrift' \subseteq Adrift,
         NEW k \in Nat,
         Cardinality(Answering) <= Cardinality(Answering') + k,
         unsure + Known + k <= unsure' + Known'
  PROVE  RowsAreFew'
<1>1. APITypes /\ RowsAreFew
  BY DEF APIInv
<1>2. PICK r \in Nat : r = Cardinality(Rows)
  BY <1>1, FS_CardinalityType DEF RowsAreFew
<1>3. PICK a \in Nat, b \in Nat : a = Cardinality(Adrift) /\ b = Cardinality(Adrift') /\ b <= a
  BY FewerCalls DEF Adrift
<1>4. PICK x \in Nat, y \in Nat : x = Cardinality(Answering) /\ y = Cardinality(Answering')
  BY FewerCalls DEF Answering
<1>5. PICK t \in Nat, v \in Nat : t = Known /\ v = Known'
  BY DEF Known
<1>6. PICK u \in Nat, w \in Nat : u = unsure /\ w = unsure'
  BY <1>1 DEF APITypes
<1>7. r + a <= u + t + x
  BY <1>1, <1>2, <1>3, <1>4, <1>5, <1>6 DEF RowsAreFew
<1>8. x <= y + k /\ u + t + k <= w + v
  BY <1>4, <1>5, <1>6
<1>9. r + b <= w + v + y
  BY <1>3, <1>7, <1>8
<1>10. Cardinality(Rows') = r /\ IsFiniteSet(Rows')
  BY <1>1, <1>2 DEF RowsAreFew
<1> QED
  BY <1>3, <1>4, <1>5, <1>6, <1>9, <1>10 DEF RowsAreFew

LEMMA RowsNext ==
  ASSUME APIInv, APITypes', [APINext]_apiVars
  PROVE  RowsAreFew'
<1>1. APITypes /\ RowsAreFew /\ OneIsAwaited
  BY DEF APIInv
<1>0. /\ Adrift \subseteq Handlers /\ Adrift' \subseteq Handlers
      /\ Answering \subseteq Handlers /\ Answering' \subseteq Handlers
      /\ Known \in {0, 1} /\ Known' \in {0, 1} /\ (told => Known = 1) /\ (told' => Known' = 1)
      /\ (~ told => Known = 0) /\ unsure \in Nat /\ unsure' \in Nat
      /\ told \in BOOLEAN /\ told' \in BOOLEAN
  BY <1>1 DEF Adrift, Answering, Known, APITypes
<1>2. ASSUME Rows' = Rows, Adrift' \subseteq Adrift, Answering \subseteq Answering',
             unsure' \in {unsure, unsure + 1}, told => told'
      PROVE  RowsAreFew'
  <2>1. Cardinality(Answering) <= Cardinality(Answering')
    BY <1>2, FewerCalls DEF Answering
  <2>2. Cardinality(Answering) \in Nat /\ Cardinality(Answering') \in Nat
    BY FewerCalls DEF Answering
  <2>3. Cardinality(Answering) <= Cardinality(Answering') + 0
    BY <2>1, <2>2
  <2>4. Known <= Known'
    BY <1>0, <1>2
  <2>5. unsure + Known + 0 <= unsure' + Known'
    <3>1. PICK u \in Nat, w \in Nat, t \in Nat, v \in Nat :
            u = unsure /\ w = unsure' /\ t = Known /\ v = Known'
      BY <1>0
    <3>2. t <= v /\ (w = u \/ w = u + 1)
      BY <1>2, <2>4, <3>1
    <3>3. u + t + 0 <= w + v
      BY <3>2
    <3> QED
      BY <3>1, <3>3
  <2> QED
    BY <1>2, <2>3, <2>5, Balance
<1>3. ASSUME NEW h \in Handlers, NEW c \in Call \cup {NoCall}, call' = [call EXCEPT ![h] = c]
      PROVE  /\ call'[h] = c
             /\ \A g \in Handlers : g # h => (g \in Adrift' <=> g \in Adrift)
             /\ \A g \in Handlers : g # h => (g \in Answering' <=> g \in Answering)
  <2>1. call'[h] = c /\ \A g \in Handlers : g # h => call'[g] = call[g]
    BY <1>1, <1>3, OtherCalls
  <2> QED
    BY <2>1 DEF Adrift, Answering, Awaits, Serves
<1>4. ASSUME NEW h \in Handlers, NEW m \in Methods, Dispatch(h, m) PROVE RowsAreFew'
  <2>1. PICK c \in Call : /\ call' = [call EXCEPT ![h] = c] /\ c.stage = "handler" /\ c.abandoned = FALSE
                          /\ call[h] = NoCall /\ UNCHANGED <<orders, unsure, told>>
    BY <1>4, DispatchMeans
  <2>2. h \notin Adrift' /\ h \notin Answering
    BY <1>3, <2>1 DEF Adrift, Answering, Awaits, Serves
  <2>3. Adrift' \subseteq Adrift /\ Answering \subseteq Answering'
    BY <1>3, <2>1, <2>2 DEF Adrift, Answering
  <2> QED
    BY <1>2, <2>1, <2>3 DEF Rows
<1>5. ASSUME NEW h \in Handlers, Handle(h) PROVE RowsAreFew'
  <2>1. PICK c \in Call : Outcome(h, c) /\ In(h, "handler") /\ UNCHANGED <<orders, unsure, told>>
    BY <1>5, HandleMeans
  <2>2. h \notin Answering /\ (h \in Adrift' => h \in Adrift)
    BY <1>3, <2>1 DEF Adrift, Answering, Serves, In, Outcome
  <2>3. Adrift' \subseteq Adrift /\ Answering \subseteq Answering'
    BY <1>3, <2>1, <2>2 DEF Adrift, Answering, Outcome
  <2> QED
    BY <1>2, <2>1, <2>3 DEF Rows
<1>6. ASSUME NEW h \in Handlers, Transact(h) PROVE RowsAreFew'
  <2>1. PICK c \in Call : /\ call' = [call EXCEPT ![h] = c] /\ c.stage \in {"inc", "return"}
                          /\ c.method = call[h].method /\ c.abandoned = call[h].abandoned
                          /\ c.result \in {"ok", "ERR_INTERNAL"}
    BY <1>6, TransactMoves
  <2>2. In(h, "tx") /\ UNCHANGED <<unsure, told>> /\ c # NoCall
    BY <1>6, TransactMeans, CallFacts
  <2>3. h \notin Answering /\ h \notin Adrift' /\ call'[h] = c
    <3>1. call'[h] = c
      BY <1>3, <2>1
    <3> QED
      BY <2>1, <2>2, <3>1 DEF Adrift, Answering, In
  <2>4. Adrift' \subseteq Adrift /\ Answering \subseteq Answering'
    BY <1>3, <2>1, <2>3 DEF Adrift, Answering
  <2>5. CASE Rows' = Rows
    BY <1>2, <2>2, <2>4, <2>5
  <2>6. CASE Serves(h, "CreateOrder") /\ \E o \in Orders : Rows' = Rows \cup {o}
    <3>1. PICK o \in Orders : Rows' = Rows \cup {o}
      BY <2>6
    <3>2. PICK r \in Nat, s \in Nat : /\ r = Cardinality(Rows) /\ s = Cardinality(Rows') /\ s <= r + 1
                                      /\ IsFiniteSet(Rows')
      <4>1. IsFiniteSet(Rows) /\ Cardinality(Rows) \in Nat
        BY <1>1, FS_CardinalityType DEF RowsAreFew
      <4>2. /\ IsFiniteSet(Rows')
            /\ Cardinality(Rows') \in {Cardinality(Rows), Cardinality(Rows) + 1}
        BY <3>1, <4>1, FS_AddElement
      <4> QED
        BY <4>1, <4>2
    <3>3. PICK a \in Nat, b \in Nat : /\ a = Cardinality(Adrift) /\ b = Cardinality(Adrift')
                                      /\ b <= a /\ (h \in Adrift => b + 1 <= a)
      BY <2>3, <2>4, FewerCalls DEF Adrift
    <3>4. PICK x \in Nat, y \in Nat : /\ x = Cardinality(Answering) /\ y = Cardinality(Answering')
                                      /\ x <= y /\ (h \in Answering' => x + 1 <= y)
      BY <2>3, <2>4, FewerCalls DEF Answering
    <3>5. h \in Adrift \/ h \in Answering'
      BY <2>1, <2>2, <2>3, <2>6 DEF Adrift, Answering, Awaits, Serves, In
    <3>6. PICK u \in Nat, t \in Nat : u = unsure /\ t = Known
      BY <1>0
    <3>7. r + a <= u + t + x
      BY <1>1, <3>2, <3>3, <3>4, <3>6 DEF RowsAreFew
    <3>8. s + b <= u + t + y
      BY <3>2, <3>3, <3>4, <3>5, <3>7
    <3>9. u = unsure' /\ t = Known'
      BY <2>2, <3>6 DEF Known
    <3> QED
      BY <3>2, <3>3, <3>4, <3>8, <3>9 DEF RowsAreFew
  <2> QED
    BY <1>6, <2>5, <2>6, RowsAfter
<1>7. ASSUME NEW h \in Handlers, Return(h) \/ Recover(h) PROVE RowsAreFew'
  <2>1. PICK code \in Codes :
           /\ call[h] # NoCall /\ call[h] \in Call
           /\ call' = [call EXCEPT ![h] = NoCall]
           /\ told' = (told \/ (Awaits(h) /\ code = "OK"))
           /\ unsure' = IF Awaits(h) /\ code = "Internal" THEN unsure + 1 ELSE unsure
           /\ \/ In(h, "return") /\ code = mapError(call[h].result)
              \/ In(h, "panic") /\ code = "Internal"
           /\ orders' = orders
    BY <1>1, <1>7, ReplyMeans
  <2>2. Rows' = Rows /\ call'[h] = NoCall
    BY <1>3, <2>1 DEF Rows
  <2>3. Adrift' \subseteq Adrift
    <3>1. h \notin Adrift'
      BY <2>2 DEF Adrift, Serves
    <3> QED
      BY <1>3, <2>1, <3>1 DEF Adrift
  <2>4. CASE h \notin Answering
    <3>1. Answering \subseteq Answering'
      BY <1>3, <2>1, <2>4 DEF Answering
    <3> QED
      BY <1>2, <2>1, <2>2, <2>3, <3>1
  <2>5. CASE h \in Answering
    <3>1. Awaits(h) /\ ~ told /\ (code = "OK" \/ code = "Internal")
      BY <1>1, <2>1, <2>5 DEF Answering, OneIsAwaited, mapError, In
    <3>2. unsure + Known + 1 <= unsure' + Known'
      <4>1. PICK u \in Nat, w \in Nat, t \in Nat, v \in Nat :
              u = unsure /\ w = unsure' /\ t = Known /\ v = Known'
        BY <1>0
      <4>2. t = 0
        BY <1>0, <3>1, <4>1
      <4>3. (v = 1 /\ w = u) \/ w = u + 1
        <5>1. CASE code = "OK"
          <6>1. told' /\ unsure' = unsure
            BY <2>1, <3>1, <5>1
          <6> QED
            BY <1>0, <4>1, <6>1
        <5>2. CASE code = "Internal"
          BY <2>1, <3>1, <4>1, <5>2
        <5> QED
          BY <3>1, <5>1, <5>2
      <4>4. u + t + 1 <= w + v
        BY <4>2, <4>3
      <4> QED
        BY <4>1, <4>4
    <3>3. h \notin Answering'
      BY <2>2 DEF Answering, Awaits, Serves
    <3>4. Answering' = Answering \ {h}
      <4>1. \A g \in Handlers : g # h => (g \in Answering' <=> g \in Answering)
        BY <1>3, <2>1
      <4> QED
        BY <1>0, <3>3, <4>1
    <3>5. Cardinality(Answering) = Cardinality(Answering') + 1 /\ Cardinality(Answering') \in Nat
      BY <1>0, <2>5, <3>4, OneCallLess
    <3>6. Cardinality(Answering) <= Cardinality(Answering') + 1
      BY <3>5
    <3> QED
      BY <2>2, <2>3, <3>2, <3>6, Balance
  <2> QED
    BY <2>4, <2>5
<1>8. ASSUME NEW h \in Handlers, GiveUp(h) PROVE RowsAreFew'
  <2>1. PICK c \in Call : /\ call' = [call EXCEPT ![h] = c] /\ c.stage = call[h].stage
                          /\ c.result = call[h].result /\ c.method = call[h].method /\ c.abandoned
                          /\ c # NoCall
    BY <1>1, <1>8, GiveUpMeans, CallFacts
  <2>2. /\ Awaits(h) /\ unsure' = unsure + 1 /\ UNCHANGED <<orders, told>> /\ Rows' = Rows
    BY <1>1, <1>8, GiveUpMeans DEF Rows
  <2>3. h \notin Answering' /\ h \notin Adrift
    <3>1. call'[h] = c
      BY <1>3, <2>1
    <3> QED
      BY <2>1, <2>2, <3>1 DEF Answering, Adrift, Awaits
  <2>4. CASE h \in Answering
    <3>1. h \notin Adrift'
      BY <1>3, <2>1, <2>4 DEF Answering, Adrift
    <3>2. Adrift' \subseteq Adrift /\ Answering' = Answering \ {h}
      BY <1>0, <1>3, <2>1, <2>3, <3>1
    <3>3. Cardinality(Answering) = Cardinality(Answering') + 1 /\ Cardinality(Answering') \in Nat
      BY <1>0, <2>4, <3>2, OneCallLess
    <3>4. Cardinality(Answering) <= Cardinality(Answering') + 1
      BY <3>3
    <3>5. unsure + Known + 1 <= unsure' + Known'
      <4>1. Known' = Known
        BY <2>2 DEF Known
      <4> QED
        BY <1>0, <2>2, <4>1
    <3> QED
      BY <2>2, <3>2, <3>4, <3>5, Balance
  <2>5. CASE h \notin Answering
    <3>1. Answering' = Answering /\ Adrift' \subseteq Adrift \cup {h}
        <4>1. /\ \A g \in Handlers : g # h => (g \in Answering' <=> g \in Answering)
            /\ \A g \in Handlers : g # h => (g \in Adrift' <=> g \in Adrift)
        BY <1>3, <2>1
      <4> QED
        BY <1>0, <2>3, <2>5, <4>1
    <3>2. PICK a \in Nat, b \in Nat : a = Cardinality(Adrift) /\ b = Cardinality(Adrift') /\ b <= a + 1
      <4>1. IsFiniteSet(Adrift) /\ IsFiniteSet(Adrift')
        BY HandlersAssumption, FS_Subset DEF Adrift
      <4>2. /\ IsFiniteSet(Adrift \cup {h})
            /\ Cardinality(Adrift \cup {h}) \in {Cardinality(Adrift), Cardinality(Adrift) + 1}
        BY <4>1, FS_AddElement
      <4>3. Cardinality(Adrift') <= Cardinality(Adrift \cup {h})
        BY <3>1, <4>2, FS_Subset
      <4>4. Cardinality(Adrift) \in Nat /\ Cardinality(Adrift') \in Nat
        BY <4>1, FS_CardinalityType
      <4> QED
        BY <4>2, <4>3, <4>4
    <3>3. PICK r \in Nat, x \in Nat, u \in Nat, t \in Nat :
            /\ r = Cardinality(Rows) /\ x = Cardinality(Answering) /\ u = unsure
            /\ t = Known
      <4>1. Cardinality(Answering) \in Nat
        BY FewerCalls DEF Answering
      <4>2. Cardinality(Rows) \in Nat
        BY <1>1, FS_CardinalityType DEF RowsAreFew
      <4> QED
        BY <1>0, <4>1, <4>2
    <3>4. r + a <= u + t + x
      BY <1>1, <3>2, <3>3 DEF RowsAreFew
    <3>5. r + b <= (u + 1) + t + x
      BY <3>2, <3>4
    <3>6. /\ r = Cardinality(Rows') /\ x = Cardinality(Answering') /\ u + 1 = unsure'
          /\ t = Known' /\ IsFiniteSet(Rows')
      BY <1>1, <2>2, <3>1, <3>3 DEF RowsAreFew, Known
    <3> QED
      BY <3>2, <3>5, <3>6 DEF RowsAreFew
  <2> QED
    BY <2>4, <2>5
<1>9. CASE APICrash
  <2>1. Die
    BY <1>9 DEF APICrash
  <2>2. Rows' = Rows /\ told' = told
    BY <2>1, DieMeans DEF Rows
  <2>3. Adrift' = {} /\ Answering' = {}
    BY <2>1, DieMeans DEF Adrift, Answering, Awaits, Serves
  <2>4. PICK x \in Nat, n \in Nat : /\ x = Cardinality(Answering) /\ unsure' = unsure + n /\ x <= n
    <3>1. Answering \subseteq {h \in Handlers : Awaits(h)} /\ {h \in Handlers : Awaits(h)} \subseteq Handlers
      BY DEF Answering
    <3>2. /\ Cardinality(Answering) \in Nat /\ Cardinality({h \in Handlers : Awaits(h)}) \in Nat
          /\ Cardinality(Answering) <= Cardinality({h \in Handlers : Awaits(h)})
      BY <3>1, FewerCalls
    <3>3. unsure' = unsure + Cardinality({h \in Handlers : Awaits(h)})
      BY <2>1, DieMeans
    <3> QED
      BY <3>2, <3>3
  <2>5. PICK r \in Nat, a \in Nat, u \in Nat, t \in Nat :
          /\ r = Cardinality(Rows) /\ a = Cardinality(Adrift) /\ u = unsure
          /\ t = Known
    <3>1. Cardinality(Adrift) \in Nat
      BY FewerCalls DEF Adrift
    <3>2. Cardinality(Rows) \in Nat
      BY <1>1, FS_CardinalityType DEF RowsAreFew
    <3> QED
      BY <1>0, <3>1, <3>2
  <2>6. r + a <= u + t + x
    BY <1>1, <2>4, <2>5 DEF RowsAreFew
  <2>7. r + 0 <= (u + n) + t + 0
    BY <2>4, <2>5, <2>6
  <2>8. /\ Cardinality(Rows') = r /\ IsFiniteSet(Rows') /\ Cardinality(Adrift') = 0
        /\ Cardinality(Answering') = 0 /\ unsure' = u + n /\ t = Known'
    BY <1>1, <2>2, <2>3, <2>4, <2>5, FS_EmptySet DEF RowsAreFew, Known
  <2> QED
    BY <2>7, <2>8 DEF RowsAreFew
<1>10. ASSUME UNCHANGED <<orders, call, unsure, told>> PROVE RowsAreFew'
  BY <1>2, <1>10 DEF Rows, Adrift, Answering, Awaits, Serves
<1>11. ASSUME NEW h \in Handlers, Inc(h) PROVE RowsAreFew'
  <2>1. PICK c \in Call : /\ call' = [call EXCEPT ![h] = c] /\ c.stage = "return"
                          /\ c.result = call[h].result /\ c # NoCall
                          /\ c.method = call[h].method /\ c.abandoned = call[h].abandoned
    BY <1>11, IncMeans, CallFacts
  <2>2. In(h, "inc") /\ call[h] # NoCall /\ UNCHANGED <<orders, unsure, told>>
    BY <1>11, IncMeans DEF vars
  <2>3. call'[h] = c
    BY <1>3, <2>1
  <2>4. h \notin Adrift' /\ (h \in Answering => h \in Answering')
    BY <2>1, <2>2, <2>3 DEF Adrift, Answering, Awaits, Serves
  <2>5. Adrift' \subseteq Adrift /\ Answering \subseteq Answering'
    BY <1>0, <1>3, <2>1, <2>4
  <2> QED
    BY <1>2, <2>2, <2>5 DEF Rows
<1>12. CASE UNCHANGED apiVars
  BY <1>10, <1>12 DEF apiVars, vars, client
<1> QED
  BY <1>4, <1>5, <1>6, <1>7, <1>8, <1>9, <1>11, <1>12 DEF APINext

-----------------------------------------------------------------------------
(* The business counters.                                                  *)

\* The events of type t this process has committed.
StoredBy(t) == {i \in epoch + 1 .. Len(outbox) : outbox[i].type = t}

\* The calls that are about to be answered Internal by the service.
Failing == {h \in Handlers : In(h, "return") /\ call[h].result = "ERR_INTERNAL"}

\* The calls that have committed an event of type t and not counted it yet.
Late(t) == {h \in Handlers : In(h, "inc") /\ EventOf[call[h].method] = t}

\* What CountersFallShort says of one counter.
FallsShort(t) ==
  /\ ordersTotal[t] + Cardinality(Late(t)) <= Cardinality(StoredBy(t))
  /\ Cardinality(StoredBy(t)) <=
       ordersTotal[t] + Cardinality(Late(t)) + (requestsTotal["Internal"] + Cardinality(Failing))

LEMMA FallsShortMeans ==
  /\ CountersFallShort <=> \A t \in EventTypes : FallsShort(t)
  /\ CountersFallShort' <=> \A t \in EventTypes : FallsShort(t)'
  BY DEF CountersFallShort, FallsShort, StoredBy, Failing, Late

\* The numbers in it.
LEMMA CounterTypes ==
  ASSUME TypeOK, APITypes
  PROVE  /\ requestsTotal["Internal"] \in Nat
         /\ Cardinality(Failing) \in Nat /\ Failing \subseteq Handlers
         /\ \A t \in EventTypes : /\ ordersTotal[t] \in Nat /\ IsFiniteSet(StoredBy(t))
                                  /\ Cardinality(StoredBy(t)) \in Nat
<1>1. requestsTotal["Internal"] \in Nat
  BY CallFacts DEF APITypes
<1>2. Cardinality(Failing) \in Nat /\ Failing \subseteq Handlers
  BY FewerCalls DEF Failing
<1>3. ASSUME NEW t \in EventTypes
      PROVE  ordersTotal[t] \in Nat /\ IsFiniteSet(StoredBy(t)) /\ Cardinality(StoredBy(t)) \in Nat
  <2>1. epoch + 1 \in Int /\ Len(outbox) \in Int
    BY DEF TypeOK, APITypes
  <2>2. IsFiniteSet(epoch + 1 .. Len(outbox))
    BY <2>1, FS_Interval
  <2>3. IsFiniteSet(StoredBy(t))
    BY <2>2, FS_Subset DEF StoredBy
  <2> QED
    BY <2>3, FS_CardinalityType DEF APITypes
<1> QED
  BY <1>1, <1>2, <1>3

LEMMA LateTypes ==
  /\ \A t : Late(t) \in SUBSET Handlers /\ Cardinality(Late(t)) \in Nat
  /\ \A t : Late(t)' \in SUBSET Handlers /\ Cardinality(Late(t)') \in Nat
<1>1. \A t : Late(t) \in SUBSET Handlers /\ Late(t)' \in SUBSET Handlers
  BY DEF Late
<1>2. \A T \in SUBSET Handlers : Cardinality(T) \in Nat
  BY FewerCalls
<1> QED
  BY <1>1, <1>2

\* One counter, in numbers.
LEMMA ShortInNumbers ==
  ASSUME APIInv, NEW t \in EventTypes
  PROVE  \E n, l, a, x, s \in Nat :
           /\ n = ordersTotal[t] /\ l = Cardinality(Late(t)) /\ a = requestsTotal["Internal"]
           /\ x = Cardinality(Failing) /\ s = Cardinality(StoredBy(t))
           /\ n + l <= s /\ s <= n + l + (a + x)
<1>1. FallsShort(t)
  BY FallsShortMeans DEF APIInv
<1>2. TypeOK /\ APITypes
  BY DEF APIInv, IInv
<1>3. PICK n \in Nat, l \in Nat, a \in Nat, x \in Nat, s \in Nat :
           /\ n = ordersTotal[t] /\ l = Cardinality(Late(t)) /\ a = requestsTotal["Internal"]
           /\ x = Cardinality(Failing) /\ s = Cardinality(StoredBy(t))
  BY <1>2, CounterTypes, LateTypes
<1>4. n + l <= s /\ s <= n + l + (a + x)
  BY <1>1, <1>3 DEF FallsShort
<1> QED
  BY <1>3, <1>4

\* The counters, when a step leaves them and the outbox: what leaves the calls
\* that fail is answered Internal.
LEMMA ShortKept ==
  ASSUME APIInv, APITypes', UNCHANGED <<outbox, epoch, ordersTotal>>,
         \A t \in EventTypes : Late(t)' = Late(t),
         NEW k \in Nat, requestsTotal'["Internal"] = requestsTotal["Internal"] + k,
         Cardinality(Failing) <= Cardinality(Failing') + k
  PROVE  CountersFallShort'
<1> SUFFICES ASSUME NEW t \in EventTypes PROVE FallsShort(t)'
  BY FallsShortMeans
<1>1. PICK n, l, a, x, s \in Nat :
           /\ n = ordersTotal[t] /\ l = Cardinality(Late(t)) /\ a = requestsTotal["Internal"]
           /\ x = Cardinality(Failing) /\ s = Cardinality(StoredBy(t))
           /\ n + l <= s /\ s <= n + l + (a + x)
  BY ShortInNumbers
<1>2. PICK y \in Nat : y = Cardinality(Failing') /\ x <= y + k
  <2>1. Cardinality(Failing') \in Nat
    BY FewerCalls DEF Failing
  <2> QED
    BY <1>1, <2>1
<1>3. n + l <= s /\ s <= n + l + ((a + k) + y)
  BY <1>1, <1>2
<1>4. Cardinality(StoredBy(t)') = s /\ Cardinality(Late(t)') = l
  BY <1>1 DEF StoredBy
<1>5. ordersTotal'[t] = n /\ requestsTotal'["Internal"] = a + k
  BY <1>1
<1> QED
  BY <1>2, <1>3, <1>4, <1>5 DEF FallsShort

\* A COMMIT adds one event of its type to what this process has stored.
LEMMA StoredAfter ==
  ASSUME APIInv, NEW w \in Write, Commit(w), epoch' = epoch, NEW t \in EventTypes
  PROVE  Cardinality(StoredBy(t)') = Cardinality(StoredBy(t)) + IF t = w.op THEN 1 ELSE 0
<1>1. TypeOK /\ APITypes /\ Len(outbox) \in Nat /\ epoch \in Nat /\ epoch <= Len(outbox)
  BY DEF APIInv, IInv, TypeOK, APITypes
<1>2. PICK e : e = [order |-> w.order, type |-> w.op, createdAt |-> w.stamp, status |-> "PENDING"]
  OBVIOUS
<1>3. e.type = w.op /\ outbox' = Append(outbox, e)
  BY <1>2 DEF Commit
<1>4. /\ Len(outbox') = Len(outbox) + 1 /\ outbox'[Len(outbox) + 1] = e
      /\ \A i \in 1 .. Len(outbox) : outbox'[i] = outbox[i]
  BY <1>1, <1>3 DEF TypeOK
<1>5. PICK n \in Nat : n = Len(outbox) + 1 /\ n \notin StoredBy(t)
  BY <1>1 DEF StoredBy
<1>6. \A i \in epoch + 1 .. n : i = n \/ (i \in epoch + 1 .. Len(outbox) /\ outbox'[i] = outbox[i])
  BY <1>1, <1>4, <1>5
<1>7. n \in epoch + 1 .. n /\ outbox'[n].type = w.op
  BY <1>1, <1>3, <1>4, <1>5
<1>8. StoredBy(t)' = {i \in epoch + 1 .. n : outbox'[i].type = t}
  BY <1>4, <1>5 DEF StoredBy
<1>9. \A i \in StoredBy(t) : i \in epoch + 1 .. n /\ outbox'[i] = outbox[i]
  BY <1>1, <1>4, <1>5 DEF StoredBy
<1>10. StoredBy(t)' = IF t = w.op THEN StoredBy(t) \cup {n} ELSE StoredBy(t)
  <2>1. CASE t = w.op
    BY <1>6, <1>7, <1>8, <1>9, <2>1 DEF StoredBy
  <2>2. CASE t # w.op
    BY <1>6, <1>7, <1>8, <1>9, <2>2 DEF StoredBy
  <2> QED
    BY <2>1, <2>2
<1>11. /\ Cardinality(StoredBy(t) \cup {n}) = Cardinality(StoredBy(t)) + 1
       /\ Cardinality(StoredBy(t)) \in Nat
  BY <1>1, <1>5, CounterTypes, FS_AddElement
<1> QED
  BY <1>10, <1>11

LEMMA CountersNext ==
  ASSUME APIInv, APITypes', [APINext]_apiVars
  PROVE  CountersFallShort'
<1>1. TypeOK /\ APITypes /\ Failing \in SUBSET Handlers /\ Failing' \in SUBSET Handlers
  BY DEF APIInv, IInv, Failing
<1>2. /\ requestsTotal["Internal"] \in Nat
      /\ Cardinality(Failing) \in Nat /\ Cardinality(Failing') \in Nat
  BY <1>1, CounterTypes, FewerCalls
<1>3. ASSUME UNCHANGED <<outbox, epoch, ordersTotal>>, Failing \subseteq Failing',
             \A t \in EventTypes : Late(t)' = Late(t),
             NEW k \in Nat, requestsTotal'["Internal"] = requestsTotal["Internal"] + k
      PROVE  CountersFallShort'
  <2>1. Cardinality(Failing) <= Cardinality(Failing')
    BY <1>1, <1>3, FewerCalls
  <2>2. Cardinality(Failing) <= Cardinality(Failing') + k
    BY <1>2, <2>1
  <2> QED
    BY <1>3, <2>2, ShortKept
<1>4. ASSUME UNCHANGED <<outbox, epoch, ordersTotal, requestsTotal>>, Failing \subseteq Failing',
             \A t \in EventTypes : Late(t)' = Late(t)
      PROVE  CountersFallShort'
  BY <1>2, <1>3, <1>4
<1>5. ASSUME NEW h \in Handlers, NEW c \in Call \cup {NoCall}, call' = [call EXCEPT ![h] = c]
      PROVE  /\ call'[h] = c
             /\ \A g \in Handlers : g # h => (g \in Failing' <=> g \in Failing)
             /\ \A t : \A g \in Handlers : g # h => (g \in Late(t)' <=> g \in Late(t))
  <2>1. call'[h] = c /\ \A g \in Handlers : g # h => call'[g] = call[g]
    BY <1>1, <1>5, OtherCalls
  <2> QED
    BY <2>1 DEF Failing, Late, In
<1>7. ASSUME NEW h \in Handlers, NEW c \in Call \cup {NoCall}, call' = [call EXCEPT ![h] = c],
             ~ In(h, "inc"), c = NoCall \/ c.stage # "inc"
      PROVE  \A t \in EventTypes : Late(t)' = Late(t)
  <2>1. call'[h] = c /\ \A t : \A g \in Handlers : g # h => (g \in Late(t)' <=> g \in Late(t))
    BY <1>5, <1>7
  <2>2. ASSUME NEW t PROVE Late(t)' = Late(t)
    <3>1. h \notin Late(t) /\ h \notin Late(t)'
      BY <1>7, <2>1 DEF Late, In
    <3>2. Late(t) \in SUBSET Handlers /\ Late(t)' \in SUBSET Handlers
      BY LateTypes
    <3> QED
      BY <2>1, <3>1, <3>2
  <2> QED
    BY <2>2
<1>6. ASSUME NEW h \in Handlers, NEW m \in Methods, Dispatch(h, m) PROVE CountersFallShort'
  <2>1. PICK c \in Call : /\ call' = [call EXCEPT ![h] = c] /\ c.stage = "handler"
                          /\ call[h] = NoCall
    BY <1>6, DispatchMeans
  <2>2. call[h] = NoCall /\ UNCHANGED <<outbox, epoch, ordersTotal, requestsTotal>>
    BY <1>6, DispatchMeans
  <2>3. h \notin Failing /\ ~ In(h, "inc")
    BY <2>2 DEF Failing, In
  <2>4. Failing \subseteq Failing'
    BY <1>1, <1>5, <2>1, <2>3
  <2>5. \A t \in EventTypes : Late(t)' = Late(t)
    BY <1>7, <2>1, <2>3
  <2> QED
    BY <1>4, <2>2, <2>4, <2>5
<1>8. ASSUME NEW h \in Handlers, Handle(h) PROVE CountersFallShort'
  <2>1. PICK c \in Call : call' = [call EXCEPT ![h] = c] /\ c.stage \in {"tx", "panic", "return"}
    BY <1>8, HandleMeans DEF Outcome
  <2>2. In(h, "handler") /\ UNCHANGED <<outbox, epoch, ordersTotal, requestsTotal>>
    BY <1>8, HandleMeans
  <2>3. h \notin Failing /\ ~ In(h, "inc")
    BY <2>2 DEF Failing, In
  <2>4. Failing \subseteq Failing'
    BY <1>1, <1>5, <2>1, <2>3
  <2>5. \A t \in EventTypes : Late(t)' = Late(t)
    BY <1>7, <2>1, <2>3
  <2> QED
    BY <1>4, <2>2, <2>4, <2>5
<1>9. ASSUME NEW h \in Handlers, Transact(h) PROVE CountersFallShort'
  <2>1. PICK c \in Call :
              /\ call' = [call EXCEPT ![h] = c] /\ c.method = call[h].method
              /\ \/ c.stage = "inc" /\ Commit(handler[h])
                 \/ /\ c.stage = "return" /\ c.result = "ERR_INTERNAL"
                    /\ Commit(handler[h]) \/ UNCHANGED <<orders, outbox>>
    BY <1>9, TransactMeans
  <2>2. /\ In(h, "tx") /\ handler[h] \in Write /\ handler[h] # Idle
        /\ UNCHANGED <<epoch, requestsTotal, ordersTotal>>
    BY <1>9, TransactMeans
  <2>3. PICK w \in Write : w = handler[h] /\ w.op = EventOf[c.method]
    BY <2>1, <2>2 DEF APIInv, WritesAreAsked
  <2>4. call'[h] = c /\ c # NoCall /\ h \notin Failing /\ ~ In(h, "inc")
    BY <1>5, <2>1, <2>2, CallFacts DEF Failing, In
  <2>5. Failing \subseteq Failing'
    BY <1>1, <1>5, <2>1, <2>4
  <2>6. CASE c.stage = "return" /\ c.result = "ERR_INTERNAL"
    <3>1. h \in Failing' /\ \A t \in EventTypes : Late(t)' = Late(t)
      BY <1>7, <2>1, <2>4, <2>6 DEF Failing, In
    <3> SUFFICES ASSUME NEW t \in EventTypes PROVE FallsShort(t)'
      BY FallsShortMeans
    <3>2. PICK n, l, a, x, s \in Nat :
           /\ n = ordersTotal[t] /\ l = Cardinality(Late(t)) /\ a = requestsTotal["Internal"]
           /\ x = Cardinality(Failing) /\ s = Cardinality(StoredBy(t))
           /\ n + l <= s /\ s <= n + l + (a + x)
      BY ShortInNumbers
    <3>3. PICK y \in Nat : y = Cardinality(Failing')
      BY <1>2
    <3>4. x + 1 <= y
      BY <1>1, <2>4, <2>5, <3>1, <3>2, <3>3, FewerCalls
    <3>5. PICK r \in Nat : r = Cardinality(StoredBy(t)') /\ (r = s \/ r = s + 1)
      <4>1. CASE Commit(w)
        BY <2>2, <3>2, <4>1, StoredAfter
      <4>2. CASE outbox' = outbox
        BY <2>2, <3>2, <4>2 DEF StoredBy
      <4> QED
        BY <2>1, <2>3, <4>1, <4>2
    <3>6. n + l <= s /\ s <= n + l + (a + x)
      BY <3>2
    <3>7. n + l <= r /\ r <= n + l + (a + y)
      BY <3>4, <3>5, <3>6
    <3>8. /\ ordersTotal'[t] = n /\ Cardinality(Late(t)') = l
          /\ requestsTotal'["Internal"] = a
      BY <2>2, <3>1, <3>2
    <3> QED
      BY <3>3, <3>5, <3>7, <3>8 DEF FallsShort
  <2>7. CASE c.stage = "inc" /\ Commit(w)
    <3> SUFFICES ASSUME NEW t \in EventTypes PROVE FallsShort(t)'
      BY FallsShortMeans
    <3>2. PICK n, l, a, x, s \in Nat :
           /\ n = ordersTotal[t] /\ l = Cardinality(Late(t)) /\ a = requestsTotal["Internal"]
           /\ x = Cardinality(Failing) /\ s = Cardinality(StoredBy(t))
           /\ n + l <= s /\ s <= n + l + (a + x)
      BY ShortInNumbers
    <3>3. PICK y \in Nat : y = Cardinality(Failing')
      BY <1>2
    <3>4. x <= y
      BY <1>1, <2>5, <3>2, <3>3, FewerCalls
    <3>5. PICK d \in Nat : d = IF t = w.op THEN 1 ELSE 0
      OBVIOUS
    <3>6. Cardinality(StoredBy(t)') = s + d
      BY <2>2, <2>7, <3>2, <3>5, StoredAfter
    <3>7. Cardinality(Late(t)') = l + d
      <4>1. /\ Late(t) \in SUBSET Handlers /\ Late(t)' \in SUBSET Handlers
            /\ \A g \in Handlers : g # h => (g \in Late(t)' <=> g \in Late(t))
            /\ h \notin Late(t)
        <5>1. Late(t) \in SUBSET Handlers /\ Late(t)' \in SUBSET Handlers
          BY LateTypes
        <5>2. \A g \in Handlers : g # h => (g \in Late(t)' <=> g \in Late(t))
          BY <1>5, <2>1
        <5>3. h \notin Late(t)
          BY <2>4 DEF Late
        <5> QED
          BY <5>1, <5>2, <5>3
      <4>2. h \in Late(t)' <=> t = w.op
        BY <2>3, <2>4, <2>7 DEF Late, In
      <4>3. CASE t = w.op
        <5>1. h \in Late(t)' /\ Late(t) = Late(t)' \ {h}
          BY <4>1, <4>2, <4>3
        <5>2. Cardinality(Late(t)') = Cardinality(Late(t)) + 1
          BY <4>1, <5>1, OneCallLess
        <5> QED
          BY <3>2, <3>5, <4>3, <5>2
      <4>4. CASE t # w.op
        <5>1. Late(t)' = Late(t)
          BY <4>1, <4>2, <4>4
        <5> QED
          BY <3>2, <3>5, <4>4, <5>1
      <4> QED
        BY <4>3, <4>4
    <3>8. n + l <= s /\ s <= n + l + (a + x)
      BY <3>2
    <3>9. n + (l + d) <= s + d /\ s + d <= n + (l + d) + (a + y)
      BY <3>4, <3>8
    <3>10. ordersTotal'[t] = n /\ requestsTotal'["Internal"] = a
      BY <2>2, <3>2
    <3> QED
      BY <3>3, <3>6, <3>7, <3>9, <3>10 DEF FallsShort
  <2> QED
    BY <2>1, <2>3, <2>6, <2>7
<1>14. ASSUME NEW h \in Handlers, Inc(h) PROVE CountersFallShort'
  <2>1. PICK c \in Call : call' = [call EXCEPT ![h] = c] /\ c.stage = "return"
    BY <1>14, IncMeans
  <2>2. /\ In(h, "inc") /\ UNCHANGED <<outbox, epoch, requestsTotal>>
    BY <1>14, IncMeans DEF vars
  <2>3. PICK e \in EventTypes : /\ e = EventOf[call[h].method]
                                /\ ordersTotal' = [ordersTotal EXCEPT ![e] = ordersTotal[e] + 1]
    BY <1>14, IncMeans, EventOfMeans
  <2>4. call'[h] = c /\ c # NoCall /\ h \notin Failing
    BY <1>5, <2>1, <2>2, CallFacts DEF Failing, In
  <2>5. Failing \subseteq Failing'
    BY <1>1, <1>5, <2>1, <2>4
  <2> SUFFICES ASSUME NEW t \in EventTypes PROVE FallsShort(t)'
    BY FallsShortMeans
  <2>6. PICK n, l, a, x, s \in Nat :
         /\ n = ordersTotal[t] /\ l = Cardinality(Late(t)) /\ a = requestsTotal["Internal"]
         /\ x = Cardinality(Failing) /\ s = Cardinality(StoredBy(t))
         /\ n + l <= s /\ s <= n + l + (a + x)
    BY ShortInNumbers
  <2>7. PICK y \in Nat : y = Cardinality(Failing') /\ x <= y
    BY <1>1, <1>2, <2>5, <2>6, FewerCalls
  <2>8. Cardinality(StoredBy(t)') = s /\ requestsTotal'["Internal"] = a
    BY <2>2, <2>6 DEF StoredBy
  <2>9. /\ Late(t) \in SUBSET Handlers /\ Late(t)' \in SUBSET Handlers
        /\ \A g \in Handlers : g # h => (g \in Late(t)' <=> g \in Late(t))
        /\ h \notin Late(t)' /\ (h \in Late(t) <=> t = e)
    <3>1. h \notin Late(t)' /\ (h \in Late(t) <=> t = e)
      BY <2>1, <2>2, <2>3, <2>4 DEF Late, In
    <3> QED
      BY <1>5, <2>1, <3>1, LateTypes
  <2>10. ordersTotal \in [EventTypes -> Nat]
    BY <1>1 DEF APITypes
  <2>11. PICK n2 \in Nat, l2 \in Nat :
           n2 = ordersTotal'[t] /\ l2 = Cardinality(Late(t)') /\ n2 + l2 = n + l
    <3>1. CASE t = e
      <4>1. h \in Late(t) /\ Late(t)' = Late(t) \ {h}
        BY <2>9, <3>1
      <4>2. Cardinality(Late(t)) = Cardinality(Late(t)') + 1 /\ Cardinality(Late(t)') \in Nat
        BY <2>9, <4>1, OneCallLess
      <4>3. PICK k \in Nat : k = Cardinality(Late(t)') /\ l = k + 1
        BY <2>6, <4>2
      <4>4. ordersTotal'[t] = n + 1
        BY <2>3, <2>6, <2>10, <3>1
      <4>5. (n + 1) + k = n + l
        BY <4>3
      <4> QED
        BY <4>3, <4>4, <4>5
    <3>2. CASE t # e
      <4>1. Late(t)' = Late(t)
        BY <2>9, <3>2
      <4>2. ordersTotal'[t] = n
        BY <2>3, <2>6, <2>10, <3>2
      <4> QED
        BY <2>6, <4>1, <4>2
    <3> QED
      BY <3>1, <3>2
  <2>12. n + l <= s /\ s <= n + l + (a + x)
    BY <2>6
  <2>13. n2 + l2 <= s /\ s <= n2 + l2 + (a + y)
    BY <2>7, <2>11, <2>12
  <2> QED
    BY <2>7, <2>8, <2>11, <2>13 DEF FallsShort
<1>10. ASSUME NEW h \in Handlers, Return(h) \/ Recover(h) PROVE CountersFallShort'
  <2>1. PICK code \in Codes :
           /\ call[h] # NoCall /\ call[h] \in Call
           /\ call' = [call EXCEPT ![h] = NoCall]
           /\ \/ In(h, "return") /\ code = mapError(call[h].result) /\ Count(code)
              \/ In(h, "panic") /\ UNCHANGED requestsTotal
           /\ UNCHANGED <<outbox, ordersTotal, epoch>>
    BY <1>1, <1>10, ReplyMeans
  <2>2. h \notin Failing' /\ \A g \in Handlers : g # h => (g \in Failing' <=> g \in Failing)
    BY <1>5, <2>1 DEF Failing, In
  <2>3. \A t \in EventTypes : Late(t)' = Late(t)
    <3>1. ~ In(h, "inc")
      BY <2>1 DEF In
    <3> QED
      BY <1>7, <2>1, <3>1
  <2>4. CASE h \in Failing
    <3>1. code = "Internal" /\ Count(code)
      BY <2>1, <2>4 DEF Failing, mapError, In
    <3>2. requestsTotal'["Internal"] = requestsTotal["Internal"] + 1
      BY <1>1, <3>1 DEF APITypes, Count
    <3>3. Failing' = Failing \ {h}
      BY <1>1, <2>2
    <3>4. Cardinality(Failing) = Cardinality(Failing') + 1
      BY <1>1, <2>4, <3>3, OneCallLess
    <3>5. Cardinality(Failing) <= Cardinality(Failing') + 1
      BY <1>2, <3>4
    <3> QED
      BY <2>1, <2>3, <3>2, <3>5, ShortKept
  <2>5. CASE h \notin Failing
    <3>1. Failing \subseteq Failing'
      BY <1>1, <2>2, <2>5
    <3>2. \E k \in Nat : requestsTotal'["Internal"] = requestsTotal["Internal"] + k
      <4>1. CASE code = "Internal" /\ Count(code)
        BY <1>1, <4>1 DEF APITypes, Count
      <4>2. CASE UNCHANGED requestsTotal \/ (code # "Internal" /\ Count(code))
        <5>1. requestsTotal'["Internal"] = requestsTotal["Internal"] + 0
          BY <1>1, <1>2, <4>2, CallFacts DEF APITypes, Count
        <5> QED
          BY <5>1
      <4> QED
        BY <2>1, <4>1, <4>2
    <3> QED
      BY <1>3, <2>1, <2>3, <3>1, <3>2
  <2> QED
    BY <2>4, <2>5
<1>11. ASSUME NEW h \in Handlers, GiveUp(h) PROVE CountersFallShort'
  <2>1. PICK c \in Call : /\ call' = [call EXCEPT ![h] = c] /\ c.stage = call[h].stage
                          /\ c.result = call[h].result /\ c.method = call[h].method /\ c # NoCall
    BY <1>1, <1>11, GiveUpMeans, CallFacts
  <2>2. call[h] # NoCall /\ UNCHANGED <<outbox, epoch, ordersTotal, requestsTotal>>
    BY <1>1, <1>11, GiveUpMeans
  <2>3. /\ call'[h] = c
        /\ \A g \in Handlers : g # h => (g \in Failing' <=> g \in Failing)
        /\ \A t : \A g \in Handlers : g # h => (g \in Late(t)' <=> g \in Late(t))
    BY <1>5, <2>1
  <2>4. h \in Failing => h \in Failing'
    BY <2>1, <2>3 DEF Failing, In
  <2>5. Failing \subseteq Failing'
    BY <1>1, <2>3, <2>4
  <2>6. ASSUME NEW t PROVE Late(t)' = Late(t)
    <3>1. h \in Late(t) <=> h \in Late(t)'
      BY <2>1, <2>2, <2>3 DEF Late, In
    <3>2. Late(t) \in SUBSET Handlers /\ Late(t)' \in SUBSET Handlers
      BY LateTypes
    <3> QED
      BY <2>3, <3>1, <3>2
  <2> QED
    BY <1>4, <2>2, <2>5, <2>6
<1>12. CASE APICrash
  <2>1. /\ ordersTotal' = Zero(EventTypes) /\ requestsTotal' = Zero(Codes) /\ epoch' = Len(outbox)
        /\ outbox' = outbox /\ call' = [h \in Handlers |-> NoCall]
    BY <1>12, DieMeans DEF APICrash
  <2>2. Failing' = {} /\ \A t : Late(t)' = {}
    BY <2>1 DEF Failing, Late, In
  <2>3. ASSUME NEW t \in EventTypes PROVE StoredBy(t)' = {}
    <3>1. Len(outbox) \in Nat
      BY <1>1 DEF TypeOK
    <3>2. Len(outbox) + 1 .. Len(outbox) = {}
      BY <3>1
    <3> QED
      BY <2>1, <3>2 DEF StoredBy
  <2>4. requestsTotal'["Internal"] = 0 /\ \A t \in EventTypes : ordersTotal'[t] = 0
    BY <2>1, CallFacts DEF Zero
  <2>5. ASSUME NEW t \in EventTypes PROVE FallsShort(t)'
    <3>1. /\ Cardinality(Failing') = 0 /\ Cardinality(Late(t)') = 0
          /\ Cardinality(StoredBy(t)') = 0
      BY <2>2, <2>3, FS_EmptySet
    <3> QED
      BY <2>4, <3>1 DEF FallsShort
  <2> QED
    BY <2>5, FallsShortMeans
<1>13. CASE UNCHANGED apiVars
  <2>1. UNCHANGED <<outbox, epoch, ordersTotal, requestsTotal, call>>
    BY <1>13 DEF apiVars, vars, metrics
  <2>2. Failing' = Failing /\ \A t : Late(t)' = Late(t)
    BY <2>1 DEF Failing, Late, In
  <2> QED
    BY <1>4, <2>1, <2>2
<1> QED
  BY <1>6, <1>8, <1>9, <1>10, <1>11, <1>12, <1>13, <1>14 DEF APINext

-----------------------------------------------------------------------------
(* The total of a row.                                                     *)

\* A goroutine takes up a write of an order that is chosen already, or none.
LEMMA ChosenBefore ==
  ASSUME TypeOK, NEW h \in Handlers, NEW w, handler' = [handler EXCEPT ![h] = w],
         w = Idle \/ Chosen(w.order), orders' = orders,
         NEW o \in Orders, Chosen(o)'
  PROVE  Chosen(o)
<1>1. CASE orders[o] # NoRow
  BY <1>1 DEF Chosen
<1>2. CASE orders[o] = NoRow
  <2>1. PICK g \in Handlers : handler'[g] # Idle /\ handler'[g].order = o
    BY <1>2 DEF Chosen
  <2>2. handler'[h] = w /\ (g # h => handler'[g] = handler[g])
    BY DEF TypeOK
  <2> QED
    BY <2>1, <2>2 DEF Chosen
<1> QED
  BY <1>1, <1>2

\* A step of the service that draws no order leaves the chosen ones chosen.
LEMMA NoneDrawn ==
  ASSUME IInv, NEW h \in Handlers, NEW o \in Orders, MarkOrderPaid(h, o) \/ CancelOrder(h, o)
  PROVE  \A p \in Orders : Chosen(p)' => Chosen(p)
<1>1. TypeOK /\ orders' = orders /\ Chosen(o)
  BY DEF IInv, MarkOrderPaid, CancelOrder, Prepare, Answer, Chosen
<1>2. CASE handler' = handler
  BY <1>1, <1>2 DEF Chosen
<1>3. ASSUME NEW t, Prepare(h, o, t) PROVE \A p \in Orders : Chosen(p)' => Chosen(p)
  <2> DEFINE w == [op |-> t, order |-> o, stamp |-> Now]
  <2>1. handler' = [handler EXCEPT ![h] = w] /\ w.order = o
    BY <1>3 DEF Prepare
  <2> HIDE DEF w
  <2> QED
    BY <1>1, <2>1, ChosenBefore
<1> QED
  BY <1>2, <1>3 DEF MarkOrderPaid, CancelOrder, Answer

LEMMA PricesNext ==
  ASSUME APIInv, [APINext]_apiVars
  PROVE  PricesAreCalculated'
<1>1. APITypes /\ IInv /\ TypeOK /\ PricesAreCalculated
  BY DEF APIInv, IInv
<1>2. ASSUME basket' = basket, totals' = totals, \A o \in Orders : Chosen(o)' => Chosen(o)
      PROVE  PricesAreCalculated'
  <2>1. \A o \in Orders : Chosen(o)' => totals'[o] \in calcTotalUSD(basket)
    BY <1>1, <1>2 DEF PricesAreCalculated
  <2> QED
    BY <1>1, <1>2, <2>1 DEF PricesAreCalculated
<1>3. ASSUME NEW h \in Handlers, Handle(h) PROVE PricesAreCalculated'
  <2>1. basket' = basket /\ orders' = orders
    BY <1>3, HandleMeans
  <2>2. CASE HandleCreateOrder(h)
    <3>1. CASE UNCHANGED <<vars, totals>>
      BY <1>2, <2>1, <3>1 DEF vars, Chosen
    <3>2. ASSUME NEW o \in Orders, NEW total \in calcTotalUSD(basket), validateItems(basket),
                 CreateOrder(h, o), totals' = [totals EXCEPT ![o] = total]
          PROVE  PricesAreCalculated'
      <4>1. /\ handler' = [handler EXCEPT ![h] = [op |-> "OrderCreated", order |-> o, stamp |-> Now]]
            /\ ~ Chosen(o)
        BY <3>2 DEF CreateOrder, Prepare, Fresh, Chosen
      <4>2. basket \in Seq(Item(Int, Int, STRING))
        BY <1>1, APIAssumption DEF PricesAreCalculated
      <4>3. calcTotalUSD(basket) \subseteq MinInt .. MaxInt
        BY <3>2, <4>2, TotalsFit
      <4>4. totals \in [Orders -> MinInt .. MaxInt]
        BY <1>1 DEF PricesAreCalculated
      <4>5. totals' \in [Orders -> MinInt .. MaxInt]
        BY <3>2, <4>3, <4>4
      <4>6. ASSUME NEW p \in Orders, Chosen(p)' PROVE totals'[p] \in calcTotalUSD(basket)
        <5>1. CASE p = o
          BY <3>2, <4>4, <5>1
        <5>2. CASE p # o
          <6>1. handler'[h].order = o /\ \A g \in Handlers : g # h => handler'[g] = handler[g]
            BY <1>1, <4>1 DEF TypeOK
          <6>2. Chosen(p)
            BY <2>1, <4>6, <5>2, <6>1 DEF Chosen
          <6>3. totals'[p] = totals[p]
            BY <3>2, <4>4, <5>2
          <6> QED
            BY <1>1, <6>2, <6>3 DEF PricesAreCalculated
        <5> QED
          BY <5>1, <5>2
      <4> QED
        BY <1>1, <2>1, <4>5, <4>6 DEF PricesAreCalculated
    <3> QED
      BY <2>2, <3>1, <3>2 DEF HandleCreateOrder, Returns
  <2>3. CASE HandleGetOrder(h)
    <3>1. UNCHANGED <<vars, totals>>
      BY <2>3 DEF HandleGetOrder, NoOrder, Returns
    <3> QED
      BY <1>2, <2>1, <3>1 DEF vars, Chosen
  <2>4. CASE HandleMarkOrderPaid(h)
    <3>1. \/ UNCHANGED <<vars, totals>>
          \/ totals' = totals /\ \E o \in Orders : MarkOrderPaid(h, o)
      BY <2>4 DEF HandleMarkOrderPaid, NoOrder, Returns
    <3>2. CASE UNCHANGED <<vars, totals>>
      BY <1>2, <2>1, <3>2 DEF vars, Chosen
    <3> QED
      BY <1>1, <1>2, <2>1, <3>1, <3>2, NoneDrawn
  <2>5. CASE HandleCancelOrder(h)
    <3>1. \/ UNCHANGED <<vars, totals>>
          \/ totals' = totals /\ \E o \in Orders : CancelOrder(h, o)
      BY <2>5 DEF HandleCancelOrder, NoOrder, Returns
    <3>2. CASE UNCHANGED <<vars, totals>>
      BY <1>2, <2>1, <3>2 DEF vars, Chosen
    <3> QED
      BY <1>1, <1>2, <2>1, <3>1, <3>2, NoneDrawn
  <2> QED
    BY <1>3, <2>2, <2>3, <2>4, <2>5 DEF Handle
<1>4. ASSUME NEW h \in Handlers, Transact(h) PROVE PricesAreCalculated'
  <2>1. /\ handler[h] # Idle /\ handler[h] \in Write /\ handler' = [handler EXCEPT ![h] = Idle]
        /\ basket' = basket /\ totals' = totals
        /\ Commit(handler[h]) \/ orders' = orders
    BY <1>4, TransactMeans
  <2>2. CASE orders' = orders
    BY <1>1, <1>2, <2>1, <2>2, ChosenBefore
  <2>3. CASE Commit(handler[h])
    <3>1. handler[h].order \in Orders /\ Chosen(handler[h].order)
      BY <2>1 DEF Write, Chosen
    <3>2. \A p \in Orders : p # handler[h].order => orders'[p] = orders[p]
      BY <1>1, <2>3 DEF Commit, TypeOK
    <3>3. \A g \in Handlers : handler'[g] = Idle \/ handler'[g] = handler[g]
      BY <1>1, <2>1 DEF TypeOK
    <3>4. \A p \in Orders : Chosen(p)' => Chosen(p)
      BY <3>1, <3>2, <3>3 DEF Chosen
    <3> QED
      BY <1>2, <2>1, <3>4
  <2> QED
    BY <2>1, <2>2, <2>3
<1>5. ASSUME NEW h \in Handlers,
             \/ \E m \in Methods : Dispatch(h, m)
             \/ Return(h) \/ Recover(h) \/ GiveUp(h)
      PROVE  UNCHANGED <<vars, totals, basket>>
  BY <1>5 DEF Dispatch, Return, Recover, GiveUp, Reply
<1>9. ASSUME NEW h \in Handlers, Inc(h) PROVE UNCHANGED <<vars, totals, basket>>
  BY <1>9, IncMeans
<1>6. CASE UNCHANGED <<vars, totals, basket>>
  BY <1>2, <1>6 DEF vars, Chosen
<1>7. CASE APICrash
  <2>1. /\ handler' = [h \in Handlers |-> Idle]
        /\ UNCHANGED <<orders, totals, basket>>
    BY <1>7 DEF APICrash, Die
  <2>2. \A o \in Orders : Chosen(o)' => Chosen(o)
    BY <2>1 DEF Chosen
  <2> QED
    BY <1>2, <2>1, <2>2
<1>8. UNCHANGED apiVars => UNCHANGED <<vars, totals, basket>>
  BY DEF apiVars, client
<1> QED
  BY <1>3, <1>4, <1>5, <1>6, <1>7, <1>8, <1>9 DEF APINext

-----------------------------------------------------------------------------
(* The account of the calls, and of what they have prepared.               *)

LEMMA HeldNext ==
  ASSUME APIInv, [APINext]_apiVars
  PROVE  WritesAreHeld'
<1>1. APITypes /\ TypeOK /\ WritesAreHeld
  BY DEF APIInv, IInv
<1>2. ASSUME NEW h \in Handlers, NEW c \in Call \cup {NoCall}, call' = [call EXCEPT ![h] = c],
             NEW w, handler' = [handler EXCEPT ![h] = w],
             c = NoCall \/ c.stage # "tx" \/ w # Idle
      PROVE  WritesAreHeld'
  <2>1. call'[h] = c /\ \A g \in Handlers : g # h => call'[g] = call[g]
    BY <1>1, <1>2, OtherCalls
  <2>2. handler'[h] = w /\ \A g \in Handlers : g # h => handler'[g] = handler[g]
    BY <1>1, <1>2 DEF TypeOK
  <2> QED
    BY <1>1, <1>2, <2>1, <2>2 DEF WritesAreHeld, In
<1>3. ASSUME NEW h \in Handlers, NEW c \in Call \cup {NoCall}, call' = [call EXCEPT ![h] = c],
             handler' = handler, c = NoCall \/ c.stage # "tx" \/ In(h, "tx")
      PROVE  WritesAreHeld'
  <2>1. call'[h] = c /\ \A g \in Handlers : g # h => call'[g] = call[g]
    BY <1>1, <1>3, OtherCalls
  <2> QED
    BY <1>1, <1>3, <2>1 DEF WritesAreHeld, In
<1>4. ASSUME NEW h \in Handlers, NEW m \in Methods, Dispatch(h, m) PROVE WritesAreHeld'
  BY <1>3, <1>4, DispatchMeans
<1>5. ASSUME NEW h \in Handlers, Handle(h) PROVE WritesAreHeld'
  <2>1. PICK c \in Call : Outcome(h, c)
    BY <1>5, HandleMeans
  <2>2. call' = [call EXCEPT ![h] = c]
    BY <2>1 DEF Outcome
  <2>3. ASSUME NEW w \in Write, handler' = [handler EXCEPT ![h] = w] PROVE WritesAreHeld'
    <3>1. w # Idle
      BY DEF Write, Idle, EventTypes
    <3> QED
      BY <1>2, <2>2, <2>3, <3>1
  <2>4. CASE c.stage \in {"panic", "return"} /\ handler' = handler
    BY <1>3, <2>2, <2>4
  <2> QED
    BY <2>1, <2>3, <2>4 DEF Outcome
<1>6. ASSUME NEW h \in Handlers, Transact(h) PROVE WritesAreHeld'
  BY <1>2, <1>6, TransactMoves
<1>7. ASSUME NEW h \in Handlers, Return(h) \/ Recover(h) PROVE WritesAreHeld'
  BY <1>1, <1>3, <1>7, ReplyMeans
<1>8. ASSUME NEW h \in Handlers, GiveUp(h) PROVE WritesAreHeld'
  <2>1. PICK c \in Call : call' = [call EXCEPT ![h] = c] /\ c.stage = call[h].stage
    BY <1>1, <1>8, GiveUpMeans
  <2>2. handler' = handler /\ call[h] # NoCall
    BY <1>1, <1>8, GiveUpMeans
  <2> QED
    BY <1>3, <2>1, <2>2 DEF In
<1>9. ASSUME NEW h \in Handlers, Inc(h) PROVE WritesAreHeld'
  <2>1. PICK c \in Call : call' = [call EXCEPT ![h] = c] /\ c.stage = "return"
    BY <1>9, IncMeans
  <2>2. handler' = handler
    BY <1>9, IncMeans DEF vars
  <2> QED
    BY <1>3, <2>1, <2>2
<1>10. CASE APICrash
  BY <1>10, DieMeans DEF APICrash, WritesAreHeld, In
<1>11. CASE UNCHANGED apiVars
  BY <1>1, <1>11 DEF apiVars, vars, WritesAreHeld, In
<1> QED
  BY <1>4, <1>5, <1>6, <1>7, <1>8, <1>9, <1>10, <1>11 DEF APINext

\* A set of calls grows by one at most.
LEMMA OneCallMore ==
  ASSUME NEW T \in SUBSET Handlers, NEW h \in Handlers, NEW S \in SUBSET (T \cup {h})
  PROVE  Cardinality(S) \in Nat /\ Cardinality(T) \in Nat /\ Cardinality(S) <= Cardinality(T) + 1
<1>1. T \cup {h} \in SUBSET Handlers
  OBVIOUS
<1>2. Cardinality(S) <= Cardinality(T \cup {h}) /\ Cardinality(S) \in Nat
  BY <1>1, FewerCalls
<1>3. Cardinality(T) \in Nat
  BY FewerCalls
<1>4. CASE h \in T
  <2>1. T \cup {h} = T
    BY <1>4
  <2> QED
    BY <1>2, <1>3, <2>1
<1>5. CASE h \notin T
  <2>1. (T \cup {h}) \ {h} = T /\ h \in T \cup {h}
    BY <1>5
  <2>2. Cardinality(T \cup {h}) = Cardinality(T) + 1
    BY <1>1, <2>1, OneCallLess
  <2> QED
    BY <1>2, <1>3, <2>2
<1> QED
  BY <1>4, <1>5

\* The sums, and what one more adds to them.
LEMMA Sums ==
  /\ \A f \in [Codes -> Nat] :
       /\ SumOfCodes(f) \in Nat
       /\ \A c \in Codes : f[c] <= SumOfCodes(f)
                           /\ SumOfCodes([f EXCEPT ![c] = f[c] + 1]) = SumOfCodes(f) + 1
  /\ \A f \in [EventTypes -> Nat] :
       /\ SumOfTypes(f) \in Nat
       /\ \A t \in EventTypes : f[t] <= SumOfTypes(f)
                                /\ SumOfTypes([f EXCEPT ![t] = f[t] + 1]) = SumOfTypes(f) + 1
  /\ SumOfCodes(Zero(Codes)) = 0 /\ SumOfTypes(Zero(EventTypes)) = 0
<1>1. ASSUME NEW f \in [Codes -> Nat]
      PROVE  /\ SumOfCodes(f) \in Nat
             /\ \A c \in Codes : f[c] <= SumOfCodes(f)
                                 /\ SumOfCodes([f EXCEPT ![c] = f[c] + 1]) = SumOfCodes(f) + 1
  <2>1. /\ f["OK"] \in Nat /\ f["InvalidArgument"] \in Nat /\ f["NotFound"] \in Nat
        /\ f["FailedPrecondition"] \in Nat /\ f["Internal"] \in Nat
    BY DEF Codes
  <2> QED
    BY <2>1 DEF Codes, SumOfCodes
<1>2. ASSUME NEW f \in [EventTypes -> Nat]
      PROVE  /\ SumOfTypes(f) \in Nat
             /\ \A t \in EventTypes : f[t] <= SumOfTypes(f)
                                      /\ SumOfTypes([f EXCEPT ![t] = f[t] + 1]) = SumOfTypes(f) + 1
  <2>1. f["OrderCreated"] \in Nat /\ f["OrderPaid"] \in Nat /\ f["OrderCancelled"] \in Nat
    BY DEF EventTypes
  <2> QED
    BY <2>1 DEF EventTypes, SumOfTypes
<1>3. SumOfCodes(Zero(Codes)) = 0 /\ SumOfTypes(Zero(EventTypes)) = 0
  BY DEF Zero, Codes, EventTypes, SumOfCodes, SumOfTypes
<1> QED
  BY <1>1, <1>2, <1>3

\* The account, in numbers.
LEMMA CallsInNumbers ==
  ASSUME APIInv
  PROVE  \E n, a, u, s, o, w, r \in Nat :
           /\ n = calls /\ a = SumOfCodes(requestsTotal) /\ u = unsure
           /\ s = SumOfTypes(ordersTotal) /\ o = Cardinality(Open) /\ w = Cardinality(Waiting)
           /\ r = Cardinality(Unwritten)
           /\ n <= MaxCalls /\ a + o <= n /\ u + w <= n /\ s + r <= n
<1>1. Cardinality(Open) \in Nat /\ Cardinality(Waiting) \in Nat /\ Cardinality(Unwritten) \in Nat
  BY FewerCalls DEF Open, Waiting, Unwritten
<1>2. SumOfCodes(requestsTotal) \in Nat /\ SumOfTypes(ordersTotal) \in Nat /\ unsure \in Nat
  BY Sums DEF APIInv, APITypes
<1> QED
  BY <1>1, <1>2 DEF APIInv, CallsAreCounted

\* The sets of calls, when one call changes.
LEMMA OneCallChanges ==
  ASSUME APITypes, NEW h \in Handlers, NEW c \in Call \cup {NoCall}, call' = [call EXCEPT ![h] = c]
  PROVE  /\ Open' \subseteq Open \cup {h} /\ Waiting' \subseteq Waiting \cup {h}
         /\ Unwritten' \subseteq Unwritten \cup {h}
         /\ c = NoCall \/ call[h] = NoCall => h \notin Open' \/ h \notin Open
         /\ c = NoCall => h \notin Open' /\ h \notin Waiting' /\ h \notin Unwritten'
         /\ c # NoCall => /\ h \in Waiting' <=> c.method = "CreateOrder" /\ ~ c.abandoned
                          /\ h \in Unwritten' <=> c.stage \in {"handler", "tx", "inc"}
<1>1. call'[h] = c /\ \A g \in Handlers : g # h => call'[g] = call[g]
  BY OtherCalls
<1> QED
  BY <1>1 DEF Open, Waiting, Unwritten, Awaits, Serves

\* The account balances again after a step that adds no more to what has become
\* of calls than it takes from those open, or makes.
LEMMA AccountAfter ==
  ASSUME APIInv, APITypes', calls' \in Nat, calls' <= MaxCalls, crashes' <= MaxCrashes,
         NEW k \in Nat, calls' = calls + k, NEW x \in Nat, NEW y \in Nat, NEW z \in Nat,
         SumOfCodes(requestsTotal') <= SumOfCodes(requestsTotal) + x,
         Cardinality(Open') + x <= Cardinality(Open) + k,
         unsure' <= unsure + y,
         Cardinality(Waiting') + y <= Cardinality(Waiting) + k,
         SumOfTypes(ordersTotal') <= SumOfTypes(ordersTotal) + z,
         Cardinality(Unwritten') + z <= Cardinality(Unwritten) + k
  PROVE  CallsAreCounted'
<1>1. PICK n, a, u, s, o, w, r \in Nat :
           /\ n = calls /\ a = SumOfCodes(requestsTotal) /\ u = unsure
           /\ s = SumOfTypes(ordersTotal) /\ o = Cardinality(Open) /\ w = Cardinality(Waiting)
           /\ r = Cardinality(Unwritten)
           /\ n <= MaxCalls /\ a + o <= n /\ u + w <= n /\ s + r <= n
  BY CallsInNumbers
<1>2. PICK a2, u2, s2, o2, w2, r2 \in Nat :
           /\ a2 = SumOfCodes(requestsTotal') /\ u2 = unsure'
           /\ s2 = SumOfTypes(ordersTotal') /\ o2 = Cardinality(Open') /\ w2 = Cardinality(Waiting')
           /\ r2 = Cardinality(Unwritten')
  <2>1. Cardinality(Open') \in Nat /\ Cardinality(Waiting') \in Nat /\ Cardinality(Unwritten') \in Nat
    <3>1. Open' \subseteq Handlers /\ Waiting' \subseteq Handlers /\ Unwritten' \subseteq Handlers
      BY DEF Open, Waiting, Unwritten
    <3> QED
      BY <3>1, FewerCalls
  <2>2. SumOfCodes(requestsTotal') \in Nat /\ SumOfTypes(ordersTotal') \in Nat /\ unsure' \in Nat
    BY Sums DEF APITypes
  <2> QED
    BY <2>1, <2>2
<1>3. a2 <= a + x /\ o2 + x <= o + k
  BY <1>1, <1>2
<1>4. u2 <= u + y /\ w2 + y <= w + k
  BY <1>1, <1>2
<1>5. s2 <= s + z /\ r2 + z <= r + k
  BY <1>1, <1>2
<1>6. a2 + o2 <= n + k /\ u2 + w2 <= n + k /\ s2 + r2 <= n + k
  BY <1>1, <1>3, <1>4, <1>5
<1>7. calls' = n + k
  BY <1>1
<1> QED
  BY <1>2, <1>6, <1>7 DEF CallsAreCounted

LEMMA CallsNext ==
  ASSUME APIInv, APITypes', [APINext]_apiVars
  PROVE  CallsAreCounted'
<1>1. /\ APITypes /\ TypeOK /\ calls \in Nat /\ calls <= MaxCalls /\ crashes <= MaxCrashes
      /\ MaxCalls \in Nat /\ MaxCrashes \in Nat
      /\ Open \in SUBSET Handlers /\ Waiting \in SUBSET Handlers /\ Unwritten \in SUBSET Handlers
      /\ Open' \in SUBSET Handlers /\ Waiting' \in SUBSET Handlers /\ Unwritten' \in SUBSET Handlers
  BY APIAssumption DEF APIInv, IInv, CallsAreCounted, Open, Waiting, Unwritten
<1>2. /\ requestsTotal \in [Codes -> Nat] /\ ordersTotal \in [EventTypes -> Nat]
      /\ SumOfCodes(requestsTotal) \in Nat /\ SumOfTypes(ordersTotal) \in Nat
      /\ unsure \in Nat
  BY <1>1, Sums DEF APITypes
<1>3. /\ Cardinality(Open) \in Nat /\ Cardinality(Waiting) \in Nat /\ Cardinality(Unwritten) \in Nat
  BY <1>1, FewerCalls
<1>4. /\ Open' \subseteq Open =>
           Cardinality(Open') \in Nat /\ Cardinality(Open') <= Cardinality(Open)
      /\ Waiting' \subseteq Waiting =>
           Cardinality(Waiting') \in Nat /\ Cardinality(Waiting') <= Cardinality(Waiting)
      /\ Unwritten' \subseteq Unwritten =>
           Cardinality(Unwritten') \in Nat /\ Cardinality(Unwritten') <= Cardinality(Unwritten)
  BY <1>1, FewerCalls
<1>5. ASSUME NEW h \in Handlers, NEW m \in Methods, Dispatch(h, m) PROVE CallsAreCounted'
  <2>1. PICK c \in Call : call' = [call EXCEPT ![h] = c]
    BY <1>5, DispatchMeans
  <2>2. /\ Open' \subseteq Open \cup {h} /\ Waiting' \subseteq Waiting \cup {h}
        /\ Unwritten' \subseteq Unwritten \cup {h}
    BY <1>1, <2>1, OneCallChanges
  <2>3. /\ calls < MaxCalls /\ calls' = calls + 1
        /\ UNCHANGED <<requestsTotal, ordersTotal, unsure, crashes>>
    BY <1>5, DispatchMeans
  <2>4. /\ Cardinality(Open') \in Nat /\ Cardinality(Open') <= Cardinality(Open) + 1
        /\ Cardinality(Waiting') \in Nat /\ Cardinality(Waiting') <= Cardinality(Waiting) + 1
        /\ Cardinality(Unwritten') \in Nat /\ Cardinality(Unwritten') <= Cardinality(Unwritten) + 1
    BY <1>1, <2>2, OneCallMore
  <2>5. calls' \in Nat /\ calls' <= MaxCalls /\ crashes' <= MaxCrashes
    BY <1>1, <2>3
  <2>6. /\ SumOfCodes(requestsTotal') <= SumOfCodes(requestsTotal) + 0
        /\ unsure' <= unsure + 0
        /\ SumOfTypes(ordersTotal') <= SumOfTypes(ordersTotal) + 0
    BY <1>2, <2>3
  <2>7. /\ Cardinality(Open') + 0 <= Cardinality(Open) + 1
        /\ Cardinality(Waiting') + 0 <= Cardinality(Waiting) + 1
        /\ Cardinality(Unwritten') + 0 <= Cardinality(Unwritten) + 1
    BY <2>4
  <2> QED
    BY <2>3, <2>5, <2>6, <2>7, AccountAfter
<1>7. ASSUME NEW x \in Nat, NEW y \in Nat, NEW z \in Nat, UNCHANGED calls, crashes' <= MaxCrashes,
             SumOfCodes(requestsTotal') <= SumOfCodes(requestsTotal) + x,
             Cardinality(Open') + x <= Cardinality(Open),
             unsure' <= unsure + y,
             Cardinality(Waiting') + y <= Cardinality(Waiting),
             SumOfTypes(ordersTotal') <= SumOfTypes(ordersTotal) + z,
             Cardinality(Unwritten') + z <= Cardinality(Unwritten)
      PROVE  CallsAreCounted'
  <2>1. calls' \in Nat /\ calls' <= MaxCalls /\ calls' = calls + 0
    BY <1>1, <1>7
  <2>2. /\ Cardinality(Open') + x <= Cardinality(Open) + 0
        /\ Cardinality(Waiting') + y <= Cardinality(Waiting) + 0
        /\ Cardinality(Unwritten') + z <= Cardinality(Unwritten) + 0
    BY <1>3, <1>7
  <2> QED
    BY <1>7, <2>1, <2>2, AccountAfter
<1>8. ASSUME NEW h \in Handlers, Handle(h) PROVE CallsAreCounted'
  <2>1. PICK c \in Call : Outcome(h, c)
    BY <1>8, HandleMeans
  <2>2. /\ In(h, "handler") /\ call[h] # NoCall /\ call[h] \in Call
        /\ UNCHANGED <<calls, requestsTotal, ordersTotal, unsure, crashes>>
    BY <1>1, <1>8, HandleMeans DEF In, APITypes
  <2>3. /\ call' = [call EXCEPT ![h] = c] /\ c # NoCall
        /\ c.method = call[h].method /\ c.abandoned = call[h].abandoned
    BY <2>1, CallFacts DEF Outcome
  <2>4. Open' \subseteq Open /\ Waiting' \subseteq Waiting /\ Unwritten' \subseteq Unwritten
    <3>1. /\ h \in Open /\ h \in Unwritten
          /\ h \in Waiting <=> c.method = "CreateOrder" /\ ~ c.abandoned
      BY <2>2, <2>3 DEF Open, Waiting, Unwritten, Awaits, Serves, In
    <3>2. /\ Open' \subseteq Open \cup {h} /\ Waiting' \subseteq Waiting \cup {h}
          /\ Unwritten' \subseteq Unwritten \cup {h}
          /\ h \in Waiting' <=> c.method = "CreateOrder" /\ ~ c.abandoned
      BY <1>1, <2>3, OneCallChanges
    <3> QED
      BY <3>1, <3>2
  <2>5. /\ SumOfCodes(requestsTotal') <= SumOfCodes(requestsTotal) + 0
        /\ unsure' <= unsure + 0
        /\ SumOfTypes(ordersTotal') <= SumOfTypes(ordersTotal) + 0
    BY <1>2, <2>2
  <2>6. /\ Cardinality(Open') + 0 <= Cardinality(Open)
        /\ Cardinality(Waiting') + 0 <= Cardinality(Waiting)
        /\ Cardinality(Unwritten') + 0 <= Cardinality(Unwritten)
    BY <1>3, <1>4, <2>4
  <2> QED
    BY <1>1, <1>7, <2>2, <2>5, <2>6
<1>9. ASSUME NEW h \in Handlers, Transact(h) PROVE CallsAreCounted'
  <2>1. PICK c \in Call : /\ call' = [call EXCEPT ![h] = c] /\ c # NoCall
                          /\ c.method = call[h].method /\ c.abandoned = call[h].abandoned
    BY <1>9, TransactMeans, CallFacts
  <2>2. /\ In(h, "tx") /\ call[h] # NoCall
        /\ UNCHANGED <<calls, requestsTotal, ordersTotal, unsure, crashes>>
    BY <1>9, TransactMeans DEF In
  <2>3. Open' \subseteq Open /\ Waiting' \subseteq Waiting /\ Unwritten' \subseteq Unwritten
    <3>1. /\ h \in Open /\ h \in Unwritten
          /\ h \in Waiting <=> c.method = "CreateOrder" /\ ~ c.abandoned
      BY <2>1, <2>2 DEF Open, Waiting, Unwritten, Awaits, Serves, In
    <3>2. /\ Open' \subseteq Open \cup {h} /\ Waiting' \subseteq Waiting \cup {h}
          /\ Unwritten' \subseteq Unwritten \cup {h}
          /\ h \in Waiting' <=> c.method = "CreateOrder" /\ ~ c.abandoned
      BY <1>1, <2>1, OneCallChanges
    <3> QED
      BY <3>1, <3>2
  <2>4. /\ SumOfCodes(requestsTotal') <= SumOfCodes(requestsTotal) + 0
        /\ unsure' <= unsure + 0
        /\ SumOfTypes(ordersTotal') <= SumOfTypes(ordersTotal) + 0
    BY <1>2, <2>2
  <2>5. /\ Cardinality(Open') + 0 <= Cardinality(Open)
        /\ Cardinality(Waiting') + 0 <= Cardinality(Waiting)
        /\ Cardinality(Unwritten') + 0 <= Cardinality(Unwritten)
    BY <1>3, <1>4, <2>3
  <2> QED
    BY <1>1, <1>7, <2>2, <2>4, <2>5
<1>6. ASSUME NEW h \in Handlers, Inc(h) PROVE CallsAreCounted'
  <2>1. PICK c \in Call : /\ call' = [call EXCEPT ![h] = c] /\ c.stage = "return" /\ c # NoCall
                          /\ c.method = call[h].method /\ c.abandoned = call[h].abandoned
    BY <1>6, IncMeans, CallFacts
  <2>2. /\ In(h, "inc") /\ call[h] # NoCall
        /\ UNCHANGED <<calls, requestsTotal, unsure, crashes>>
    BY <1>6, IncMeans
  <2>3. /\ Open' \subseteq Open /\ Waiting' \subseteq Waiting
        /\ Unwritten' \subseteq Unwritten /\ h \in Unwritten \ Unwritten'
    <3>1. /\ h \in Open /\ h \in Unwritten
          /\ h \in Waiting <=> c.method = "CreateOrder" /\ ~ c.abandoned
      BY <2>1, <2>2 DEF Open, Waiting, Unwritten, Awaits, Serves, In
    <3> QED
      BY <1>1, <2>1, <2>2, <3>1, OneCallChanges
  <2>4. SumOfTypes(ordersTotal') <= SumOfTypes(ordersTotal) + 1
    <3>1. PICK e \in EventTypes : ordersTotal' = [ordersTotal EXCEPT ![e] = ordersTotal[e] + 1]
      BY <1>6, IncMeans, EventOfMeans
    <3>2. SumOfTypes(ordersTotal') = SumOfTypes(ordersTotal) + 1
      BY <1>2, <3>1, Sums
    <3> QED
      BY <1>2, <3>2
  <2>5. /\ SumOfCodes(requestsTotal') <= SumOfCodes(requestsTotal) + 0
        /\ unsure' <= unsure + 0
    BY <1>2, <2>2
  <2>6. /\ Cardinality(Open') + 0 <= Cardinality(Open)
        /\ Cardinality(Waiting') + 0 <= Cardinality(Waiting)
    BY <1>3, <1>4, <2>3
  <2>7. Cardinality(Unwritten') + 1 <= Cardinality(Unwritten)
    BY <1>1, <2>3, FewerCalls
  <2> QED
    BY <1>1, <1>7, <2>2, <2>4, <2>5, <2>6, <2>7
<1>10. ASSUME NEW h \in Handlers, Return(h) \/ Recover(h) PROVE CallsAreCounted'
  <2>1. PICK code \in Codes :
           /\ call[h] # NoCall /\ call' = [call EXCEPT ![h] = NoCall]
           /\ Count(code) \/ UNCHANGED requestsTotal
           /\ unsure' = IF Awaits(h) /\ code = "Internal" THEN unsure + 1 ELSE unsure
           /\ UNCHANGED <<calls, ordersTotal, crashes>>
    BY <1>1, <1>10, ReplyMeans
  <2>2. /\ Open' \subseteq Open /\ Waiting' \subseteq Waiting /\ Unwritten' \subseteq Unwritten
        /\ h \in Open \ Open' /\ (Awaits(h) => h \in Waiting \ Waiting')
    <3>1. h \in Open /\ (Awaits(h) => h \in Waiting)
      BY <2>1 DEF Open, Waiting
    <3> QED
      BY <1>1, <2>1, <3>1, OneCallChanges
  <2>3. SumOfCodes(requestsTotal') <= SumOfCodes(requestsTotal) + 1
    <3>1. CASE Count(code)
      <4>1. SumOfCodes(requestsTotal') = SumOfCodes(requestsTotal) + 1
        BY <1>2, <3>1, Sums DEF Count
      <4> QED
        BY <1>2, <4>1
    <3>2. CASE UNCHANGED requestsTotal
      BY <1>2, <3>2
    <3> QED
      BY <2>1, <3>1, <3>2
  <2>4. SumOfTypes(ordersTotal') <= SumOfTypes(ordersTotal) + 0
    BY <1>2, <2>1
  <2>5. Cardinality(Open') + 1 <= Cardinality(Open)
    BY <1>1, <2>2, FewerCalls
  <2>6. Cardinality(Unwritten') + 0 <= Cardinality(Unwritten)
    BY <1>3, <1>4, <2>2
  <2>7. CASE Awaits(h)
    <3>1. unsure' <= unsure + 1
      BY <1>2, <2>1
    <3>2. Cardinality(Waiting') + 1 <= Cardinality(Waiting)
      BY <1>1, <2>2, <2>7, FewerCalls
    <3> QED
      BY <1>1, <1>7, <2>1, <2>3, <2>4, <2>5, <2>6, <3>1, <3>2
  <2>8. CASE ~ Awaits(h)
    <3>1. unsure' <= unsure + 0
      BY <1>2, <2>1, <2>8
    <3>2. Cardinality(Waiting') + 0 <= Cardinality(Waiting)
      BY <1>3, <1>4, <2>2
    <3> QED
      BY <1>1, <1>7, <2>1, <2>3, <2>4, <2>5, <2>6, <3>1, <3>2
  <2> QED
    BY <2>7, <2>8
<1>11. ASSUME NEW h \in Handlers, GiveUp(h) PROVE CallsAreCounted'
  <2>1. PICK c \in Call : /\ call' = [call EXCEPT ![h] = c] /\ c.stage = call[h].stage
                          /\ c.method = call[h].method /\ c.abandoned
    BY <1>1, <1>11, GiveUpMeans
  <2>2. /\ Awaits(h) /\ call[h] # NoCall /\ c # NoCall /\ unsure' = unsure + 1
        /\ UNCHANGED <<calls, requestsTotal, ordersTotal, crashes>>
    BY <1>1, <1>11, GiveUpMeans, CallFacts
  <2>3. /\ Open' \subseteq Open /\ Waiting' \subseteq Waiting /\ Unwritten' \subseteq Unwritten
        /\ h \in Waiting \ Waiting'
    <3>1. h \in Open /\ h \in Waiting /\ (h \in Unwritten <=> c.stage \in {"handler", "tx", "inc"})
      BY <2>1, <2>2 DEF Open, Waiting, Unwritten
    <3> QED
      BY <1>1, <2>1, <2>2, <3>1, OneCallChanges
  <2>4. /\ SumOfCodes(requestsTotal') <= SumOfCodes(requestsTotal) + 0
        /\ unsure' <= unsure + 1
        /\ SumOfTypes(ordersTotal') <= SumOfTypes(ordersTotal) + 0
    BY <1>2, <2>2
  <2>5. /\ Cardinality(Open') + 0 <= Cardinality(Open)
        /\ Cardinality(Unwritten') + 0 <= Cardinality(Unwritten)
    BY <1>3, <1>4, <2>3
  <2>6. Cardinality(Waiting') + 1 <= Cardinality(Waiting)
    BY <1>1, <2>3, FewerCalls
  <2> QED
    BY <1>1, <1>7, <2>2, <2>4, <2>5, <2>6
<1>12. CASE APICrash
  <2>1. Die /\ crashes < MaxCrashes /\ crashes' = crashes + 1
    BY <1>12 DEF APICrash
  <2>2. /\ call' = [h \in Handlers |-> NoCall] /\ requestsTotal' = Zero(Codes)
        /\ ordersTotal' = Zero(EventTypes) /\ UNCHANGED calls
        /\ unsure' = unsure + Cardinality(Waiting)
    BY <2>1, DieMeans DEF Waiting
  <2>3. Open' = {} /\ Waiting' = {} /\ Unwritten' = {}
    BY <2>2 DEF Open, Waiting, Unwritten, Awaits, Serves
  <2>4. Cardinality(Open') = 0 /\ Cardinality(Waiting') = 0 /\ Cardinality(Unwritten') = 0
    BY <2>3, FS_EmptySet
  <2>5. SumOfCodes(requestsTotal') = 0 /\ SumOfTypes(ordersTotal') = 0
    BY <2>2, Sums
  <2>6. crashes' <= MaxCrashes
    BY <1>1, <2>1 DEF APITypes
  <2>7. SumOfCodes(requestsTotal') <= SumOfCodes(requestsTotal) + Cardinality(Open)
    BY <1>2, <1>3, <2>2, <2>5
  <2>8. unsure' <= unsure + Cardinality(Waiting) /\ SumOfTypes(ordersTotal') <= SumOfTypes(ordersTotal) + 0
    BY <1>2, <1>3, <2>2, <2>5
  <2>9. /\ Cardinality(Open') + Cardinality(Open) <= Cardinality(Open)
        /\ Cardinality(Waiting') + Cardinality(Waiting) <= Cardinality(Waiting)
        /\ Cardinality(Unwritten') + 0 <= Cardinality(Unwritten)
    BY <1>3, <2>4
  <2> QED
    BY <1>3, <1>7, <2>2, <2>6, <2>7, <2>8, <2>9
<1>13. CASE UNCHANGED apiVars
  <2>1. UNCHANGED <<call, calls, requestsTotal, ordersTotal, unsure, crashes>>
    BY <1>13 DEF apiVars, client, metrics
  <2>2. Open' = Open /\ Waiting' = Waiting /\ Unwritten' = Unwritten
    BY <2>1 DEF Open, Waiting, Unwritten, Awaits, Serves
  <2> QED
    BY <2>1, <2>2 DEF APIInv, CallsAreCounted
<1> QED
  BY <1>5, <1>6, <1>8, <1>9, <1>10, <1>11, <1>12, <1>13 DEF APINext

-----------------------------------------------------------------------------
LEMMA InitAPIInv == APIInit => APIInv
<1> SUFFICES ASSUME APIInit PROVE APIInv
  OBVIOUS
<1>1. IInv /\ outbox = <<>> /\ Len(outbox) = 0 /\ \A h \in Handlers : call[h] = NoCall /\ handler[h] = Idle
  BY InitIInv DEF APIInit, Init
<1>2. APITypes
  <2>1. call \in [Handlers -> Call \cup {NoCall}]
    BY DEF APIInit
  <2>2. requestsTotal \in [Codes -> Nat] /\ ordersTotal \in [EventTypes -> Nat]
    BY DEF APIInit, Zero
  <2>3. /\ unsure \in Nat /\ crashes \in Nat
        /\ epoch \in Nat /\ epoch <= Len(outbox)
    BY <1>1 DEF APIInit
  <2>4. told \in BOOLEAN
    BY DEF APIInit
  <2> QED
    BY <2>1, <2>2, <2>3, <2>4 DEF APITypes
<1>3. Rows = {} /\ Adrift = {} /\ Answering = {} /\ Failing = {} /\ \A t : Late(t) = {}
  BY <1>1 DEF APIInit, Init, Rows, Adrift, Answering, Failing, Late, Awaits, Serves, In
<1>4. WritesAreAsked /\ OneIsAwaited
  BY <1>1 DEF WritesAreAsked, OneIsAwaited, Awaits, Serves, In
<1>5. RowsAreFew
  BY <1>3, FS_EmptySet DEF RowsAreFew, Known, APIInit
<1>6. OnlyValidItems
  BY <1>1, <1>3 DEF OnlyValidItems, In
<1>7. CountersFallShort
  <2>1. ASSUME NEW t \in EventTypes PROVE StoredBy(t) = {}
    BY <1>1 DEF APIInit, StoredBy
  <2>2. requestsTotal["Internal"] = 0 /\ \A t \in EventTypes : ordersTotal[t] = 0
    BY CallFacts DEF APIInit, Zero
  <2>3. ASSUME NEW t \in EventTypes PROVE FallsShort(t)
    <3>1. Cardinality(StoredBy(t)) = 0 /\ Cardinality(Failing) = 0 /\ Cardinality(Late(t)) = 0
      BY <1>3, <2>1, FS_EmptySet
    <3> QED
      BY <2>2, <3>1 DEF FallsShort
  <2> QED
    BY <2>3, FallsShortMeans
<1>9. WritesAreHeld
  BY <1>1 DEF WritesAreHeld, In
<1>10. CallsAreCounted
  <2>1. Open = {} /\ Waiting = {} /\ Unwritten = {}
    BY <1>1 DEF Open, Waiting, Unwritten, Awaits, Serves
  <2>2. Cardinality(Open) = 0 /\ Cardinality(Waiting) = 0 /\ Cardinality(Unwritten) = 0
    BY <2>1, FS_EmptySet
  <2>3. SumOfCodes(requestsTotal) = 0 /\ SumOfTypes(ordersTotal) = 0
    BY Sums DEF APIInit
  <2>4. calls = 0 /\ crashes = 0 /\ unsure = 0
    BY DEF APIInit
  <2> QED
    BY <2>2, <2>3, <2>4, APIAssumption DEF CallsAreCounted
<1>11. PricesAreCalculated
  <2>1. totals \in [Orders -> MinInt .. MaxInt]
    BY PricingAssumption DEF APIInit, Zero, MinInt, MaxInt
  <2>2. \A o \in Orders : ~ Chosen(o)
    BY <1>1 DEF APIInit, Init, Chosen
  <2> QED
    BY <2>1, <2>2 DEF APIInit, PricesAreCalculated
<1> QED
  BY <1>1, <1>2, <1>4, <1>5, <1>6, <1>7, <1>9, <1>10, <1>11 DEF APIInv

LEMMA NextAPIInv == APIInv /\ [APINext]_apiVars => APIInv'
<1> SUFFICES ASSUME APIInv, [APINext]_apiVars PROVE APIInv'
  OBVIOUS
<1>1. IInv'
  BY StepsOfService, NextIInv DEF APIInv, IInv
<1>2. APITypes'
  BY TypesNext
<1> QED
  BY <1>1, <1>2, AskedNext, HeldNext, CallsNext, PricesNext, AwaitedNext, RowsNext, ValidNext,
     CountersNext DEF APIInv

\* The service behind its API is the service of OrderService: whatever was
\* proved of that one holds of calls that panic, are given up or are answered
\* with an error.
THEOREM APIImplementsService == APISpec => Spec
<1>1. APIInit => Init
  BY DEF APIInit
<1>2. APIInv /\ [APINext]_apiVars => [Next]_vars
  BY StepsOfService DEF APIInv, IInv
<1> QED
  BY <1>1, <1>2, InitAPIInv, NextAPIInv, PTL DEF APISpec, Spec

\* The business counters are never ahead of the outbox; they are behind it by
\* exactly the calls between COMMIT and counter, but for transactions that were
\* reported as failed, which order_grpc_requests_total counts as Internal.
THEOREM CountersBounded == APISpec => []CountersFallShort
<1>1. APIInv => CountersFallShort
  BY DEF APIInv
<1> QED
  BY <1>1, InitAPIInv, NextAPIInv, PTL DEF APISpec

\* A client that repeats CreateOrder has at most one order more than calls it
\* knows no outcome of, however its calls, crashes and deadlines interleave.
THEOREM DuplicatesBounded == APISpec => []DuplicatesAreUnsure
<1>1. APIInv => DuplicatesAreUnsure
  <2> SUFFICES ASSUME APIInv PROVE Cardinality(Rows) <= 1 + unsure
    BY DEF DuplicatesAreUnsure
  <2>1. APITypes /\ RowsAreFew /\ OneIsAwaited
    BY DEF APIInv
  <2>2. PICK r \in Nat, a \in Nat, x \in Nat, u \in Nat, t \in Nat :
          /\ r = Cardinality(Rows) /\ a = Cardinality(Adrift) /\ x = Cardinality(Answering)
          /\ u = unsure /\ t = Known
    <3>1. Cardinality(Rows) \in Nat
      BY <2>1, FS_CardinalityType DEF RowsAreFew
    <3>2. Cardinality(Adrift) \in Nat /\ Cardinality(Answering) \in Nat
      BY FewerCalls DEF Adrift, Answering
    <3>3. Known \in Nat /\ unsure \in Nat
      BY <2>1 DEF Known, APITypes
    <3> QED
      BY <3>1, <3>2, <3>3
  <2>3. r + a <= u + t + x
    BY <2>1, <2>2 DEF RowsAreFew
  <2>4. t + x <= 1
    <3>1. CASE Answering = {}
      <4>1. x = 0
        BY <2>2, <3>1, FS_EmptySet
      <4>2. t <= 1
        BY <2>2 DEF Known
      <4> QED
        BY <4>1, <4>2
    <3>2. CASE Answering # {}
      <4>1. PICK h \in Answering : TRUE
        BY <3>2
      <4>2. h \in Handlers /\ Awaits(h)
        BY <4>1 DEF Answering
      <4>3. ~ told /\ Answering = {h}
        BY <2>1, <4>1, <4>2 DEF OneIsAwaited, Answering
      <4>4. x = 1 /\ t = 0
        BY <2>2, <4>3, FS_Singleton DEF Known
      <4> QED
        BY <4>4
    <3> QED
      BY <3>1, <3>2
  <2>5. r <= 1 + u
    BY <2>3, <2>4
  <2> QED
    BY <2>2, <2>5
<1> QED
  BY <1>1, InitAPIInv, NextAPIInv, PTL DEF APISpec

\* No order is stored, and no transaction for one begun, whose items
\* mapProtoItemsDomain cannot map or validateItems refuses.
THEOREM OnlyValidStored == APISpec => []OnlyValidItems
<1>1. APIInv => OnlyValidItems
  BY DEF APIInv
<1> QED
  BY <1>1, InitAPIInv, NextAPIInv, PTL DEF APISpec

\* The total of a stored order is what its items cost, less at most one unit for
\* every line, give or take what float64 products are off, as long as nothing
\* wraps around: for baskets of any length and integers of any width.
THEOREM TotalsSound == APISpec => []TotalsAreSound
<1>1. APIInv => TotalsAreSound
  <2> SUFFICES ASSUME APIInv, NEW o \in Rows, InRange(basket)
               PROVE  /\ totals[o] >= 0
                      /\ 1000 * totals[o] \in
                           ExactTotal(basket) - Deviation(basket) - 1000 * Len(basket)
                             .. ExactTotal(basket) + Deviation(basket)
    BY DEF TotalsAreSound
  <2>1. o \in Orders /\ orders[o] # NoRow
    BY DEF Rows
  <2>2. basket \in Seq(Item(Int, Int, STRING)) /\ totals[o] \in calcTotalUSD(basket)
    BY <2>1, APIAssumption DEF APIInv, PricesAreCalculated, Chosen
  <2>3. validateItems(basket)
    BY DEF APIInv, OnlyValidItems
  <2>4. PICK x \in Nat, d \in Nat, n \in Nat :
          x = ExactTotal(basket) /\ d = Deviation(basket) /\ n = Len(basket)
    <3>1. ExactTotal(basket) \in Nat /\ Len(basket) \in Nat
      BY <2>2, <2>3, PricesArePositive
    <3>2. Deviation(basket) \in Nat
      BY <3>1, OffIsNatural DEF Deviation
    <3> QED
      BY <3>1, <3>2
  <2>5. PICK p \in Nat : p = totals[o] /\ 1000 * p <= x + d /\ x <= 1000 * p + d + 1000 * n
    BY <2>2, <2>3, <2>4, TotalsFallShortByLines
  <2>6. 1000 * p <= x + d /\ x <= 1000 * p + d + 1000 * n
    BY <2>5
  <2>7. p >= 0 /\ 1000 * p \in x - d - 1000 * n .. x + d
    BY <2>6
  <2> QED
    BY <2>4, <2>5, <2>7
<1> QED
  BY <1>1, InitAPIInv, NextAPIInv, PTL DEF APISpec

\* A stored order that costs nothing, although validateItems wants every price
\* positive, has only lines in RUB that are worth less than one unit: for
\* baskets of any length, as long as nothing wraps around.
THEOREM FreeOrdersSmall == APISpec => []FreeOrdersAreSmall
<1>1. APIInv => FreeOrdersAreSmall
  <2> SUFFICES ASSUME APIInv, NEW o \in Rows, InRange(basket), totals[o] = 0, NEW i \in DOMAIN basket
               PROVE  /\ basket[i].currency = "RUB"
                      /\ basket[i].amount * basket[i].quantity * StaticRates["RUB"] < 1000
    BY DEF FreeOrdersAreSmall
  <2>1. o \in Orders /\ orders[o] # NoRow
    BY DEF Rows
  <2>2. basket \in Seq(Item(Int, Int, STRING)) /\ 0 \in calcTotalUSD(basket)
    BY <2>1, APIAssumption DEF APIInv, PricesAreCalculated, Chosen
  <2>3. validateItems(basket)
    BY DEF APIInv, OnlyValidItems
  <2>4. i \in 1 .. Len(basket)
    BY <2>2
  <2>5. Petty(basket[i])
    BY <2>2, <2>3, <2>4, FreeLinesArePetty
  <2> QED
    BY <2>5 DEF Petty, LineCost
<1> QED
  BY <1>1, InitAPIInv, NextAPIInv, PTL DEF APISpec

\* The state behind the API keeps its types, and no counter, of the program or
\* of its history, exceeds the calls that were made.
THEOREM APITypesCorrect == APISpec => []APITypeOK
<1>1. APIInv => APITypeOK
  <2> SUFFICES ASSUME APIInv PROVE APITypeOK
    OBVIOUS
  <2>1. APITypes /\ TypeOK /\ WritesAreAsked /\ WritesAreHeld /\ PricesAreCalculated
    BY DEF APIInv, IInv
  <2>2. \A h \in Handlers : handler[h] # Idle <=> call[h] # NoCall /\ call[h].stage = "tx"
    BY <2>1 DEF WritesAreAsked, WritesAreHeld, In
  <2>3. PICK n, a, u, s, o, w, r \in Nat :
           /\ n = calls /\ a = SumOfCodes(requestsTotal) /\ u = unsure
           /\ s = SumOfTypes(ordersTotal) /\ o = Cardinality(Open) /\ w = Cardinality(Waiting)
           /\ r = Cardinality(Unwritten)
           /\ n <= MaxCalls /\ a + o <= n /\ u + w <= n /\ s + r <= n
    BY CallsInNumbers
  <2>4. a <= MaxCalls /\ u <= MaxCalls /\ s <= MaxCalls /\ MaxCalls \in Nat
    <3>1. PICK m \in Nat : m = MaxCalls
      BY APIAssumption
    <3>2. n <= m /\ a + o <= n /\ u + w <= n /\ s + r <= n
      BY <2>3, <3>1
    <3>3. a <= m /\ u <= m /\ s <= m
      BY <3>2
    <3> QED
      BY <3>1, <3>3
  <2>5. requestsTotal \in [Codes -> Nat] /\ ordersTotal \in [EventTypes -> Nat]
    BY <2>1 DEF APITypes
  <2>6. ASSUME NEW c \in Codes PROVE requestsTotal[c] \in 0 .. MaxCalls
    <3>1. requestsTotal[c] \in Nat /\ requestsTotal[c] <= a
      BY <2>3, <2>5, Sums
    <3> QED
      BY <2>4, <3>1
  <2>7. ASSUME NEW t \in EventTypes PROVE ordersTotal[t] \in 0 .. MaxCalls
    <3>1. ordersTotal[t] \in Nat /\ ordersTotal[t] <= s
      BY <2>3, <2>5, Sums
    <3> QED
      BY <2>4, <3>1
  <2>8. unsure \in 0 .. MaxCalls /\ calls \in 0 .. MaxCalls
    BY <2>3, <2>4
  <2>9. epoch \in 0 .. Len(outbox) /\ crashes \in 0 .. MaxCrashes
    <3>1. Len(outbox) \in Nat
      BY <2>1 DEF TypeOK
    <3> QED
      BY <2>1, <3>1, APIAssumption DEF APIInv, APITypes, CallsAreCounted
  <2>10. basket \in Baskets /\ totals \in [Orders -> MinInt .. MaxInt]
    BY <2>1 DEF PricesAreCalculated
  <2>11. requestsTotal \in [Codes -> 0 .. MaxCalls] /\ ordersTotal \in [EventTypes -> 0 .. MaxCalls]
    BY <2>5, <2>6, <2>7
  <2> QED
    BY <2>1, <2>2, <2>8, <2>9, <2>10, <2>11 DEF APITypeOK, APITypes
<1> QED
  BY <1>1, InitAPIInv, NextAPIInv, PTL DEF APISpec
==============================================================================
