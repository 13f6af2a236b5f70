------------------------------ MODULE OrderAPI ------------------------------
(***************************************************************************)
(* A gRPC call to order_service from the wire to the answer: the generated *)
(* handler, the interceptors RequestID, Validation, Recovery and Metrics   *)
(* (in this order, outermost first), the server's method, the service of   *)
(* module OrderService with the prices of module Pricing, and the way back *)
(* with its counters.  One client wants one order and repeats CreateOrder  *)
(* until it is told OK; there is no idempotency key.                       *)
(***************************************************************************)
EXTENDS OrderService, Pricing, FiniteSets

CONSTANTS Baskets,     \* the lists of items the client may ask for
          MaxCalls,    \* bound: calls
          MaxCrashes   \* bound: crashes of the process

ASSUME APIAssumption ==
  /\ Baskets \subseteq Seq(Item(Int, Int, STRING))
  /\ MaxCalls \in Nat
  /\ MaxCrashes \in Nat

VARIABLES basket,         \* what the client wants to order
          totals,         \* table orders: the total of every row
          call,           \* the call every goroutine serves
          requestsTotal,  \* order_grpc_requests_total, by status
          ordersTotal,    \* orders_created_total, orders_paid_total, orders_cancelled_total
          epoch,          \* history: the length of the outbox when the process started
          unsure,         \* history: CreateOrder calls of which the client knows no outcome
          told,           \* the client was told OK by CreateOrder
          calls,          \* calls so far
          crashes         \* crashes so far

client == <<basket, unsure, told, calls>>
metrics == <<requestsTotal, ordersTotal, epoch>>
apiVars == <<vars, totals, call, client, metrics, crashes>>

Methods == {"CreateOrder", "GetOrder", "MarkOrderPaid", "CancelOrder"}

\* The gRPC status codes of the server, and the codes of AppError before them.
Codes == {"OK", "InvalidArgument", "NotFound", "FailedPrecondition", "Internal"}
Results == {"ok", "ERR_INVALID_INPUT", "ERR_NOT_FOUND", "ERR_INVALID_ORDER_STATE", "ERR_INTERNAL"}

NoCall == [stage |-> "none"]

\* A call in its handler, in its transaction, before its counter, panicking, or
\* on its way back with the result of the service.
Call == [method : Methods, stage : {"handler", "tx", "inc", "panic", "return"},
         result : Results, abandoned : BOOLEAN]

APITypeOK ==
  /\ basket \in Baskets
  /\ totals \in [Orders -> MinInt .. MaxInt]
  /\ call \in [Handlers -> Call \cup {NoCall}]
  /\ \A h \in Handlers : handler[h] # Idle <=> call[h] # NoCall /\ call[h].stage = "tx"
  /\ requestsTotal \in [Codes -> 0 .. MaxCalls]
  /\ ordersTotal \in [EventTypes -> 0 .. MaxCalls]
  /\ {unsure, calls} \subseteq 0 .. MaxCalls
  /\ epoch \in 0 .. Len(outbox)
  /\ told \in BOOLEAN
  /\ crashes \in 0 .. MaxCrashes

Zero(S) == [s \in S |-> 0]

APIInit ==
  /\ Init
  /\ basket \in Baskets
  /\ totals = Zero(Orders)
  /\ call = [h \in Handlers |-> NoCall]
  /\ requestsTotal = Zero(Codes) /\ ordersTotal = Zero(EventTypes) /\ epoch = 0
  /\ unsure = 0 /\ told = FALSE
  /\ calls = 0 /\ crashes = 0

-----------------------------------------------------------------------------
In(h, stage) == call[h] # NoCall /\ call[h].stage = stage

Serves(h, method) == call[h] # NoCall /\ call[h].method = method

\* The client waits for the answer of a CreateOrder.
Awaits(h) == Serves(h, "CreateOrder") /\ ~ call[h].abandoned

\* One CreateOrder at a time, until one is answered OK.
MayCall(method) ==
  method = "CreateOrder" => ~ told /\ \A h \in Handlers : ~ Awaits(h)

\* The methods whose request types have the Validate method that the validation
\* interceptor would call: protoc gives none of them one.
Validatable == {}

\* The generated handler has decoded the request, and the interceptors on the
\* way in let it through.
Dispatch(h, method) ==
  /\ call[h] = NoCall
  /\ method \notin Validatable
  /\ calls < MaxCalls /\ calls' = calls + 1
  /\ MayCall(method)
  /\ call' = [call EXCEPT ![h] = [method |-> method, stage |-> "handler",
                                  result |-> "ok", abandoned |-> FALSE]]
  /\ UNCHANGED <<vars, totals, basket, unsure, told, metrics, crashes>>

\* The method of the server goes on to stage s, with result r.
Becomes(h, s, r) ==
  /\ call' = [call EXCEPT ![h].stage = s, ![h].result = r]
  /\ UNCHANGED <<client, requestsTotal, epoch, crashes>>

Returns(h, r) == Becomes(h, "return", r) /\ UNCHANGED <<vars, totals>>

\* item.Price.Amount, of an item without Price.
MapPanics(items) == \E i \in DOMAIN items : ~ items[i].priced

HandleCreateOrder(h) ==
  /\ In(h, "handler") /\ Serves(h, "CreateOrder")
  /\ \/ MapPanics(basket) /\ Becomes(h, "panic", "ok") /\ UNCHANGED <<vars, totals>>
     \/ /\ ~ MapPanics(basket) /\ ~ validateItems(basket)
        /\ Returns(h, "ERR_INVALID_INPUT")
     \/ /\ ~ MapPanics(basket) /\ validateItems(basket)
        /\ \E o \in Orders : \E total \in calcTotalUSD(basket) :
             /\ CreateOrder(h, o)
             /\ totals' = [totals EXCEPT ![o] = total]
        /\ Becomes(h, "tx", "ok")

\* order_id is empty; or there is no such row, or the query has failed.
NoOrder(h) == Returns(h, "ERR_INVALID_INPUT") \/ Returns(h, "ERR_NOT_FOUND")

HandleGetOrder(h) ==
  /\ In(h, "handler") /\ Serves(h, "GetOrder")
  /\ NoOrder(h) \/ ((\E o \in Orders : orders[o] # NoRow) /\ Returns(h, "ok"))

\* Variant: no return after the refusal.
HandleMarkOrderPaidFallsThrough(h) ==
  /\ In(h, "handler") /\ Serves(h, "MarkOrderPaid")
  /\ \E o \in Orders : MarkOrderPaid(h, o)
  /\ Becomes(h, "tx", "ok")
  /\ UNCHANGED totals

HandleMarkOrderPaid(h) ==
  /\ In(h, "handler") /\ Serves(h, "MarkOrderPaid")
  /\ \/ NoOrder(h)
     \/ /\ \E o \in Orders : MarkOrderPaid(h, o)
        /\ IF handler'[h] # Idle THEN Becomes(h, "tx", "ok")
                                 ELSE Becomes(h, "return", "ERR_INVALID_ORDER_STATE")
        /\ UNCHANGED totals

HandleCancelOrder(h) ==
  /\ In(h, "handler") /\ Serves(h, "CancelOrder")
  /\ \/ NoOrder(h)
     \/ /\ \E o \in Orders :
             /\ CancelOrder(h, o)
             /\ CASE orders[o] = "CREATED" -> Becomes(h, "tx", "ok")
                  [] orders[o] = "CANCELLED" -> Becomes(h, "return", "ok")
                  [] orders[o] = "PAID" -> Becomes(h, "return", "ERR_INVALID_ORDER_STATE")
        /\ UNCHANGED totals

\* What a call does in its handler before it writes, if it does.
Handle(h) ==
  /\ HandleCreateOrder(h) \/ HandleGetOrder(h) \/ HandleMarkOrderPaid(h) \/ HandleCancelOrder(h)
  /\ UNCHANGED ordersTotal

\* Variant: counted before the error is looked at.
WrittenOrNot(h, r) == Becomes(h, "inc", r)

\* What follows writeWithOutbox: the counter, or the answer if it has failed.
Written(h, r) == Becomes(h, IF r = "ok" THEN "inc" ELSE "return", r)

\* writeWithOutbox returns nil, or an error although it may have committed.
Transact(h) ==
  /\ In(h, "tx")
  /\ WriteWithOutbox(h)
  /\ \/ /\ outbox' # outbox /\ <<handler[h].op, handler[h].order, "OK">> \in replies'
        /\ Written(h, "ok")
     \/ replies' = replies /\ Written(h, "ERR_INTERNAL")
  /\ UNCHANGED <<totals, ordersTotal>>

\* What a method writes, and which counter is its own.
EventOf == [CreateOrder |-> "OrderCreated", MarkOrderPaid |-> "OrderPaid",
            CancelOrder |-> "OrderCancelled"]

\* The business counter moves after the transaction has returned.
Inc(h) ==
  /\ In(h, "inc")
  /\ ordersTotal' = [ordersTotal EXCEPT ![EventOf[call[h].method]] = @ + 1]
  /\ Returns(h, call[h].result)

\* Variant: an error the switch does not know is taken for a refusal.
mapErrorToRefusal(r) ==
  CASE r = "ok" -> "OK"
    [] r = "ERR_NOT_FOUND" -> "NotFound"
    [] r = "ERR_INVALID_INPUT" -> "InvalidArgument"
    [] OTHER -> "FailedPrecondition"

mapError(r) ==
  CASE r = "ok" -> "OK"
    [] r = "ERR_NOT_FOUND" -> "NotFound"
    [] r = "ERR_INVALID_INPUT" -> "InvalidArgument"
    [] r = "ERR_INVALID_ORDER_STATE" -> "FailedPrecondition"
    [] OTHER -> "Internal"

\* The answer to h's call is sent, and the client may still be waiting for it.
Reply(h, code) ==
  /\ call' = [call EXCEPT ![h] = NoCall]
  /\ told' = (told \/ (Awaits(h) /\ code = "OK"))
  /\ unsure' = IF Awaits(h) /\ code = "Internal" THEN unsure + 1 ELSE unsure
  /\ UNCHANGED <<vars, totals, basket, calls, ordersTotal, epoch, crashes>>

\* The metrics interceptor, after the handler has returned.
Count(code) == requestsTotal' = [requestsTotal EXCEPT ![code] = @ + 1]

Return(h) ==
  /\ In(h, "return")
  /\ Count(mapError(call[h].result))
  /\ Reply(h, mapError(call[h].result))

\* The process ends: the tables are all that is left of it.
Die ==
  /\ handler' = [h \in Handlers |-> Idle]
  /\ call' = [h \in Handlers |-> NoCall]
  /\ unsure' = unsure + Cardinality({h \in Handlers : Awaits(h)})
  /\ requestsTotal' = Zero(Codes) /\ ordersTotal' = Zero(EventTypes)
  /\ epoch' = Len(outbox)
  /\ UNCHANGED <<orders, outbox, replies, totals, basket, told, calls>>

\* The recovery interceptor answers Internal; the metrics interceptor, inside
\* of it, was unwound by the panic.
Recover(h) ==
  /\ In(h, "panic")
  /\ Reply(h, "Internal")
  /\ UNCHANGED requestsTotal

\* The client's deadline passes; the goroutine runs on with a cancelled context,
\* which its transaction may or may not notice in time.
GiveUp(h) ==
  /\ Awaits(h)
  /\ call' = [call EXCEPT ![h].abandoned = TRUE]
  /\ unsure' = unsure + 1
  /\ UNCHANGED <<vars, totals, basket, told, calls, metrics, crashes>>

APICrash == crashes < MaxCrashes /\ crashes' = crashes + 1 /\ Die

APINext ==
  \/ \E h \in Handlers : \/ \E method \in Methods : Dispatch(h, method)
                         \/ Handle(h) \/ Transact(h) \/ Inc(h)
                         \/ Return(h) \/ Recover(h) \/ GiveUp(h)
  \/ APICrash

APISpec == APIInit /\ [][APINext]_apiVars

-----------------------------------------------------------------------------
Rows == {o \in Orders : orders[o] # NoRow}

\* calcTotalUSD against exact arithmetic: the total of a stored order is what
\* its items cost, less at most one unit for every line, give or take what the
\* float64 products are off; provided that nothing has wrapped around, which
\* nothing in the code prevents.
TotalsAreSound ==
  \A o \in Rows :
    InRange(basket) =>
      /\ totals[o] >= 0
      /\ 1000 * totals[o] \in
           ExactTotal(basket) - Deviation(basket) - 1000 * Len(basket)
             .. ExactTotal(basket) + Deviation(basket)

\* validateItems wants every quantity and every price positive, and yet a stored
\* order may cost nothing (hazard: calcTotalUSD cuts off every line).  It does
\* only if each of its lines is in RUB and worth less than one unit.
FreeOrdersAreSmall ==
  \A o \in Rows :
    InRange(basket) /\ totals[o] = 0 =>
      \A i \in DOMAIN basket :
        basket[i].currency = "RUB" /\ basket[i].amount * basket[i].quantity * StaticRates["RUB"] < 1000

\* CreateOrder draws a new id for every call, so a client that repeats it may
\* order twice: but only if it was left without an answer, or told Internal.
\* A refusal means that nothing was stored.
DuplicatesAreUnsure == Cardinality(Rows) <= 1 + unsure

\* orders_created_total, orders_paid_total and orders_cancelled_total count the
\* events this process has committed; they fall short only by those whose calls
\* are between COMMIT and counter, and by transactions that were reported as
\* failed, which order_grpc_requests_total counts as Internal.
CountersFallShort ==
  \A t \in EventTypes :
    LET stored == Cardinality({i \in epoch + 1 .. Len(outbox) : outbox[i].type = t})
        late == Cardinality({h \in Handlers : In(h, "inc") /\ EventOf[call[h].method] = t})
        failed == requestsTotal["Internal"]
                  + Cardinality({h \in Handlers : In(h, "return") /\ call[h].result = "ERR_INTERNAL"})
    IN  ordersTotal[t] + late <= stored /\ stored <= ordersTotal[t] + late + failed
=============================================================================
