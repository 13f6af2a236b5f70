------------------------ MODULE BillingConsumerProofs ------------------------
(***************************************************************************)
(* BillingConsumer, proved for any finite set of orders and any number of  *)
(* messages, attempts and disruptions.                                     *)
(*                                                                         *)
(* A consumer acts on what it has found out one or more calls ago, while   *)
(* the others write to the same tables.  The invariant says, by the call   *)
(* that a consumer makes next, what is still true of the message it has in *)
(* hand: WritesAreCurrent before the write, and FinishedHasEffect after    *)
(* the handler.  The gauge has an invariant of its own, GaugeIsNear.       *)
(***************************************************************************)
EXTENDS BillingConsumer, FiniteSetTheorems, SequenceTheorems, TLAPS

Settled == {"PAID", "CANCELLED"}

\* The message at offset i of topic t needs no further delivery.
DealtWith(t, i) == Applied(t, log[t][i].order) \/ GivenUp(t, eventID(t, i))

\* What a settlement consumer has read is true, or outdated by the other one.
WritesAreCurrent ==
  \A t \in Settlements :
    At(t, "write") =>
      LET o == Current(t).order IN
      \/ invoices[o] = "PENDING"
      \/ Contended(o) /\ invoices[o] \in Settled \ {InvoiceAfter[t]}

\* Where the handler of the message in hand has returned no error.
Finished == {"dec", "inc", "save", "commit"}

\* A message is dealt with when its handler is done.  So is all that the group
\* has committed, all that the reader has handed out before, and all that is
\* older than the message in hand, wherever a rebalance puts the reader.
FinishedHasEffect ==
  \A t \in EventTypes :
    /\ \A i \in 1 .. committed[t] : DealtWith(t, i)
    /\ \A i \in 1 .. position[t] : i = consumer[t].offset \/ DealtWith(t, i)
    /\ \A i \in 1 .. consumer[t].offset :
         i < consumer[t].offset \/ consumer[t].pc \in Finished => DealtWith(t, i)

\* An event id is saved for a message only.
ProcessedIsKnown ==
  \A id \in processed : \E t \in EventTypes : \E i \in DOMAIN log[t] : eventID(t, i) = id

IInv ==
  /\ TypeOK
  /\ WritesAreCurrent
  /\ FinishedHasEffect
  /\ ProcessedIsKnown
  /\ ProcessedHasEffect

\* An order whose two settlements are both behind it.
Exhausted ==
  {o \in Orders : /\ Contended(o) /\ invoices[o] \in Settled
                  /\ \A t \in Settlements : At(t, "write") => Current(t).order # o}

\* A consumer that cannot write any more before a process that is shutting
\* down is gone.
Spent ==
  {t \in EventTypes :
     IF t = "OrderCreated"
     THEN consumer[t].pc \in {"exists", "get", "write"} => invoices[Current(t).order] # NoRow
     ELSE ~ At(t, "write")}

\* The topics and the odd messages on them are within their bounds.
MessagesAreCounted ==
  /\ \A t \in EventTypes : Len(log[t]) <= MaxMessages
  /\ Arrived <= MaxMessages
  /\ Cardinality(OddMessages) <= disruptions

\* x is in -d .. d.
OffBy(x, d) == -d <= x /\ x <= d

Allowance ==
  Failures + Cardinality(Exhausted) + (IF stopping THEN Cardinality(Spent) ELSE 0)

\* Where a write has returned and the gauge has not followed it yet.
Behind == {"dec", "inc"}

\* What consumer t is still going to do to the gauge of status s.
Owed(t, s) ==
  (IF s = InvoiceAfter[t] /\ consumer[t].pc \in Behind THEN 1 ELSE 0)
    - (IF s = "PENDING" /\ consumer[t].pc = "dec" THEN 1 ELSE 0)

\* What the gauge will be then, and how far that is from the table.
Due(s) == gauge[s] + Owed("OrderCreated", s) + Owed("OrderPaid", s) + Owed("OrderCancelled", s)

DueDrift(s) == Due(s) - (Count(invoices, s) - Count(baseline, s))

GaugeIsNear == \A s \in InvoiceStatus : OffBy(DueDrift(s), Allowance)

GInv ==
  /\ IInv
  /\ MessagesAreCounted
  /\ GaugeIsNear

-----------------------------------------------------------------------------
(* The messages and the invoices.                                          *)

LEMMA EventFacts ==
  /\ EventTypes = Settlements \cup {"OrderCreated"} /\ "OrderCreated" \notin Settlements
  /\ InvoiceAfter["OrderCreated"] = "PENDING"
  /\ \A t \in Settlements : InvoiceAfter[t] \in Settled
  /\ \A t \in EventTypes : InvoiceAfter[t] \in InvoiceStatus
  /\ Settled \subseteq InvoiceStatus /\ "PENDING" \in InvoiceStatus \ Settled
  /\ NoRow \notin InvoiceStatus
  BY DEF EventTypes, Settlements, InvoiceAfter, Settled, InvoiceStatus, NoRow

\* The two settlement types and their statuses.
LEMMA TwoSettlements ==
  ASSUME NEW t \in Settlements, NEW u \in Settlements, t # u
  PROVE  /\ Settlements = {t, u}
         /\ Settled = {InvoiceAfter[t], InvoiceAfter[u]} /\ InvoiceAfter[t] # InvoiceAfter[u]
  BY DEF EventTypes, Settlements, InvoiceAfter, Settled

\* The two tables of a consumer group and its goroutine.
LEMMA ConsumerFacts ==
  ASSUME TypeOK, NEW t \in EventTypes
  PROVE  /\ log[t] \in Seq(Message) /\ Len(log[t]) \in Nat /\ DOMAIN log[t] = 1 .. Len(log[t])
         /\ \A i \in DOMAIN log[t] :
              i \in Nat \ {0} /\ log[t][i] \in Message /\ log[t][i].order \in Orders
         /\ position[t] \in 0 .. Len(log[t]) /\ committed[t] \in 0 .. Len(log[t])
         /\ consumer[t] \in Consumer /\ consumer[t].pc \in PC
         /\ consumer[t].offset \in 0 .. Len(log[t])
         /\ consumer[t].offset = 0 <=> consumer[t].pc = "fetch"
<1>1. log[t] \in Seq(Message) /\ consumer[t] \in Consumer
  BY DEF TypeOK
<1>2. Len(log[t]) \in Nat /\ DOMAIN log[t] = 1 .. Len(log[t])
  BY <1>1, LenProperties
<1>3. ASSUME NEW i \in DOMAIN log[t]
      PROVE  i \in Nat \ {0} /\ log[t][i] \in Message /\ log[t][i].order \in Orders
  <2>1. i \in Nat \ {0} /\ log[t][i] \in Message
    BY <1>1, <1>2, ElementOfSeq
  <2> QED
    BY <2>1 DEF Message
<1> QED
  BY <1>1, <1>2, <1>3 DEF TypeOK, Consumer

\* The message in hand is on the topic.
LEMMA CurrentFacts ==
  ASSUME TypeOK, NEW t \in EventTypes, ~ At(t, "fetch")
  PROVE  /\ consumer[t].offset \in DOMAIN log[t] /\ consumer[t].offset \in Nat \ {0}
         /\ Current(t) \in Message /\ Current(t).order \in Orders
         /\ Current(t) = log[t][consumer[t].offset]
<1>1. consumer[t].offset \in DOMAIN log[t]
  BY ConsumerFacts DEF At
<1> QED
  BY <1>1, ConsumerFacts DEF Current

\* An event id names its topic, and the order or the offset.
LEMMA SameEvent ==
  ASSUME NEW t \in EventTypes, NEW u \in EventTypes, NEW i, NEW j, eventID(t, i) = eventID(u, j)
  PROVE  t = u /\ (i = j \/ (log[t][i].kind # "bare" /\ log[t][i].order = log[u][j].order))
  BY DEF eventID

\* What it takes for an invoice to show the effect of an event.
LEMMA AppliedMeans ==
  ASSUME NEW t \in EventTypes, NEW o
  PROVE  /\ t = "OrderCreated" => (Applied(t, o) <=> invoices[o] \in InvoiceStatus)
         /\ t \in Settlements /\ Contended(o) => (Applied(t, o) <=> invoices[o] \in Settled)
         /\ t \in Settlements /\ ~ Contended(o) => (Applied(t, o) <=> invoices[o] = InvoiceAfter[t])
  BY DEF Applied, Settlements, EventTypes, Settled

\* The same, of an invoice and topics that a step may have changed.
LEMMA AppliedMeansNext ==
  ASSUME NEW t \in EventTypes, NEW o
  PROVE  /\ t = "OrderCreated" => (Applied(t, o)' <=> invoices'[o] \in InvoiceStatus)
         /\ t \in Settlements /\ Contended(o)' => (Applied(t, o)' <=> invoices'[o] \in Settled)
         /\ t \in Settlements /\ ~ Contended(o)' => (Applied(t, o)' <=> invoices'[o] = InvoiceAfter[t])
  BY DEF Applied, Settlements, EventTypes, Settled, InvoiceStatus, InvoiceAfter

\* What a write does, and whose it is.
LEMMA WriteFacts ==
  ASSUME TypeOK, NEW t \in EventTypes, At(t, "write"), SetInvoice(t)
  PROVE  /\ Current(t).order \in Orders
         /\ invoices' \in [Orders -> InvoiceStatus \cup {NoRow}]
         /\ invoices'[Current(t).order] = InvoiceAfter[t]
         /\ \A o \in Orders : o # Current(t).order => invoices'[o] = invoices[o]
         /\ t = "OrderCreated" => invoices[Current(t).order] = NoRow
<1>1. Current(t).order \in Orders
  BY CurrentFacts DEF At
<1> QED
  BY <1>1, EventFacts DEF SetInvoice, Writable, TypeOK

\* No write takes the effect of an event away: a second settlement is of an
\* order that is settled twice.
LEMMA AppliedStays ==
  ASSUME TypeOK, log' = log,
         \/ invoices' = invoices
         \/ \E t \in EventTypes : At(t, "write") /\ SetInvoice(t),
         NEW u \in EventTypes, NEW i \in DOMAIN log[u], Applied(u, log[u][i].order)
  PROVE  Applied(u, log[u][i].order)'
<1> DEFINE o == log[u][i].order
<1>0. o \in Orders
  BY ConsumerFacts
<1>1. Contended(o)' <=> Contended(o)
  BY DEF Contended
<1>2. log'[u][i].order = o
  OBVIOUS
<1>3. CASE invoices'[o] = invoices[o]
  BY <1>1, <1>2, <1>3, AppliedMeans, AppliedMeansNext, EventFacts
<1>4. CASE invoices'[o] # invoices[o]
  <2>1. PICK t \in EventTypes : At(t, "write") /\ SetInvoice(t)
    BY <1>4
  <2>2. /\ o = Current(t).order /\ invoices'[o] = InvoiceAfter[t]
        /\ t = "OrderCreated" => invoices[o] = NoRow
    BY <1>0, <1>4, <2>1, WriteFacts
  <2>3. t \in Settlements
    BY <2>2, AppliedMeans, EventFacts
  <2>4. consumer[t].offset \in DOMAIN log[t] /\ log[t][consumer[t].offset].order = o
    BY <2>1, <2>2, CurrentFacts DEF At
  <2>5. CASE u = "OrderCreated"
    BY <1>2, <2>2, <2>5, AppliedMeansNext, EventFacts
  <2>6. CASE u = t
    BY <1>1, <1>2, <2>2, <2>3, <2>6, AppliedMeansNext, EventFacts
  <2>7. CASE u \in Settlements /\ u # t
    <3>1. Contended(o)
      BY <2>3, <2>4, <2>7, TwoSettlements DEF Contended
    <3> QED
      BY <1>1, <1>2, <2>2, <2>3, <2>7, <3>1, AppliedMeansNext, EventFacts
  <2> QED
    BY <2>5, <2>6, <2>7, EventFacts
<1> QED
  BY <1>3, <1>4

\* What is dealt with stays so.
LEMMA DealtStays ==
  ASSUME TypeOK, log' = log,
         \/ invoices' = invoices
         \/ \E t \in EventTypes : At(t, "write") /\ SetInvoice(t),
         dlq \subseteq dlq', lost \subseteq lost',
         NEW u \in EventTypes, NEW i \in DOMAIN log[u], DealtWith(u, i)
  PROVE  DealtWith(u, i)'
<1>1. GivenUp(u, eventID(u, i)) => GivenUp(u, eventID(u, i))'
  BY DEF GivenUp, eventID
<1> QED
  BY <1>1, AppliedStays DEF DealtWith

-----------------------------------------------------------------------------
(* The steps of a consumer.                                                *)

\* A step within processMessage of topic t, whose message in hand is at offset
\* n: the rest of the invariant follows from what the next call takes for granted.
LEMMA WithinIInv ==
  ASSUME IInv, NEW t \in EventTypes, ~ At(t, "fetch"), NEW n \in Nat, n = consumer[t].offset,
         NEW c \in Consumer, consumer' = [consumer EXCEPT ![t] = c],
         c.offset = IF c.pc = "fetch" THEN 0 ELSE n,
         UNCHANGED <<log, position, baseline, stopping>>,
         \/ committed' = committed
         \/ committed' = [committed EXCEPT ![t] = n] /\ At(t, "commit"),
         invoices' = invoices \/ (At(t, "write") /\ SetInvoice(t)),
         \/ processed' = processed
         \/ At(t, "save") /\ processed' = processed \cup {CurrentID(t)},
         dlq \subseteq dlq', lost \subseteq lost', dlq' \subseteq Offsets, lost' \subseteq Offsets,
         gauge' \in [InvoiceStatus -> Int], disruptions' \in 0 .. MaxDisruptions,
         c.pc = "write" =>
           invoices' = invoices /\ (t \in Settlements => invoices[Current(t).order] = "PENDING"),
         c.pc \in Finished \cup {"fetch"} => DealtWith(t, n)'
  PROVE  IInv'
<1>1. TypeOK /\ WritesAreCurrent /\ FinishedHasEffect /\ ProcessedIsKnown /\ ProcessedHasEffect
  BY DEF IInv
<1>2. n \in DOMAIN log[t] /\ n \in Nat \ {0} /\ Current(t).order \in Orders /\ Current(t) = log[t][n]
  BY <1>1, CurrentFacts
<1>3. /\ consumer' \in [EventTypes -> Consumer]
      /\ consumer'[t] = c /\ \A u \in EventTypes : u # t => consumer'[u] = consumer[u]
  BY <1>1 DEF TypeOK
<1>4. CurrentID(t) \in EventIds
  BY <1>2 DEF CurrentID, eventID, EventIds
<1>5. TypeOK'
  <2>1. invoices' \in [Orders -> InvoiceStatus \cup {NoRow}]
    BY <1>1, WriteFacts DEF TypeOK
  <2>2. processed' \subseteq EventIds
    BY <1>1, <1>4 DEF TypeOK
  <2>3. committed' \in [EventTypes -> Nat] /\ \A u \in EventTypes : committed'[u] \in 0 .. Len(log[u])
    <3>1. CASE committed' = committed
      BY <1>1, <3>1, ConsumerFacts DEF TypeOK
    <3>2. CASE committed' = [committed EXCEPT ![t] = n]
      <4>1. n \in 0 .. Len(log[t])
        BY <1>1, ConsumerFacts
      <4> QED
        BY <1>1, <3>2, <4>1, ConsumerFacts DEF TypeOK
    <3> QED
      BY <3>1, <3>2
  <2>4. \A u \in EventTypes : /\ position[u] \in 0 .. Len(log[u])
                              /\ consumer'[u].offset \in 0 .. Len(log[u])
                              /\ consumer'[u].offset = 0 <=> consumer'[u].pc = "fetch"
    BY <1>1, <1>2, <1>3, ConsumerFacts
  <2> QED
    BY <1>1, <1>3, <2>1, <2>2, <2>3, <2>4 DEF TypeOK
<1>6. ASSUME NEW u \in EventTypes, u # t PROVE Current(u)' = Current(u)
  BY <1>3, <1>6 DEF Current
<1>7. c.pc # "fetch" => Current(t)' = Current(t)
  BY <1>2, <1>3 DEF Current
<1>8. ASSUME NEW o PROVE Contended(o)' <=> Contended(o)
  BY DEF Contended
<1>9. WritesAreCurrent'
  <2> SUFFICES ASSUME NEW u \in Settlements, consumer'[u].pc = "write"
               PROVE  \/ invoices'[Current(u)'.order] = "PENDING"
                      \/ /\ Contended(Current(u)'.order)
                         /\ invoices'[Current(u)'.order] \in Settled \ {InvoiceAfter[u]}
    BY <1>8, EventFacts DEF WritesAreCurrent, At
  <2>1. CASE u = t
    BY <1>3, <1>7, <2>1
  <2>2. CASE u # t
    <3>1. At(u, "write") /\ u \in EventTypes /\ ~ At(u, "fetch") /\ Current(u)' = Current(u)
      BY <1>3, <1>6, <2>2, EventFacts DEF At
    <3>2. /\ consumer[u].offset \in DOMAIN log[u] /\ Current(u) = log[u][consumer[u].offset]
          /\ Current(u).order \in Orders
      BY <1>1, <3>1, CurrentFacts
    <3>3. \/ invoices[Current(u).order] = "PENDING"
          \/ /\ Contended(Current(u).order)
             /\ invoices[Current(u).order] \in Settled \ {InvoiceAfter[u]}
      BY <1>1, <3>1 DEF WritesAreCurrent
    <3>4. CASE invoices'[Current(u).order] = invoices[Current(u).order]
      BY <3>1, <3>3, <3>4
    <3>5. CASE invoices'[Current(u).order] # invoices[Current(u).order]
      <4>1. /\ At(t, "write") /\ SetInvoice(t) /\ Current(u).order = Current(t).order
            /\ invoices'[Current(u).order] = InvoiceAfter[t]
            /\ t = "OrderCreated" => invoices[Current(u).order] = NoRow
        BY <1>1, <3>2, <3>5, WriteFacts
      <4>2. t \in Settlements
        BY <3>3, <4>1, EventFacts
      <4>3. log[t][n].order = Current(u).order
        BY <1>2, <4>1
      <4>4. Contended(Current(u).order)
        BY <1>2, <2>2, <3>2, <4>2, <4>3, TwoSettlements DEF Contended
      <4> QED
        BY <2>2, <3>1, <4>1, <4>2, <4>4, TwoSettlements
    <3> QED
      BY <3>4, <3>5
  <2> QED
    BY <2>1, <2>2
<1>10. ASSUME NEW u \in EventTypes, NEW i \in DOMAIN log[u], DealtWith(u, i)
       PROVE  DealtWith(u, i)'
  BY <1>1, <1>10, DealtStays
<1>11. FinishedHasEffect'
  <2> SUFFICES ASSUME NEW u \in EventTypes
               PROVE  /\ \A i \in 1 .. committed'[u] : DealtWith(u, i)'
                      /\ \A i \in 1 .. position[u] : i = consumer'[u].offset \/ DealtWith(u, i)'
                      /\ \A i \in 1 .. consumer'[u].offset :
                           i < consumer'[u].offset \/ consumer'[u].pc \in Finished => DealtWith(u, i)'
    BY DEF FinishedHasEffect
  <2>1. /\ \A i \in 1 .. committed[u] : i \in DOMAIN log[u] /\ DealtWith(u, i)
        /\ \A i \in 1 .. position[u] :
             i \in DOMAIN log[u] /\ (i = consumer[u].offset \/ DealtWith(u, i))
        /\ \A i \in 1 .. consumer[u].offset :
             /\ i \in DOMAIN log[u]
             /\ i < consumer[u].offset \/ consumer[u].pc \in Finished => DealtWith(u, i)
    BY <1>1, ConsumerFacts DEF FinishedHasEffect
  <2>2. CASE u # t
    <3>1. consumer'[u] = consumer[u] /\ committed'[u] = committed[u]
      BY <1>1, <1>3, <2>2 DEF TypeOK
    <3> QED
      BY <1>10, <2>1, <3>1
  <2>3. CASE u = t
    <3>1. ASSUME NEW i \in 1 .. n, i < n \/ At(t, "commit") PROVE DealtWith(t, i)'
      BY <1>10, <2>1, <2>3, <3>1 DEF At, Finished
    <3>2. \A i \in 1 .. committed'[t] : DealtWith(t, i)'
      <4>1. CASE committed' = committed
        BY <1>10, <2>1, <2>3, <4>1
      <4>2. CASE committed' = [committed EXCEPT ![t] = n] /\ At(t, "commit")
        <5>1. committed'[t] = n
          BY <1>1, <4>2 DEF TypeOK
        <5> QED
          BY <3>1, <4>2, <5>1
      <4> QED
        BY <4>1, <4>2
    <3>3. ASSUME NEW i \in 1 .. position[t] PROVE i = c.offset \/ DealtWith(t, i)'
      <4>1. CASE i = n
        BY <4>1
      <4>2. CASE i # n
        BY <1>10, <2>1, <2>3, <4>2
      <4> QED
        BY <4>1, <4>2
    <3>4. ASSUME NEW i \in 1 .. c.offset, i < c.offset \/ c.pc \in Finished PROVE DealtWith(t, i)'
      <4>1. c.pc # "fetch" /\ c.offset = n /\ i \in 1 .. n
        BY <3>4
      <4>2. CASE i < n
        BY <3>1, <4>1, <4>2
      <4>3. CASE ~ (i < n)
        <5>1. i = n
          BY <4>1, <4>3
        <5> QED
          BY <3>4, <4>1, <5>1
      <4> QED
        BY <4>2, <4>3
    <3> QED
      BY <1>3, <2>3, <3>2, <3>3, <3>4
  <2> QED
    BY <2>2, <2>3
<1>12. ASSUME NEW u \in EventTypes, NEW i PROVE eventID(u, i)' = eventID(u, i)
  BY DEF eventID
<1>13. ProcessedIsKnown'
  <2>1. \E u \in EventTypes : \E i \in DOMAIN log[u] : eventID(u, i) = CurrentID(t)
    BY <1>2 DEF CurrentID
  <2> QED
    BY <1>1, <1>12, <2>1 DEF ProcessedIsKnown
<1>14. ProcessedHasEffect'
  <2> SUFFICES ASSUME NEW u \in EventTypes, NEW i \in DOMAIN log[u], eventID(u, i) \in processed'
               PROVE  DealtWith(u, i)'
    BY <1>12 DEF ProcessedHasEffect, DealtWith
  <2>1. CASE eventID(u, i) \in processed
    BY <1>1, <1>10, <2>1 DEF ProcessedHasEffect, DealtWith
  <2>2. CASE eventID(u, i) \notin processed
    <3>1. At(t, "save") /\ eventID(u, i) = eventID(t, n)
      BY <2>2 DEF CurrentID
    <3>2. u = t /\ (i = n \/ log[u][i].order = log[t][n].order)
      BY <3>1, SameEvent
    <3>3. DealtWith(t, n)
      BY <1>1, <1>2, <3>1 DEF FinishedHasEffect, Finished, At
    <3>4. DealtWith(u, i)
      BY <3>1, <3>2, <3>3 DEF DealtWith
    <3> QED
      BY <1>10, <3>4
  <2> QED
    BY <2>1, <2>2
<1> QED
  BY <1>5, <1>9, <1>11, <1>13, <1>14 DEF IInv

\* Where a consumer goes next, with the same message in hand or with none.
Moved(t, pcs) ==
  \E c \in Consumer : /\ consumer' = [consumer EXCEPT ![t] = c] /\ c.pc \in pcs
                      /\ c.offset = IF c.pc = "fetch" THEN 0 ELSE consumer[t].offset

LEMMA GotoMoves ==
  ASSUME TypeOK, NEW t \in EventTypes, NEW p \in PC \ {"fetch"}, Goto(t, p)
  PROVE  Moved(t, {p})
<1> DEFINE k == IF p \in {"get", "write"} THEN consumer[t].tries ELSE 0
           c == [pc |-> p, tries |-> k, offset |-> consumer[t].offset]
<1>1. consumer[t] \in Consumer /\ k \in 0 .. Attempts
  BY ConsumerFacts, ConsumerAssumption DEF Consumer
<1>2. c \in Consumer /\ c.pc = p /\ c.offset = consumer[t].offset
  BY <1>1 DEF Consumer
<1>3. consumer' = [consumer EXCEPT ![t] = c]
  BY DEF Goto
<1> QED
  BY <1>2, <1>3 DEF Moved

LEMMA ReturnMoves ==
  ASSUME NEW t \in EventTypes, Return(t)
  PROVE  Moved(t, {"fetch"})
<1>1. AtFetch \in Consumer /\ AtFetch.pc = "fetch" /\ AtFetch.offset = 0
  BY ConsumerAssumption DEF AtFetch, PC, Consumer
<1> QED
  BY <1>1 DEF Return, Moved

LEMMA FailedMoves ==
  ASSUME TypeOK, NEW t \in EventTypes, AttemptFailed(t)
  PROVE  Moved(t, {"get", "dlq"})
<1> DEFINE k == consumer[t].tries
           o == consumer[t].offset
           c == IF k + 1 < Attempts THEN [pc |-> "get", tries |-> k + 1, offset |-> o]
                                    ELSE [pc |-> "dlq", tries |-> 0, offset |-> o]
<1>1. consumer[t] \in Consumer /\ k \in 0 .. Attempts
  BY ConsumerFacts DEF Consumer
<1>2. c \in Consumer /\ c.pc \in {"get", "dlq"} /\ c.offset = o
  BY <1>1, ConsumerAssumption DEF PC, Consumer
<1>3. consumer' = [consumer EXCEPT ![t] = c]
  BY DEF AttemptFailed
<1> QED
  BY <1>2, <1>3 DEF Moved

\* A call that succeeds or fails leaves the disruptions within their bound.
LEMMA Disruptions ==
  ASSUME TypeOK, Succeeds \/ Fails \/ disruptions' = disruptions
  PROVE  disruptions' \in 0 .. MaxDisruptions
  BY ConsumerAssumption DEF TypeOK, Succeeds, Fails, Disrupt

\* Send hands the message in hand to the DLQ, where it arrives or is lost.
LEMMA SendDeals ==
  ASSUME TypeOK, NEW t \in EventTypes, ~ At(t, "fetch"), NEW n \in Nat, n = consumer[t].offset,
         Send(t), UNCHANGED log
  PROVE  /\ dlq \subseteq dlq' /\ lost \subseteq lost' /\ dlq' \subseteq Offsets /\ lost' \subseteq Offsets
         /\ disruptions' \in 0 .. MaxDisruptions
         /\ UNCHANGED <<invoices, processed>>
         /\ DealtWith(t, n)'
<1>1. n \in DOMAIN log[t] /\ <<t, n>> \in Offsets
  BY CurrentFacts DEF Offsets
<1>2. /\ dlq \subseteq dlq' /\ lost \subseteq lost' /\ dlq' \subseteq Offsets /\ lost' \subseteq Offsets
      /\ <<t, n>> \in dlq' \cup lost' /\ UNCHANGED <<invoices, processed>>
  BY <1>1 DEF Send, TypeOK
<1>3. disruptions' \in 0 .. MaxDisruptions
  BY Disruptions DEF Send
<1>4. GivenUp(t, eventID(t, n))'
  BY <1>1, <1>2 DEF GivenUp, eventID
<1> QED
  BY <1>2, <1>3, <1>4 DEF DealtWith

\* Exists, and the commit of an event that was processed before.
LEMMA ExistsIInv ==
  ASSUME IInv, NEW t \in EventTypes, Exists(t)
  PROVE  IInv'
<1>1. TypeOK /\ ~ At(t, "fetch") /\ ~ At(t, "write")
  BY DEF IInv, Exists, At
<1>2. /\ UNCHANGED <<log, position, baseline, stopping, committed, invoices, processed, dlq, lost, gauge>>
      /\ disruptions' \in 0 .. MaxDisruptions
  BY <1>1, Disruptions DEF Exists, Within, stores
<1>3. PICK n \in DOMAIN log[t] : n = consumer[t].offset /\ n \in Nat
  BY <1>1, CurrentFacts
<1>4. PICK p \in {"get", "commit"} : Goto(t, p) /\ (p = "commit" => CurrentID(t) \in processed)
  BY DEF Exists
<1>5. PICK c \in Consumer : /\ consumer' = [consumer EXCEPT ![t] = c] /\ c.pc = p
                            /\ c.offset = IF c.pc = "fetch" THEN 0 ELSE n
  BY <1>1, <1>3, <1>4, GotoMoves DEF Moved, PC
<1>6. p = "commit" => DealtWith(t, n)
  BY <1>3, <1>4 DEF IInv, ProcessedHasEffect, CurrentID, DealtWith
<1>7. p = "commit" => DealtWith(t, n)'
  BY <1>1, <1>2, <1>3, <1>6, DealtStays
<1> QED
  BY <1>1, <1>2, <1>3, <1>4, <1>5, <1>7, WithinIInv DEF IInv, TypeOK, Finished

LEMMA CancelledIInv ==
  ASSUME IInv, NEW t \in EventTypes, RetryCancelled(t)
  PROVE  IInv'
<1>1. TypeOK /\ ~ At(t, "fetch") /\ ~ At(t, "write")
  BY DEF IInv, RetryCancelled, At
<1>2. UNCHANGED <<log, position, baseline, stopping, committed, invoices, processed, dlq, lost, gauge,
                  disruptions>>
  BY DEF RetryCancelled, Within, stores
<1>3. PICK n \in Nat : n = consumer[t].offset
  BY <1>1, CurrentFacts
<1>4. PICK c \in Consumer : /\ consumer' = [consumer EXCEPT ![t] = c] /\ c.pc = "dlq"
                            /\ c.offset = IF c.pc = "fetch" THEN 0 ELSE n
  BY <1>1, <1>3, GotoMoves DEF RetryCancelled, Moved, PC
<1> QED
  BY <1>1, <1>2, <1>3, <1>4, WithinIInv DEF IInv, TypeOK, Finished

\* A message without a usable payload, and one whose attempts are used up.
LEMMA GiveUpIInv ==
  ASSUME IInv, NEW t \in EventTypes, HandleMalformed(t) \/ DeadLetter(t)
  PROVE  IInv'
<1>1. TypeOK /\ ~ At(t, "fetch") /\ ~ At(t, "write")
  BY DEF IInv, HandleMalformed, DeadLetter, At
<1>2. UNCHANGED <<log, position, baseline, stopping, committed, gauge>> /\ Send(t)
  BY DEF HandleMalformed, DeadLetter, Within
<1>3. PICK n \in Nat : n = consumer[t].offset
  BY <1>1, CurrentFacts
<1>4. PICK p \in {"save", "commit"} : Goto(t, p)
  BY DEF HandleMalformed, DeadLetter
<1>5. PICK c \in Consumer : /\ consumer' = [consumer EXCEPT ![t] = c] /\ c.pc = p
                            /\ c.offset = IF c.pc = "fetch" THEN 0 ELSE n
  BY <1>1, <1>3, <1>4, GotoMoves DEF Moved, PC
<1>6. /\ dlq \subseteq dlq' /\ lost \subseteq lost' /\ dlq' \subseteq Offsets /\ lost' \subseteq Offsets
      /\ disruptions' \in 0 .. MaxDisruptions
      /\ UNCHANGED <<invoices, processed>>
      /\ DealtWith(t, n)'
  BY <1>1, <1>2, <1>3, SendDeals
<1> QED
  BY <1>1, <1>2, <1>3, <1>4, <1>5, <1>6, WithinIInv DEF IInv, TypeOK, Finished

\* What the three handlers make of the row they have read.
LEMMA DecideMeans ==
  ASSUME NEW t \in EventTypes, NEW row, Decide(t, row)
  PROVE  \/ AttemptFailed(t)
         \/ Goto(t, "write") /\ (t \in Settlements => row = "PENDING")
         \/ /\ Goto(t, "save") /\ row # NoRow
            /\ t \in Settlements => row = "CANCELLED" /\ InvoiceAfter[t] = "CANCELLED"
  BY DEF Decide, HandleOrderCreated, HandleOrderPaid, HandleOrderCancelled, EventTypes, Settlements,
         NoRow, InvoiceAfter

\* repo.Get: a handler that is done at once has found the effect there.
LEMMA GetIInv ==
  ASSUME IInv, NEW t \in EventTypes, Get(t)
  PROVE  IInv'
<1>1. TypeOK /\ ~ At(t, "fetch") /\ ~ At(t, "write")
  BY DEF IInv, Get, At
<1>2. /\ UNCHANGED <<log, position, baseline, stopping, committed, invoices, processed, dlq, lost, gauge>>
      /\ disruptions' \in 0 .. MaxDisruptions
  BY <1>1, Disruptions DEF Get, Within, stores
<1>3. PICK n \in DOMAIN log[t] :
        /\ n = consumer[t].offset /\ n \in Nat /\ Current(t) = log[t][n] /\ Current(t).order \in Orders
  BY <1>1, CurrentFacts
<1>4. PICK row : Decide(t, row) /\ row \in {invoices[Current(t).order], NoRow}
  BY DEF Get
<1>5. \/ AttemptFailed(t)
      \/ Goto(t, "write") /\ (t \in Settlements => row = "PENDING")
      \/ /\ Goto(t, "save") /\ row # NoRow
         /\ t \in Settlements => row = "CANCELLED" /\ InvoiceAfter[t] = "CANCELLED"
  BY <1>4, DecideMeans
<1>6. CASE AttemptFailed(t)
  <2>1. PICK c \in Consumer : /\ consumer' = [consumer EXCEPT ![t] = c] /\ c.pc \in {"get", "dlq"}
                              /\ c.offset = IF c.pc = "fetch" THEN 0 ELSE n
    BY <1>1, <1>3, <1>6, FailedMoves DEF Moved
  <2> QED
    BY <1>1, <1>2, <1>3, <2>1, WithinIInv DEF IInv, TypeOK, Finished
<1>7. CASE Goto(t, "write") /\ (t \in Settlements => row = "PENDING")
  <2>1. PICK c \in Consumer : /\ consumer' = [consumer EXCEPT ![t] = c] /\ c.pc = "write"
                              /\ c.offset = IF c.pc = "fetch" THEN 0 ELSE n
    BY <1>1, <1>3, <1>7, GotoMoves DEF Moved, PC
  <2>2. t \in Settlements => invoices[Current(t).order] = "PENDING"
    BY <1>4, <1>7 DEF NoRow
  <2> QED
    BY <1>1, <1>2, <1>3, <2>1, <2>2, WithinIInv DEF IInv, TypeOK, Finished
<1>8. CASE /\ Goto(t, "save") /\ row # NoRow
           /\ t \in Settlements => row = "CANCELLED" /\ InvoiceAfter[t] = "CANCELLED"
  <2>1. PICK c \in Consumer : /\ consumer' = [consumer EXCEPT ![t] = c] /\ c.pc = "save"
                              /\ c.offset = IF c.pc = "fetch" THEN 0 ELSE n
    BY <1>1, <1>3, <1>8, GotoMoves DEF Moved, PC
  <2>2. row = invoices[Current(t).order] /\ row \in InvoiceStatus
    BY <1>1, <1>3, <1>4, <1>8 DEF TypeOK
  <2>3. Applied(t, Current(t).order)
    BY <1>8, <2>2, AppliedMeans, EventFacts
  <2>4. DealtWith(t, n)
    BY <1>3, <2>3 DEF DealtWith
  <2>5. DealtWith(t, n)'
    BY <1>1, <1>2, <1>3, <2>4, DealtStays
  <2> QED
    BY <1>1, <1>2, <1>3, <2>1, <2>5, WithinIInv DEF IInv, TypeOK, Finished
<1> QED
  BY <1>5, <1>6, <1>7, <1>8

\* repo.Create and repo.UpdateStatus, also when they fail after the write.
LEMMA WriteIInv ==
  ASSUME IInv, NEW t \in EventTypes, WriteInvoice(t)
  PROVE  IInv'
<1>1. TypeOK /\ ~ At(t, "fetch") /\ At(t, "write")
  BY DEF IInv, WriteInvoice, At
<1>2. /\ UNCHANGED <<log, position, baseline, stopping, committed, processed, dlq, lost, gauge>>
      /\ disruptions' \in 0 .. MaxDisruptions
  BY <1>1, Disruptions DEF WriteInvoice, Within
<1>3. PICK n \in DOMAIN log[t] :
        /\ n = consumer[t].offset /\ n \in Nat /\ Current(t) = log[t][n] /\ Current(t).order \in Orders
  BY <1>1, CurrentFacts
<1>4. CASE SetInvoice(t) /\ Goto(t, IF t = "OrderCreated" THEN "inc" ELSE "dec")
  <2>1. PICK c \in Consumer : /\ consumer' = [consumer EXCEPT ![t] = c] /\ c.pc \in {"inc", "dec"}
                              /\ c.offset = IF c.pc = "fetch" THEN 0 ELSE n
    BY <1>1, <1>3, <1>4, GotoMoves DEF Moved, PC
  <2>2. invoices'[Current(t).order] = InvoiceAfter[t]
    BY <1>1, <1>4, WriteFacts
  <2>3. log'[t][n].order = Current(t).order
    BY <1>2, <1>3
  <2>4. DealtWith(t, n)'
    BY <2>2, <2>3, AppliedMeansNext, EventFacts DEF DealtWith
  <2> QED
    BY <1>1, <1>2, <1>3, <1>4, <2>1, <2>4, WithinIInv DEF IInv, TypeOK, Finished
<1>5. CASE AttemptFailed(t) /\ (SetInvoice(t) \/ UNCHANGED invoices)
  <2>1. PICK c \in Consumer : /\ consumer' = [consumer EXCEPT ![t] = c] /\ c.pc \in {"get", "dlq"}
                              /\ c.offset = IF c.pc = "fetch" THEN 0 ELSE n
    BY <1>1, <1>3, <1>5, FailedMoves DEF Moved
  <2> QED
    BY <1>1, <1>2, <1>3, <1>5, <2>1, WithinIInv DEF IInv, TypeOK, Finished
<1> QED
  BY <1>4, <1>5 DEF WriteInvoice

\* The gauge moves, by whole numbers, when the write is done.
LEMMA GaugeIInv ==
  ASSUME IInv, NEW t \in EventTypes, DecPending(t) \/ IncStatus(t)
  PROVE  IInv'
<1>1. TypeOK /\ ~ At(t, "fetch") /\ ~ At(t, "write") /\ consumer[t].pc \in Finished
  BY DEF IInv, DecPending, IncStatus, At, Finished
<1>2. /\ UNCHANGED <<log, position, baseline, stopping, committed, invoices, processed, dlq, lost,
                     disruptions>>
      /\ gauge' \in [InvoiceStatus -> Int]
  <2>1. PICK s \in InvoiceStatus, d \in {-1, 1} : MoveGauge(t, s, d)
    BY EventFacts DEF DecPending, IncStatus
  <2>2. gauge[s] + d \in Int
    BY <1>1 DEF TypeOK
  <2> QED
    BY <1>1, <2>1, <2>2 DEF MoveGauge, Within, stores, TypeOK
<1>3. PICK n \in DOMAIN log[t] : n = consumer[t].offset /\ n \in Nat \ {0}
  BY <1>1, CurrentFacts
<1>4. PICK p \in {"inc", "save"} : Goto(t, p)
  BY DEF DecPending, IncStatus
<1>5. PICK c \in Consumer : /\ consumer' = [consumer EXCEPT ![t] = c] /\ c.pc = p
                            /\ c.offset = IF c.pc = "fetch" THEN 0 ELSE n
  BY <1>1, <1>3, <1>4, GotoMoves DEF Moved, PC
<1>6. DealtWith(t, n)
  BY <1>1, <1>3 DEF IInv, FinishedHasEffect
<1>7. DealtWith(t, n)'
  BY <1>1, <1>2, <1>3, <1>6, DealtStays
<1> QED
  BY <1>1, <1>2, <1>3, <1>5, <1>7, WithinIInv DEF IInv, TypeOK

\* Save, and the return without a commit when it fails.
LEMMA SaveIInv ==
  ASSUME IInv, NEW t \in EventTypes, Save(t)
  PROVE  IInv'
<1>1. TypeOK /\ ~ At(t, "fetch") /\ ~ At(t, "write") /\ At(t, "save")
  BY DEF IInv, Save, At
<1>2. /\ UNCHANGED <<log, position, baseline, stopping, committed, invoices, dlq, lost, gauge>>
      /\ processed' \in {processed, processed \cup {CurrentID(t)}}
      /\ disruptions' \in 0 .. MaxDisruptions
  BY <1>1, Disruptions DEF Save, Within
<1>3. PICK n \in DOMAIN log[t] : n = consumer[t].offset /\ n \in Nat \ {0}
  BY <1>1, CurrentFacts
<1>4. PICK c \in Consumer : /\ consumer' = [consumer EXCEPT ![t] = c] /\ c.pc \in {"fetch", "commit"}
                            /\ c.offset = IF c.pc = "fetch" THEN 0 ELSE n
  BY <1>1, <1>3, GotoMoves, ReturnMoves DEF Save, Moved, PC
<1>5. DealtWith(t, n)
  BY <1>1, <1>3 DEF IInv, FinishedHasEffect, Finished, At
<1>6. DealtWith(t, n)'
  BY <1>1, <1>2, <1>3, <1>5, DealtStays
<1> QED
  BY <1>1, <1>2, <1>3, <1>4, <1>6, WithinIInv DEF IInv, TypeOK

LEMMA CommitIInv ==
  ASSUME IInv, NEW t \in EventTypes, CommitMessages(t)
  PROVE  IInv'
<1>1. TypeOK /\ ~ At(t, "fetch") /\ ~ At(t, "write") /\ At(t, "commit")
  BY DEF IInv, CommitMessages, At
<1>2. PICK n \in DOMAIN log[t] : n = consumer[t].offset /\ n \in Nat \ {0}
  BY <1>1, CurrentFacts
<1>3. /\ UNCHANGED <<log, position, baseline, stopping, invoices, processed, dlq, lost, gauge>>
      /\ committed' = committed \/ committed' = [committed EXCEPT ![t] = n]
      /\ disruptions' \in 0 .. MaxDisruptions
  BY <1>1, <1>2, Disruptions DEF CommitMessages, Within, stores
<1>4. PICK c \in Consumer : /\ consumer' = [consumer EXCEPT ![t] = c] /\ c.pc = "fetch"
                            /\ c.offset = IF c.pc = "fetch" THEN 0 ELSE n
  BY <1>2, ReturnMoves DEF CommitMessages, Moved
<1>5. DealtWith(t, n)
  BY <1>1, <1>2 DEF IInv, FinishedHasEffect, Finished, At
<1>6. DealtWith(t, n)'
  BY <1>1, <1>2, <1>3, <1>5, DealtStays
<1> QED
  BY <1>1, <1>2, <1>3, <1>4, <1>6, WithinIInv DEF IInv, TypeOK

-----------------------------------------------------------------------------
(* The reader, the topics and the process.                                 *)

LEMMA InitIInv == Init => IInv
<1> SUFFICES ASSUME Init PROVE IInv
  OBVIOUS
<1>1. AtFetch \in Consumer /\ AtFetch.pc = "fetch" /\ AtFetch.offset = 0
  BY ConsumerAssumption DEF AtFetch, PC, Consumer
<1>2. \A t \in EventTypes : /\ log[t] = <<>> /\ position[t] = 0 /\ committed[t] = 0
                            /\ consumer[t] = AtFetch
  BY DEF Init
<1>3. TypeOK
  <2>1. <<>> \in Seq(Message) /\ Len(<<>>) = 0
    OBVIOUS
  <2>2. log \in [EventTypes -> Seq(Message)]
    BY <2>1 DEF Init
  <2>3. position \in [EventTypes -> Nat] /\ committed \in [EventTypes -> Nat]
    BY DEF Init
  <2>4. consumer \in [EventTypes -> Consumer]
    BY <1>1 DEF Init
  <2>5. ASSUME NEW t \in EventTypes
        PROVE  /\ {position[t], committed[t], consumer[t].offset} \subseteq 0 .. Len(log[t])
               /\ consumer[t].offset = 0 <=> consumer[t].pc = "fetch"
    <3>1. position[t] = 0 /\ committed[t] = 0 /\ consumer[t].offset = 0 /\ consumer[t].pc = "fetch"
      BY <1>1, <1>2
    <3>2. Len(log[t]) = 0
      BY <1>2, <2>1
    <3> QED
      BY <3>1, <3>2
  <2>6. gauge \in [InvoiceStatus -> Int] /\ disruptions \in 0 .. MaxDisruptions
    BY ConsumerAssumption DEF Init
  <2>7. /\ invoices \in [Orders -> InvoiceStatus \cup {NoRow}]
        /\ baseline \in [Orders -> InvoiceStatus \cup {NoRow}]
    BY DEF Init
  <2>8. stopping \in BOOLEAN /\ processed = {} /\ dlq = {} /\ lost = {}
    BY DEF Init
  <2> QED
    BY <2>2, <2>3, <2>4, <2>5, <2>6, <2>7, <2>8 DEF TypeOK
<1>4. WritesAreCurrent
  BY <1>1, <1>2, EventFacts DEF WritesAreCurrent, At
<1>5. FinishedHasEffect
  <2>1. 1 .. 0 = {}
    OBVIOUS
  <2> QED
    BY <1>1, <1>2, <2>1 DEF FinishedHasEffect
<1>6. ProcessedIsKnown /\ ProcessedHasEffect
  BY DEF Init, ProcessedIsKnown, ProcessedHasEffect
<1> QED
  BY <1>3, <1>4, <1>5, <1>6 DEF IInv

\* What the state of a consumer is after FetchMessage.
LEMMA FetchMoves ==
  ASSUME TypeOK, NEW t \in EventTypes, FetchMessage(t)
  PROVE  /\ consumer' \in [EventTypes -> Consumer]
         /\ consumer'[t].pc = "exists" /\ consumer'[t].offset = position[t] + 1
         /\ \A u \in EventTypes : u # t => consumer'[u] = consumer[u]
<1> DEFINE c == [pc |-> "exists", tries |-> 0, offset |-> position[t] + 1]
<1>1. position[t] + 1 \in Nat
  BY ConsumerFacts
<1>2. c \in Consumer /\ c.pc = "exists" /\ c.offset = position[t] + 1
  BY <1>1, ConsumerAssumption DEF Consumer, PC
<1>3. consumer' = [consumer EXCEPT ![t] = c]
  BY DEF FetchMessage
<1> HIDE DEF c
<1> QED
  BY <1>2, <1>3 DEF TypeOK

\* FetchMessage: the message before is done with.
LEMMA FetchIInv ==
  ASSUME IInv, NEW t \in EventTypes, FetchMessage(t)
  PROVE  IInv'
<1>1. /\ TypeOK /\ At(t, "fetch") /\ position[t] < Len(log[t])
      /\ position' = [position EXCEPT ![t] = position[t] + 1]
      /\ UNCHANGED <<log, committed, invoices, processed, dlq, lost, gauge, baseline, stopping, disruptions>>
  BY DEF IInv, FetchMessage, stores, metrics
<1>2. PICK n \in Nat : n = position[t]
  BY <1>1, ConsumerFacts
<1>3. /\ consumer' \in [EventTypes -> Consumer]
      /\ consumer'[t].pc = "exists" /\ consumer'[t].offset = n + 1 /\ consumer[t].offset = 0
      /\ \A u \in EventTypes : u # t => consumer'[u] = consumer[u]
      /\ position'[t] = n + 1 /\ \A u \in EventTypes : u # t => position'[u] = position[u]
  BY <1>1, <1>2, FetchMoves, ConsumerFacts DEF TypeOK, At
<1>4. TypeOK'
  <2>1. position' \in [EventTypes -> Nat]
    BY <1>1, <1>2 DEF TypeOK
  <2>2. \A u \in EventTypes : /\ position'[u] \in 0 .. Len(log[u]) /\ committed[u] \in 0 .. Len(log[u])
                              /\ consumer'[u].offset \in 0 .. Len(log[u])
                              /\ consumer'[u].offset = 0 <=> consumer'[u].pc = "fetch"
    BY <1>1, <1>2, <1>3, ConsumerFacts
  <2> QED
    BY <1>1, <1>3, <2>1, <2>2 DEF TypeOK
<1>5. ASSUME NEW u \in EventTypes, NEW i
      PROVE  (DealtWith(u, i)' <=> DealtWith(u, i)) /\ eventID(u, i)' = eventID(u, i)
  BY <1>1 DEF DealtWith, Applied, Contended, GivenUp, eventID
<1>6. WritesAreCurrent'
  <2> SUFFICES ASSUME NEW u \in Settlements, At(u, "write")'
               PROVE  (\/ invoices[Current(u).order] = "PENDING"
                       \/ /\ Contended(Current(u).order)
                          /\ invoices[Current(u).order] \in Settled \ {InvoiceAfter[u]})'
    BY DEF WritesAreCurrent
  <2>1. u \in EventTypes /\ u # t /\ At(u, "write") /\ consumer'[u] = consumer[u]
    BY <1>3, EventFacts DEF At
  <2> QED
    BY <1>1, <2>1 DEF IInv, WritesAreCurrent, Current, Contended
<1>7. FinishedHasEffect'
  <2> SUFFICES ASSUME NEW u \in EventTypes
               PROVE  /\ \A i \in 1 .. committed[u] : DealtWith(u, i)
                      /\ \A i \in 1 .. position'[u] : i = consumer'[u].offset \/ DealtWith(u, i)
                      /\ \A i \in 1 .. consumer'[u].offset :
                           i < consumer'[u].offset \/ consumer'[u].pc \in Finished => DealtWith(u, i)
    BY <1>1, <1>5 DEF FinishedHasEffect
  <2>1. CASE u = t
    <3>1. /\ \A i \in 1 .. committed[t] : DealtWith(t, i)
          /\ \A i \in 1 .. n : i = 0 \/ DealtWith(t, i)
      BY <1>2, <1>3 DEF IInv, FinishedHasEffect
    <3>2. \A i \in 1 .. n : DealtWith(t, i)
      BY <3>1
    <3>3. \A i \in 1 .. n + 1 : i = n + 1 \/ i \in 1 .. n
      OBVIOUS
    <3> QED
      BY <1>3, <2>1, <3>1, <3>2, <3>3 DEF Finished
  <2>2. CASE u # t
    BY <1>3, <2>2 DEF IInv, FinishedHasEffect
  <2> QED
    BY <2>1, <2>2
<1>8. ProcessedIsKnown' /\ ProcessedHasEffect'
  BY <1>1, <1>5 DEF IInv, ProcessedIsKnown, ProcessedHasEffect, DealtWith
<1> QED
  BY <1>4, <1>6, <1>7, <1>8 DEF IInv

\* A message is appended to a topic: the old ones keep their places.
LEMMA PublishFacts ==
  ASSUME TypeOK, NEW t \in EventTypes, NEW m \in Message, Publish(t, m)
  PROVE  /\ log' \in [EventTypes -> Seq(Message)]
         /\ Len(log'[t]) = Len(log[t]) + 1 /\ log'[t][Len(log[t]) + 1] = m
         /\ DOMAIN log'[t] = DOMAIN log[t] \cup {Len(log[t]) + 1}
         /\ \A u \in EventTypes : u # t => log'[u] = log[u]
         /\ \A u \in EventTypes : \A i \in DOMAIN log[u] :
              i \in DOMAIN log'[u] /\ log'[u][i] = log[u][i]
         /\ disruptions' \in 0 .. MaxDisruptions
         /\ UNCHANGED <<committed, position, consumer, invoices, processed, dlq, lost, gauge,
                        baseline, stopping>>
<1>1. log' = [log EXCEPT ![t] = Append(log[t], m)]
  BY DEF Publish
<1>2. log[t] \in Seq(Message) /\ Len(log[t]) \in Nat /\ DOMAIN log[t] = 1 .. Len(log[t])
  BY ConsumerFacts
<1>3. /\ Append(log[t], m) \in Seq(Message)
      /\ Len(Append(log[t], m)) = Len(log[t]) + 1
      /\ DOMAIN Append(log[t], m) = 1 .. Len(log[t]) + 1
      /\ \A i \in 1 .. Len(log[t]) : Append(log[t], m)[i] = log[t][i]
      /\ Append(log[t], m)[Len(log[t]) + 1] = m
  BY <1>2, AppendProperties
<1>4. log'[t] = Append(log[t], m) /\ \A u \in EventTypes : u # t => log'[u] = log[u]
  BY <1>1 DEF TypeOK
<1>5. log' \in [EventTypes -> Seq(Message)]
  BY <1>1, <1>3 DEF TypeOK
<1>6. 1 .. Len(log[t]) + 1 = (1 .. Len(log[t])) \cup {Len(log[t]) + 1}
  BY <1>2
<1>7. ASSUME NEW u \in EventTypes, NEW i \in DOMAIN log[u]
      PROVE  i \in DOMAIN log'[u] /\ log'[u][i] = log[u][i]
  BY <1>2, <1>3, <1>4, <1>6
<1>8. disruptions' \in 0 .. MaxDisruptions
  BY Disruptions DEF Publish, Fails
<1> QED
  BY <1>2, <1>3, <1>4, <1>5, <1>6, <1>7, <1>8 DEF Publish, stores, metrics

\* A copy of an event that was processed finds its effect; and an order may be
\* settled twice from here on.
LEMMA PublishIInv ==
  ASSUME IInv, NEW t \in EventTypes, NEW m \in Message, Publish(t, m)
  PROVE  IInv'
<1>1. TypeOK
  BY DEF IInv
<1>2. /\ log' \in [EventTypes -> Seq(Message)]
      /\ Len(log'[t]) = Len(log[t]) + 1 /\ log'[t][Len(log[t]) + 1] = m
      /\ DOMAIN log'[t] = DOMAIN log[t] \cup {Len(log[t]) + 1}
      /\ \A u \in EventTypes : u # t => log'[u] = log[u]
      /\ \A u \in EventTypes : \A i \in DOMAIN log[u] : i \in DOMAIN log'[u] /\ log'[u][i] = log[u][i]
      /\ disruptions' \in 0 .. MaxDisruptions
      /\ UNCHANGED <<committed, position, consumer, invoices, processed, dlq, lost, gauge,
                     baseline, stopping>>
  BY <1>1, PublishFacts
<1>3. TypeOK'
  <2>1. \A u \in EventTypes : Len(log[u]) <= Len(log'[u]) /\ Len(log'[u]) \in Nat
    BY <1>1, <1>2, ConsumerFacts
  <2>2. \A u \in EventTypes : {position[u], committed[u], consumer[u].offset} \subseteq 0 .. Len(log'[u])
    BY <1>1, <2>1, ConsumerFacts
  <2> QED
    BY <1>1, <1>2, <2>2 DEF TypeOK
<1>5. ASSUME NEW o, Contended(o) PROVE Contended(o)'
  BY <1>2, <1>5, EventFacts DEF Contended
<1>6. ASSUME NEW u \in EventTypes, NEW o, Applied(u, o) PROVE Applied(u, o)'
  <2>1. CASE u = "OrderCreated"
    BY <1>2, <1>6, <2>1, AppliedMeans, AppliedMeansNext
  <2>2. CASE u \in Settlements
    BY <1>2, <1>5, <1>6, <2>2, AppliedMeans, AppliedMeansNext, EventFacts
  <2> QED
    BY <2>1, <2>2, EventFacts
<1>7. ASSUME NEW u \in EventTypes, NEW i \in DOMAIN log[u] PROVE eventID(u, i)' = eventID(u, i)
  BY <1>2 DEF eventID
<1>8. ASSUME NEW u \in EventTypes, NEW id, GivenUp(u, id) PROVE GivenUp(u, id)'
  BY <1>2, <1>7, <1>8 DEF GivenUp
<1>9. ASSUME NEW u \in EventTypes, NEW i \in DOMAIN log[u], DealtWith(u, i)
      PROVE  DealtWith(u, i)'
  <2>1. log'[u][i].order = log[u][i].order
    BY <1>2
  <2> QED
    BY <1>6, <1>7, <1>8, <1>9, <2>1 DEF DealtWith
<1>10. WritesAreCurrent'
  <2> SUFFICES ASSUME NEW u \in Settlements, At(u, "write")'
               PROVE  (\/ invoices[Current(u).order] = "PENDING"
                       \/ /\ Contended(Current(u).order)
                          /\ invoices[Current(u).order] \in Settled \ {InvoiceAfter[u]})'
    BY DEF WritesAreCurrent
  <2>1. u \in EventTypes /\ At(u, "write") /\ ~ At(u, "fetch")
    BY <1>2, EventFacts DEF At
  <2>2. Current(u)' = Current(u)
    BY <1>1, <1>2, <2>1, CurrentFacts DEF Current
  <2>3. Contended(Current(u).order) => Contended(Current(u).order)'
    BY <1>5, <2>2
  <2> QED
    BY <1>2, <2>1, <2>2, <2>3 DEF IInv, WritesAreCurrent
<1>11. FinishedHasEffect'
  <2> SUFFICES ASSUME NEW u \in EventTypes
               PROVE  /\ \A i \in 1 .. committed[u] : DealtWith(u, i)'
                      /\ \A i \in 1 .. position[u] : i = consumer[u].offset \/ DealtWith(u, i)'
                      /\ \A i \in 1 .. consumer[u].offset :
                           i < consumer[u].offset \/ consumer[u].pc \in Finished => DealtWith(u, i)'
    BY <1>2 DEF FinishedHasEffect
  <2>1. \A i \in 1 .. committed[u] : i \in DOMAIN log[u] /\ DealtWith(u, i)
    BY <1>1, ConsumerFacts DEF IInv, FinishedHasEffect
  <2>2. \A i \in 1 .. position[u] : i \in DOMAIN log[u] /\ (i = consumer[u].offset \/ DealtWith(u, i))
    BY <1>1, ConsumerFacts DEF IInv, FinishedHasEffect
  <2>3. \A i \in 1 .. consumer[u].offset :
          /\ i \in DOMAIN log[u]
          /\ i < consumer[u].offset \/ consumer[u].pc \in Finished => DealtWith(u, i)
    BY <1>1, ConsumerFacts DEF IInv, FinishedHasEffect
  <2> QED
    BY <1>9, <2>1, <2>2, <2>3
<1>12. ProcessedIsKnown'
  <2> SUFFICES ASSUME NEW id \in processed
               PROVE  \E u \in EventTypes : \E i \in DOMAIN log'[u] : eventID(u, i)' = id
    BY <1>2 DEF ProcessedIsKnown
  <2>1. PICK u \in EventTypes : \E i \in DOMAIN log[u] : eventID(u, i) = id
    BY DEF IInv, ProcessedIsKnown
  <2>2. PICK i \in DOMAIN log[u] : eventID(u, i) = id
    BY <2>1
  <2> QED
    BY <1>2, <1>7, <2>2
<1>13. ProcessedHasEffect'
  <2> SUFFICES ASSUME NEW u \in EventTypes, NEW i \in DOMAIN log'[u], eventID(u, i)' \in processed
               PROVE  DealtWith(u, i)'
    BY <1>2 DEF ProcessedHasEffect, DealtWith
  <2>1. CASE i \in DOMAIN log[u]
    BY <1>7, <1>9, <2>1 DEF IInv, ProcessedHasEffect, DealtWith
  <2>2. CASE i \notin DOMAIN log[u]
    <3>1. PICK v \in EventTypes : \E j \in DOMAIN log[v] : eventID(v, j) = eventID(u, i)'
      BY DEF IInv, ProcessedIsKnown
    <3>2. PICK j \in DOMAIN log[v] : eventID(v, j) = eventID(u, i)'
      BY <3>1
    <3>3. eventID(v, j)' = eventID(u, i)' /\ (i # j \/ u # v)
      BY <1>7, <2>2, <3>2
    <3>4. v = u /\ log'[u][i].order = log[v][j].order
      BY <1>2, <1>7, <2>2, <3>2, <3>3 DEF eventID
    <3>5. Applied(v, log[v][j].order) \/ GivenUp(v, eventID(v, j))
      BY <3>2 DEF IInv, ProcessedHasEffect
    <3>6. Applied(u, log'[u][i].order) \/ GivenUp(u, eventID(v, j))
      BY <3>4, <3>5
    <3>7. Applied(u, log[u][i].order)' \/ GivenUp(u, eventID(u, i))'
      <4>1. CASE Applied(u, log'[u][i].order)
        <5>1. PICK o : o = log'[u][i].order
          OBVIOUS
        <5>2. Applied(u, o)'
          BY <1>6, <4>1, <5>1
        <5> QED
          BY <5>1, <5>2
      <4>2. CASE GivenUp(u, eventID(v, j))
        <5>1. PICK id : id = eventID(v, j)
          OBVIOUS
        <5>2. GivenUp(u, id)'
          BY <1>8, <4>2, <5>1
        <5> QED
          BY <3>2, <5>1, <5>2
      <4> QED
        BY <3>6, <4>1, <4>2
    <3> QED
      BY <3>7 DEF DealtWith
  <2> QED
    BY <2>1, <2>2
<1> QED
  BY <1>3, <1>10, <1>11, <1>12, <1>13 DEF IInv

\* The readers of some topics go back to their committed offsets: what is below
\* those is dealt with.
LEMMA BackIInv ==
  ASSUME IInv,
         consumer' \in [EventTypes -> Consumer],
         position' \in [EventTypes -> Nat],
         \A t \in EventTypes :
           /\ position'[t] \in {position[t], committed[t]}
           /\ \/ consumer'[t] = consumer[t]
              \/ position'[t] = committed[t] /\ consumer'[t] = AtFetch,
         UNCHANGED <<log, committed, invoices, processed, dlq, lost>>,
         gauge' \in [InvoiceStatus -> Int],
         baseline' \in [Orders -> InvoiceStatus \cup {NoRow}],
         stopping' \in BOOLEAN, disruptions' \in 0 .. MaxDisruptions
  PROVE  IInv'
<1>1. TypeOK
  BY DEF IInv
<1>2. TypeOK'
  <2>1. \A t \in EventTypes : /\ {position'[t], committed[t], consumer'[t].offset} \subseteq 0 .. Len(log[t])
                              /\ consumer'[t].offset = 0 <=> consumer'[t].pc = "fetch"
    BY <1>1, ConsumerFacts DEF AtFetch
  <2> QED
    BY <1>1, <2>1 DEF TypeOK
<1>4. ASSUME NEW u \in EventTypes, NEW i
      PROVE  (DealtWith(u, i)' <=> DealtWith(u, i)) /\ eventID(u, i)' = eventID(u, i)
  BY DEF DealtWith, Applied, Contended, GivenUp, eventID
<1>5. WritesAreCurrent'
  <2> SUFFICES ASSUME NEW u \in Settlements, At(u, "write")'
               PROVE  (\/ invoices[Current(u).order] = "PENDING"
                       \/ /\ Contended(Current(u).order)
                          /\ invoices[Current(u).order] \in Settled \ {InvoiceAfter[u]})'
    BY DEF WritesAreCurrent
  <2>1. u \in EventTypes /\ At(u, "write") /\ consumer'[u] = consumer[u]
    BY EventFacts DEF At, AtFetch
  <2> QED
    BY <2>1 DEF IInv, WritesAreCurrent, Current, Contended
<1>6. FinishedHasEffect'
  <2> SUFFICES ASSUME NEW u \in EventTypes
               PROVE  /\ \A i \in 1 .. committed[u] : DealtWith(u, i)
                      /\ \A i \in 1 .. position'[u] : i = consumer'[u].offset \/ DealtWith(u, i)
                      /\ \A i \in 1 .. consumer'[u].offset :
                           i < consumer'[u].offset \/ consumer'[u].pc \in Finished => DealtWith(u, i)
    BY <1>4 DEF FinishedHasEffect
  <2>1. /\ \A i \in 1 .. committed[u] : DealtWith(u, i)
        /\ \A i \in 1 .. position[u] : i = consumer[u].offset \/ DealtWith(u, i)
        /\ \A i \in 1 .. consumer[u].offset :
             i < consumer[u].offset \/ consumer[u].pc \in Finished => DealtWith(u, i)
    BY DEF IInv, FinishedHasEffect
  <2>2. CASE consumer'[u] = consumer[u]
    BY <2>1, <2>2
  <2>3. CASE position'[u] = committed[u] /\ consumer'[u] = AtFetch
    <3>1. 1 .. AtFetch.offset = {}
      BY DEF AtFetch
    <3> QED
      BY <2>1, <2>3, <3>1
  <2> QED
    BY <2>2, <2>3
<1>7. ProcessedIsKnown' /\ ProcessedHasEffect'
  BY <1>4 DEF IInv, ProcessedIsKnown, ProcessedHasEffect, DealtWith
<1> QED
  BY <1>2, <1>5, <1>6, <1>7 DEF IInv

\* Rebalances, crashes, shutdowns and restarts.
LEMMA ProcessIInv ==
  ASSUME IInv, Crash \/ Restart \/ Shutdown \/ \E t \in EventTypes : Rebalance(t)
  PROVE  IInv'
<1>1. TypeOK
  BY DEF IInv
<1>2. disruptions' \in 0 .. MaxDisruptions
  <2>1. Fails \/ UNCHANGED disruptions
    BY DEF Crash, Restart, Shutdown, Rebalance, Fails
  <2> QED
    BY <1>1, <2>1, Disruptions DEF TypeOK
<1>3. AtFetch \in Consumer
  BY ConsumerAssumption DEF AtFetch, PC, Consumer
<1>4. CASE Resume
  <2>1. /\ UNCHANGED <<log, committed, invoices, processed, dlq, lost>>
        /\ position' = committed /\ consumer' = [t \in EventTypes |-> AtFetch]
        /\ baseline' = invoices /\ stopping' = FALSE
        /\ gauge' = [s \in InvoiceStatus |-> 0]
    BY <1>4 DEF Resume, stores
  <2>2. gauge' \in [InvoiceStatus -> Int] /\ consumer' \in [EventTypes -> Consumer]
    BY <1>3, <2>1
  <2> QED
    BY <1>1, <1>2, <1>3, <2>1, <2>2, BackIInv DEF TypeOK
<1>5. CASE Shutdown
  BY <1>1, <1>2, <1>5, BackIInv DEF Shutdown, stores, metrics, TypeOK
<1>6. ASSUME NEW t \in EventTypes, Rebalance(t) PROVE IInv'
  <2>1. /\ position' = [position EXCEPT ![t] = committed[t]]
        /\ UNCHANGED <<log, committed, consumer, invoices, processed, dlq, lost, gauge, baseline, stopping>>
    BY <1>6 DEF Rebalance, stores, metrics
  <2>2. position' \in [EventTypes -> Nat] /\ \A u \in EventTypes : position'[u] \in {position[u], committed[u]}
    BY <1>1, <2>1 DEF TypeOK
  <2> QED
    BY <1>1, <1>2, <2>1, <2>2, BackIInv DEF TypeOK
<1> QED
  BY <1>4, <1>5, <1>6 DEF Crash, Restart

LEMMA NextIInv == IInv /\ [Next]_vars => IInv'
<1> SUFFICES ASSUME IInv, [Next]_vars PROVE IInv'
  OBVIOUS
<1>1. ASSUME NEW t \in EventTypes, Consume(t) PROVE IInv'
  BY <1>1, FetchIInv, ExistsIInv, CancelledIInv, GiveUpIInv, GetIInv, WriteIInv, GaugeIInv, SaveIInv,
     CommitIInv DEF Consume
<1>2. ASSUME NEW t \in EventTypes, NEW m \in Message, Publish(t, m) PROVE IInv'
  BY <1>2, PublishIInv
<1>3. CASE Crash \/ Restart \/ Shutdown \/ \E t \in EventTypes : Rebalance(t)
  BY <1>3, ProcessIInv
<1>4. CASE UNCHANGED vars
  BY <1>4, BackIInv DEF vars, stores, metrics, IInv, TypeOK
<1> QED
  BY <1>1, <1>2, <1>3, <1>4 DEF Next

-----------------------------------------------------------------------------
(* The theorems on the messages and the invoices.                          *)

\* The variables have their types: every offset, that a reader has handed out,
\* that a group has committed or that a consumer has in hand, is of a message on
\* its topic, and a consumer has one in hand exactly while it is processing.
THEOREM ConsumerTypeCorrect == Spec => []TypeOK
<1>1. IInv => TypeOK
  BY DEF IInv
<1> QED
  BY <1>1, InitIInv, NextIInv, PTL DEF Spec

\* What the idempotency check skips has taken effect or was given up for the
\* DLQ, for any interleaving of the three consumers with failed calls, copies,
\* crashes and rebalances.
THEOREM ProcessedTookEffect == Spec => []ProcessedHasEffect
<1>1. IInv => ProcessedHasEffect
  BY DEF IInv
<1> QED
  BY <1>1, InitIInv, NextIInv, PTL DEF Spec

\* No offset is committed over a message that neither took effect nor was given
\* up: the commit of a later message covers only messages that are dealt with.
THEOREM CommittedTookEffect == Spec => []CommittedHasEffect
<1>1. IInv => CommittedHasEffect
  <2> SUFFICES ASSUME IInv, NEW t \in EventTypes, NEW i \in 1 .. committed[t]
               PROVE  DealtWith(t, i)
    BY DEF CommittedHasEffect, DealtWith
  <2> QED
    BY DEF IInv, FinishedHasEffect
<1> QED
  BY <1>1, InitIInv, NextIInv, PTL DEF Spec

\* The invoices are written by repo.Create and repo.UpdateStatus only.
LEMMA WhoWrites ==
  ASSUME [Next]_vars, invoices' # invoices
  PROVE  \E t \in EventTypes : WriteInvoice(t) /\ At(t, "write") /\ SetInvoice(t)
<1>1. ~ UNCHANGED invoices
  OBVIOUS
<1>2. ~ (Crash \/ Restart \/ Shutdown)
  BY <1>1 DEF Crash, Restart, Shutdown, Resume, stores
<1>3. ASSUME NEW t \in EventTypes PROVE ~ Rebalance(t) /\ \A m \in Message : ~ Publish(t, m)
  BY <1>1 DEF Rebalance, Publish, stores
<1>4. ASSUME NEW t \in EventTypes, Consume(t)
      PROVE  WriteInvoice(t) /\ At(t, "write") /\ SetInvoice(t)
  BY <1>1, <1>4 DEF Consume, FetchMessage, Exists, RetryCancelled, HandleMalformed, Get, WriteInvoice,
                    MoveGauge, DecPending, IncStatus, DeadLetter, Save, CommitMessages, Send, stores
<1> QED
  BY <1>1, <1>2, <1>3, <1>4 DEF Next, vars, stores

\* An invoice is created once and settled from PENDING, and only the second of
\* two settlements that race overwrites the first.
THEOREM InvoicesForward == Spec => InvoicesMoveForward
<1>1. ASSUME IInv, [Next]_vars, ~ UNCHANGED invoices, NEW o \in Orders, invoices'[o] # invoices[o]
      PROVE  \/ <<invoices[o], invoices'[o]>> \in {<<NoRow, "PENDING">>, <<"PENDING", "PAID">>,
                                                   <<"PENDING", "CANCELLED">>}
             \/ Contended(o) /\ {invoices[o], invoices'[o]} = {"PAID", "CANCELLED"}
  <2>1. PICK t \in EventTypes : At(t, "write") /\ SetInvoice(t)
    BY <1>1, WhoWrites
  <2>2. /\ o = Current(t).order /\ invoices'[o] = InvoiceAfter[t]
        /\ t = "OrderCreated" => invoices[o] = NoRow
    BY <1>1, <2>1, WriteFacts DEF IInv
  <2>3. CASE t = "OrderCreated"
    BY <2>2, <2>3, EventFacts
  <2>4. CASE t \in Settlements
    <3>1. \/ invoices[o] = "PENDING"
          \/ Contended(o) /\ invoices[o] \in Settled \ {InvoiceAfter[t]}
      BY <1>1, <2>1, <2>2, <2>4 DEF IInv, WritesAreCurrent
    <3>2. invoices'[o] \in {"PAID", "CANCELLED"}
      BY <2>2, <2>4, EventFacts DEF Settled
    <3> QED
      BY <2>2, <3>1, <3>2 DEF Settled
  <2> QED
    BY <2>3, <2>4, EventFacts
<1>2. IInv /\ [Next]_vars =>
        [\A o \in Orders :
           invoices'[o] # invoices[o] =>
             \/ <<invoices[o], invoices'[o]>> \in {<<NoRow, "PENDING">>, <<"PENDING", "PAID">>,
                                                   <<"PENDING", "CANCELLED">>}
             \/ Contended(o) /\ {invoices[o], invoices'[o]} = {"PAID", "CANCELLED"}]_invoices
  BY <1>1
<1> QED
  BY <1>2, InitIInv, NextIInv, PTL DEF Spec, InvoicesMoveForward

-----------------------------------------------------------------------------
(* The gauge.                                                              *)

LEMMA SubsetCount ==
  ASSUME NEW T, IsFiniteSet(T), NEW S, S \subseteq T
  PROVE  /\ IsFiniteSet(S) /\ Cardinality(S) \in Nat /\ Cardinality(T) \in Nat
         /\ Cardinality(S) <= Cardinality(T)
  BY FS_Subset, FS_CardinalityType

LEMMA AddCount ==
  ASSUME NEW T, IsFiniteSet(T), NEW S, S \subseteq T, NEW x \in T \ S
  PROVE  Cardinality(S) + 1 <= Cardinality(T) /\ Cardinality(S) \in Nat /\ Cardinality(T) \in Nat
<1>1. IsFiniteSet(S) /\ S \cup {x} \subseteq T
  BY FS_Subset
<1>2. Cardinality(S \cup {x}) = Cardinality(S) + 1
  BY <1>1, FS_AddElement
<1> QED
  BY <1>1, <1>2, SubsetCount

LEMMA CountType == \A table, s : Count(table, s) \in Nat
  BY ConsumerAssumption, SubsetCount DEF Count

\* One row of a table changes.
LEMMA CountAfter ==
  ASSUME NEW o \in Orders, NEW old, NEW new, NEW s,
         \A p \in Orders : p # o => new[p] = old[p]
  PROVE  Count(new, s) = Count(old, s) + (IF new[o] = s THEN 1 ELSE 0) - (IF old[o] = s THEN 1 ELSE 0)
<1> DEFINE Rest == {p \in Orders : p # o /\ old[p] = s}
<1>1. IsFiniteSet(Rest) /\ Cardinality(Rest) \in Nat
  BY ConsumerAssumption, SubsetCount
<1>2. Cardinality(Rest \cup {o}) = Cardinality(Rest) + 1
  BY <1>1, FS_AddElement
<1>3. {p \in Orders : old[p] = s} = IF old[o] = s THEN Rest \cup {o} ELSE Rest
  OBVIOUS
<1>4. {p \in Orders : new[p] = s} = IF new[o] = s THEN Rest \cup {o} ELSE Rest
  OBVIOUS
<1>5. Count(old, s) = Cardinality(Rest) + (IF old[o] = s THEN 1 ELSE 0)
  BY <1>1, <1>2, <1>3 DEF Count
<1>6. Count(new, s) = Cardinality(Rest) + (IF new[o] = s THEN 1 ELSE 0)
  <2>1. Count(new, s) = Cardinality(IF new[o] = s THEN Rest \cup {o} ELSE Rest)
    BY <1>4 DEF Count
  <2> QED
    BY <1>1, <1>2, <2>1
<1> QED
  BY <1>1, <1>5, <1>6

LEMMA OffByGrows ==
  ASSUME NEW x \in Int, NEW y \in Int, NEW d \in Int, NEW e \in Int, NEW k \in Int,
         OffBy(x, d), OffBy(y - x, k), d + k <= e
  PROVE  OffBy(y, e)
  BY DEF OffBy

LEMMA EventTypesCount ==
  IsFiniteSet(EventTypes) /\ Cardinality(EventTypes) \in Nat
<1>1. EventTypes = {"OrderCreated"} \cup {"OrderPaid"} \cup {"OrderCancelled"}
  BY DEF EventTypes, Settlements
<1> QED
  BY <1>1, FS_Singleton, FS_Union, FS_CardinalityType

LEMMA OwedType ==
  \A t, s : /\ Owed(t, s) \in {-1, 0, 1}
            /\ consumer[t].pc \notin Behind => Owed(t, s) = 0
  BY DEF Owed, Behind

LEMMA OwedTypeNext ==
  \A t, s : /\ Owed(t, s)' \in {-1, 0, 1}
            /\ consumer'[t].pc \notin Behind => Owed(t, s)' = 0
  BY DEF Owed, Behind

\* The gauge that is due changes with the gauge and with what one consumer owes.
LEMMA DueChanges ==
  ASSUME gauge \in [InvoiceStatus -> Int], gauge' \in [InvoiceStatus -> Int],
         NEW t \in EventTypes, NEW s \in InvoiceStatus,
         \A u \in EventTypes : u # t => consumer'[u] = consumer[u]
  PROVE  Due(s) \in Int /\ Due(s)' = Due(s) + (gauge'[s] - gauge[s]) + (Owed(t, s)' - Owed(t, s))
<1>1. PICK a \in Int, b \in Int : a = gauge[s] /\ b = gauge'[s]
  OBVIOUS
<1>2. PICK x \in Int, y \in Int, z \in Int :
        x = Owed("OrderCreated", s) /\ y = Owed("OrderPaid", s) /\ z = Owed("OrderCancelled", s)
  BY OwedType
<1>3. PICK l \in Int, m \in Int, n \in Int :
        l = Owed("OrderCreated", s)' /\ m = Owed("OrderPaid", s)' /\ n = Owed("OrderCancelled", s)'
  BY OwedTypeNext
<1>4. Due(s) = a + x + y + z /\ Due(s)' = b + l + m + n
  BY <1>1, <1>2, <1>3 DEF Due
<1>5. ASSUME NEW u \in EventTypes, u # t PROVE Owed(u, s)' = Owed(u, s)
  BY <1>5 DEF Owed
<1>6. EventTypes = {"OrderCreated", "OrderPaid", "OrderCancelled"}
  BY DEF EventTypes, Settlements
<1>7. CASE t = "OrderCreated"
  <2>1. m = y /\ n = z /\ l = Owed(t, s)' /\ x = Owed(t, s)
    BY <1>2, <1>3, <1>5, <1>6, <1>7
  <2> QED
    BY <1>1, <1>4, <2>1
<1>8. CASE t = "OrderPaid"
  <2>1. l = x /\ n = z /\ m = Owed(t, s)' /\ y = Owed(t, s)
    BY <1>2, <1>3, <1>5, <1>6, <1>8
  <2> QED
    BY <1>1, <1>4, <2>1
<1>9. CASE t = "OrderCancelled"
  <2>1. l = x /\ m = y /\ n = Owed(t, s)' /\ z = Owed(t, s)
    BY <1>2, <1>3, <1>5, <1>6, <1>9
  <2> QED
    BY <1>1, <1>4, <2>1
<1> QED
  BY <1>6, <1>7, <1>8, <1>9

\* The sets that the bound counts are finite, and it is a number.
BoundIsNumber ==
  /\ IsFiniteSet(Exhausted) /\ Cardinality(Exhausted) \in Nat
  /\ IsFiniteSet(Spent) /\ Cardinality(Spent) \in Nat
  /\ IsFiniteSet(OddMessages) /\ Cardinality(OddMessages) \in Nat
  /\ Failures \in Int /\ Allowance \in Int
  /\ \A s \in InvoiceStatus : Drift(s) \in Int /\ DueDrift(s) \in Int

LEMMA BoundType == TypeOK => BoundIsNumber
<1> SUFFICES ASSUME TypeOK PROVE BoundIsNumber
  OBVIOUS
<1>1. /\ IsFiniteSet(Exhausted) /\ Cardinality(Exhausted) \in Nat
      /\ IsFiniteSet(Spent) /\ Cardinality(Spent) \in Nat
  <2>1. Exhausted \subseteq Orders /\ Spent \subseteq EventTypes
    BY DEF Exhausted, Spent
  <2> QED
    BY <2>1, ConsumerAssumption, EventTypesCount, SubsetCount
<1>2. IsFiniteSet(OddMessages) /\ Cardinality(OddMessages) \in Nat
  <2>1. OddMessages \subseteq EventTypes \X (1 .. MaxMessages)
    BY DEF OddMessages
  <2>2. IsFiniteSet(1 .. MaxMessages)
    BY ConsumerAssumption, FS_Interval
  <2>3. IsFiniteSet(EventTypes \X (1 .. MaxMessages))
    BY <2>2, EventTypesCount, FS_Product
  <2> QED
    BY <2>1, <2>3, SubsetCount
<1>3. Failures \in Int
  BY <1>2 DEF Failures, TypeOK
<1>4. Allowance \in Int
  BY <1>1, <1>3 DEF Allowance
<1>5. ASSUME NEW s \in InvoiceStatus PROVE Drift(s) \in Int /\ DueDrift(s) \in Int
  <2>1. gauge[s] \in Int
    BY DEF TypeOK
  <2>2. Due(s) \in Int
    BY <2>1, OwedType DEF Due
  <2> QED
    BY <2>1, <2>2, CountType DEF Drift, DueDrift
<1> QED
  BY <1>1, <1>2, <1>3, <1>4, <1>5 DEF BoundIsNumber

LEMMA BoundTypeNext == TypeOK' => BoundIsNumber'
  BY BoundType, PTL

\* A consumer has a message in hand whose handler has still work to do.
Busy == {"exists", "get", "write"}

\* One call of a consumer moves this consumer only, and it takes a read to come
\* to a write.
LEMMA ConsumeMoves ==
  ASSUME TypeOK, NEW u \in EventTypes, Consume(u)
  PROVE  /\ UNCHANGED <<log, baseline, stopping>>
         /\ consumer' \in [EventTypes -> Consumer]
         /\ \A w \in EventTypes : w # u => consumer'[w] = consumer[w]
         /\ consumer'[u].pc \in Busy =>
              \/ FetchMessage(u)
              \/ /\ consumer[u].pc \in Busy /\ consumer'[u].offset = consumer[u].offset
                 /\ consumer'[u].pc = "write" => Get(u)
         /\ \/ WriteInvoice(u) \/ DecPending(u) \/ IncStatus(u)
            \/ consumer[u].pc \notin Behind /\ consumer'[u].pc \notin Behind
<1> USE DEF Busy, Behind, PC
<1>1. ASSUME NEW P, Moved(u, P)
      PROVE  /\ consumer' \in [EventTypes -> Consumer] /\ consumer'[u].pc \in P
             /\ \A w \in EventTypes : w # u => consumer'[w] = consumer[w]
             /\ consumer'[u].pc # "fetch" => consumer'[u].offset = consumer[u].offset
  BY <1>1 DEF Moved, TypeOK
<1>2. CASE FetchMessage(u)
  BY <1>2, FetchMoves DEF FetchMessage, metrics, At
<1>3. CASE Exists(u)
  <2>1. Moved(u, {"get", "commit"})
    <3>1. PICK p \in {"get", "commit"} : Goto(u, p)
      BY <1>3 DEF Exists
    <3>2. Moved(u, {p})
      BY <3>1, GotoMoves
    <3> QED
      BY <3>2 DEF Moved
  <2> QED
    BY <1>1, <1>3, <2>1 DEF Exists, Within, At
<1>4. CASE RetryCancelled(u)
  <2>1. Moved(u, {"dlq"})
    BY <1>4, GotoMoves DEF RetryCancelled
  <2> QED
    BY <1>1, <1>4, <2>1 DEF RetryCancelled, Within, At
<1>5. CASE HandleMalformed(u)
  <2>1. Moved(u, {"save"})
    BY <1>5, GotoMoves DEF HandleMalformed
  <2> QED
    BY <1>1, <1>5, <2>1 DEF HandleMalformed, Within, At
<1>6. CASE Get(u)
  <2>1. PICK row : Decide(u, row)
    BY <1>6 DEF Get
  <2>2. Moved(u, {"write"}) \/ Moved(u, {"save"}) \/ Moved(u, {"get", "dlq"})
    BY <2>1, DecideMeans, GotoMoves, FailedMoves
  <2> QED
    BY <1>1, <1>6, <2>2 DEF Get, Within, At
<1>7. CASE WriteInvoice(u)
  <2>1. Moved(u, {"inc"}) \/ Moved(u, {"dec"}) \/ Moved(u, {"get", "dlq"})
    BY <1>7, GotoMoves, FailedMoves DEF WriteInvoice
  <2> QED
    BY <1>1, <1>7, <2>1 DEF WriteInvoice, Within, At
<1>8. CASE DecPending(u) \/ IncStatus(u)
  <2>1. Moved(u, {"inc"}) \/ Moved(u, {"save"})
    BY <1>8, GotoMoves DEF DecPending, IncStatus
  <2> QED
    BY <1>1, <1>8, <2>1 DEF DecPending, IncStatus, MoveGauge, Within
<1>9. CASE DeadLetter(u)
  <2>1. Moved(u, {"commit"})
    BY <1>9, GotoMoves DEF DeadLetter
  <2> QED
    BY <1>1, <1>9, <2>1 DEF DeadLetter, Within, At
<1>10. CASE Save(u)
  <2>1. Moved(u, {"fetch"}) \/ Moved(u, {"commit"})
    BY <1>10, GotoMoves, ReturnMoves DEF Save
  <2> QED
    BY <1>1, <1>10, <2>1 DEF Save, Within, At
<1>11. CASE CommitMessages(u)
  <2>1. Moved(u, {"fetch"})
    BY <1>11, ReturnMoves DEF CommitMessages
  <2> QED
    BY <1>1, <1>11, <2>1 DEF CommitMessages, Within, At
<1> QED
  BY <1>2, <1>3, <1>4, <1>5, <1>6, <1>7, <1>8, <1>9, <1>10, <1>11 DEF Consume

\* Where the message in hand comes from.
LEMMA InHand ==
  ASSUME IInv, [Next]_vars, NEW t \in EventTypes, consumer'[t].pc \in Busy
  PROVE  \/ FetchMessage(t)
         \/ /\ consumer[t].pc \in Busy /\ Current(t)' = Current(t)
            /\ consumer'[t].pc = "write" => At(t, "write") \/ Get(t)
<1>1. TypeOK
  BY DEF IInv
<1>2. CASE \E u \in EventTypes : Consume(u)
  <2>1. PICK u \in EventTypes : Consume(u)
    BY <1>2
  <2>2. /\ UNCHANGED <<log, baseline, stopping>>
        /\ \A w \in EventTypes : w # u => consumer'[w] = consumer[w]
        /\ consumer'[u].pc \in Busy =>
             \/ FetchMessage(u)
             \/ /\ consumer[u].pc \in Busy /\ consumer'[u].offset = consumer[u].offset
                /\ consumer'[u].pc = "write" => Get(u)
    BY <1>1, <2>1, ConsumeMoves
  <2>3. CASE u = t
    BY <2>2, <2>3 DEF Current
  <2>4. CASE u # t
    BY <2>2, <2>4 DEF Current, At
  <2> QED
    BY <2>3, <2>4
<1>3. CASE \E u \in EventTypes : Rebalance(u)
  <2>1. UNCHANGED <<log, consumer>>
    BY <1>3 DEF Rebalance
  <2> QED
    BY <2>1 DEF Current, At
<1>4. CASE \E u \in EventTypes : \E m \in Message : Publish(u, m)
  <2>1. PICK u \in EventTypes, m \in Message : Publish(u, m)
    BY <1>4
  <2>2. /\ consumer' = consumer
        /\ \A i \in DOMAIN log[t] : log'[t][i] = log[t][i]
    BY <1>1, <2>1, PublishFacts
  <2>3. consumer[t].offset \in DOMAIN log[t]
    BY <1>1, <2>2, CurrentFacts DEF At, Busy
  <2> QED
    BY <2>2, <2>3 DEF Current, At
<1>5. CASE Crash \/ Restart
  BY <1>5 DEF Crash, Restart, Resume, AtFetch, Busy
<1>6. CASE Shutdown \/ UNCHANGED vars
  BY <1>6 DEF Shutdown, vars, Current, At
<1> QED
  BY <1>2, <1>3, <1>4, <1>5, <1>6 DEF Next

\* The topics only grow.
LEMMA TopicsGrow ==
  ASSUME TypeOK, [Next]_vars
  PROVE  \A t \in EventTypes : \A i \in DOMAIN log[t] : i \in DOMAIN log'[t] /\ log'[t][i] = log[t][i]
<1>1. CASE \E u \in EventTypes : \E m \in Message : Publish(u, m)
  BY <1>1, PublishFacts
<1>2. CASE \E u \in EventTypes : Consume(u)
  BY <1>2, ConsumeMoves
<1>3. CASE \/ UNCHANGED vars \/ Crash \/ Restart \/ Shutdown
           \/ \E u \in EventTypes : Rebalance(u)
  BY <1>3 DEF vars, Crash, Restart, Shutdown, Resume, Rebalance
<1> QED
  BY <1>1, <1>2, <1>3 DEF Next

\* An invoice that exists keeps existing, and a settled one stays settled.
LEMMA RowsStay ==
  ASSUME IInv, [Next]_vars, NEW o \in Orders
  PROVE  /\ invoices[o] # NoRow => invoices'[o] # NoRow
         /\ invoices[o] \in Settled => invoices'[o] \in Settled
<1>1. CASE invoices'[o] = invoices[o]
  BY <1>1
<1>2. CASE invoices'[o] # invoices[o]
  <2>1. PICK t \in EventTypes : At(t, "write") /\ SetInvoice(t)
    BY <1>2, WhoWrites
  <2>2. invoices'[o] = InvoiceAfter[t] /\ (t = "OrderCreated" => invoices[o] = NoRow)
    BY <1>2, <2>1, WriteFacts DEF IInv
  <2> QED
    BY <2>2, EventFacts
<1> QED
  BY <1>1, <1>2

\* repo.Get leads to a write only from a row that is PENDING or not there, and
\* in a process that is shutting down only from a row it could not read.
LEMMA ReadBeforeWrite ==
  ASSUME TypeOK, NEW t \in EventTypes, Get(t), consumer'[t].pc = "write"
  PROVE  t \in Settlements => invoices[Current(t).order] = "PENDING" /\ ~ stopping
<1>1. PICK row : /\ Decide(t, row) /\ row \in {invoices[Current(t).order], NoRow}
                 /\ row # NoRow => ~ stopping
  BY DEF Get, Succeeds
<1>2. CASE AttemptFailed(t) \/ Goto(t, "save")
  <2>1. Moved(t, {"get", "dlq", "save"})
    BY <1>2, FailedMoves, GotoMoves DEF Moved, PC
  <2> QED
    BY <2>1 DEF Moved, TypeOK
<1>3. CASE t \in Settlements => row = "PENDING"
  BY <1>1, <1>3 DEF NoRow
<1> QED
  BY <1>1, <1>2, <1>3, DecideMeans

\* Nothing settles an order a third time.
LEMMA ExhaustedGrows ==
  ASSUME IInv, [Next]_vars
  PROVE  Exhausted \subseteq Exhausted'
<1>1. TypeOK
  BY DEF IInv
<1> SUFFICES ASSUME NEW o \in Exhausted PROVE o \in Exhausted'
  OBVIOUS
<1>2. /\ o \in Orders /\ Contended(o) /\ invoices[o] \in Settled
      /\ \A t \in Settlements : At(t, "write") => Current(t).order # o
  BY DEF Exhausted
<1>3. Contended(o)'
  <2> SUFFICES ASSUME NEW t \in Settlements
               PROVE  \E i \in DOMAIN log'[t] : log'[t][i].order = o
    BY DEF Contended
  <2>1. PICK i \in DOMAIN log[t] : log[t][i].order = o
    BY <1>2 DEF Contended
  <2> QED
    BY <1>1, <2>1, TopicsGrow, EventFacts
<1>4. invoices'[o] \in Settled
  BY <1>2, RowsStay
<1>5. ASSUME NEW t \in Settlements, consumer'[t].pc = "write" PROVE Current(t)'.order # o
  <2>1. t \in EventTypes /\ ~ FetchMessage(t)
    <3>1. t \in EventTypes
      BY EventFacts
    <3> QED
      BY <1>1, <1>5, <3>1, FetchMoves
  <2>2. Current(t)' = Current(t) /\ (At(t, "write") \/ Get(t))
    BY <1>5, <2>1, InHand DEF Busy
  <2>3. CASE At(t, "write")
    BY <1>2, <2>2, <2>3
  <2>4. CASE Get(t)
    BY <1>1, <1>2, <1>5, <2>1, <2>2, <2>4, ReadBeforeWrite, EventFacts
  <2> QED
    BY <2>2, <2>3, <2>4
<1> QED
  BY <1>2, <1>3, <1>4, <1>5 DEF Exhausted, At

\* In a process that is shutting down a consumer does not come to a write.
LEMMA SpentGrows ==
  ASSUME IInv, [Next]_vars, stopping
  PROVE  Spent \subseteq Spent'
<1>1. TypeOK
  BY DEF IInv
<1> SUFFICES ASSUME NEW t \in Spent PROVE t \in Spent'
  OBVIOUS
<1>2. t \in EventTypes /\ ~ FetchMessage(t)
  BY DEF Spent, FetchMessage
<1>3. CASE t = "OrderCreated"
  <2> SUFFICES ASSUME consumer'[t].pc \in Busy
               PROVE  invoices'[Current(t)'.order] # NoRow
    BY <1>2, <1>3 DEF Spent, Busy
  <2>1. consumer[t].pc \in Busy /\ Current(t)' = Current(t)
    BY <1>2, InHand
  <2>2. Current(t).order \in Orders
    BY <1>1, <1>2, <2>1, CurrentFacts DEF At, Busy
  <2>3. invoices[Current(t).order] # NoRow
    BY <1>3, <2>1 DEF Spent, Busy
  <2> QED
    BY <2>1, <2>2, <2>3, RowsStay
<1>4. CASE t \in Settlements
  <2>1. t # "OrderCreated" /\ ~ At(t, "write")
    BY <1>4, EventFacts DEF Spent
  <2>2. consumer'[t].pc # "write"
    BY <1>1, <1>2, <1>4, <2>1, InHand, ReadBeforeWrite DEF Busy
  <2> QED
    BY <1>2, <2>1, <2>2 DEF Spent, At
<1> QED
  BY <1>2, <1>3, <1>4, EventFacts

\* Only Publish changes the topics.
LEMMA WhoPublishes ==
  ASSUME TypeOK, [Next]_vars, log' # log
  PROVE  \E t \in EventTypes : \E m \in Message : Publish(t, m)
<1>1. CASE \E u \in EventTypes : Consume(u)
  BY <1>1, ConsumeMoves
<1>2. CASE \/ UNCHANGED vars \/ Crash \/ Restart \/ Shutdown
           \/ \E u \in EventTypes : Rebalance(u)
  BY <1>2 DEF vars, Crash, Restart, Shutdown, Resume, Rebalance
<1> QED
  BY <1>1, <1>2 DEF Next

\* The disruptions are counted one at a time.
LEMMA DisruptionsGrow ==
  ASSUME TypeOK, [Next]_vars
  PROVE  disruptions' \in {disruptions, disruptions + 1}
<1>1. ASSUME NEW t \in EventTypes, Consume(t) PROVE disruptions' \in {disruptions, disruptions + 1}
  BY <1>1 DEF Consume, FetchMessage, Exists, RetryCancelled, HandleMalformed, Get, WriteInvoice,
              DecPending, IncStatus, MoveGauge, DeadLetter, Save, CommitMessages, Send, Succeeds,
              Fails, Disrupt
<1>2. ASSUME NEW t \in EventTypes, NEW m \in Message, Rebalance(t) \/ Publish(t, m)
      PROVE  disruptions' \in {disruptions, disruptions + 1}
  BY <1>2 DEF Rebalance, Publish, Disrupt
<1>3. ASSUME NEW t \in EventTypes, Rebalance(t)
      PROVE  disruptions' \in {disruptions, disruptions + 1}
  BY <1>3 DEF Rebalance, Disrupt
<1>4. CASE Crash \/ Restart \/ Shutdown \/ UNCHANGED vars
  BY <1>4 DEF Crash, Restart, Shutdown, Disrupt, vars
<1> QED
  BY <1>1, <1>2, <1>3, <1>4 DEF Next

\* An odd message is counted as a disruption, and nothing else that is
\* published is.
LEMMA FailuresGrow ==
  ASSUME GInv, TypeOK', [Next]_vars
  PROVE  /\ MessagesAreCounted'
         /\ Failures <= Failures'
         /\ log' = log => Failures' - Failures = disruptions' - disruptions
<1>1. /\ TypeOK /\ MessagesAreCounted /\ disruptions \in Nat /\ disruptions' \in Nat
      /\ IsFiniteSet(OddMessages) /\ Cardinality(OddMessages) \in Nat /\ Cardinality(OddMessages)' \in Nat
  <2>1. TypeOK /\ MessagesAreCounted
    BY DEF GInv, IInv
  <2>2. BoundIsNumber /\ BoundIsNumber'
    BY <2>1, BoundType, BoundTypeNext
  <2>3. disruptions \in Nat /\ disruptions' \in Nat
    BY <2>1, ConsumerAssumption DEF TypeOK
  <2> QED
    BY <2>1, <2>2, <2>3 DEF BoundIsNumber
<1>2. disruptions' \in {disruptions, disruptions + 1}
  BY <1>1, DisruptionsGrow
<1>3. CASE log' = log
  <2>1. OddMessages' = OddMessages /\ Arrived' = Arrived
    BY <1>3 DEF OddMessages, Arrived
  <2> QED
    BY <1>1, <1>2, <1>3, <2>1 DEF MessagesAreCounted, Failures
<1>4. CASE log' # log
  <2>1. PICK t \in EventTypes, m \in Message : Publish(t, m)
    BY <1>1, <1>4, WhoPublishes
  <2>2. PICK n : n = <<t, Len(log[t]) + 1>>
    OBVIOUS
  <2>3. /\ Len(log'[t]) = Len(log[t]) + 1 /\ log'[t][Len(log[t]) + 1] = m
        /\ \A u \in EventTypes : u # t => log'[u] = log[u]
        /\ \A u \in EventTypes : \A i \in DOMAIN log[u] : log'[u][i] = log[u][i]
        /\ \A u \in EventTypes : Len(log[u]) \in Nat /\ DOMAIN log[u] = 1 .. Len(log[u])
    BY <1>1, <2>1, PublishFacts, ConsumerFacts
  <2>4. Arrived' = Arrived + 1 /\ Arrived < MaxMessages /\ Arrived \in Nat /\ Len(log[t]) <= Arrived
    <3>1. /\ "OrderCreated" \in EventTypes /\ "OrderPaid" \in EventTypes
          /\ "OrderCancelled" \in EventTypes
          /\ t = "OrderCreated" \/ t = "OrderPaid" \/ t = "OrderCancelled"
      BY DEF EventTypes, Settlements
    <3>2. /\ Len(log["OrderCreated"]) \in Nat /\ Len(log["OrderPaid"]) \in Nat
          /\ Len(log["OrderCancelled"]) \in Nat
      BY <2>3, <3>1
    <3>3. Arrived < MaxMessages
      BY <2>1 DEF Publish
    <3>4. PICK a \in Nat, b \in Nat, c \in Nat :
            a = Len(log["OrderCreated"]) /\ b = Len(log["OrderPaid"]) /\ c = Len(log["OrderCancelled"])
      BY <3>2
    <3>5. PICK x, y, z :
            x = Len(log'["OrderCreated"]) /\ y = Len(log'["OrderPaid"]) /\ z = Len(log'["OrderCancelled"])
      OBVIOUS
    <3>6. Arrived = a + b + c /\ Arrived' = x + y + z
      BY <3>4, <3>5 DEF Arrived
    <3>7. \/ x = a + 1 /\ y = b /\ z = c /\ Len(log[t]) = a
          \/ x = a /\ y = b + 1 /\ z = c /\ Len(log[t]) = b
          \/ x = a /\ y = b /\ z = c + 1 /\ Len(log[t]) = c
      BY <2>3, <3>1, <3>4, <3>5
    <3> QED
      BY <3>3, <3>6, <3>7
  <2>5. Arrived' <= MaxMessages /\ \A u \in EventTypes : Len(log'[u]) <= MaxMessages
    BY <1>1, <2>3, <2>4, ConsumerAssumption DEF MessagesAreCounted
  <2>6. OddMessages' \subseteq IF m.kind = "event" THEN OddMessages ELSE OddMessages \cup {n}
    <3> SUFFICES ASSUME NEW y \in OddMessages'
                 PROVE  y \in IF m.kind = "event" THEN OddMessages ELSE OddMessages \cup {n}
      OBVIOUS
    <3>1. PICK u \in EventTypes, i \in 1 .. MaxMessages :
            y = <<u, i>> /\ i <= Len(log'[u]) /\ log'[u][i].kind # "event"
      BY DEF OddMessages
    <3>2. CASE i \in 1 .. Len(log[u])
      BY <2>3, <3>1, <3>2 DEF OddMessages
    <3>3. CASE i \notin 1 .. Len(log[u])
      BY <2>2, <2>3, <3>1, <3>3
    <3> QED
      BY <3>2, <3>3
  <2>7. CASE m.kind = "event"
    <3>1. disruptions' = disruptions
      BY <2>1, <2>7 DEF Publish
    <3>2. Cardinality(OddMessages)' <= Cardinality(OddMessages)
      BY <1>1, <2>6, <2>7, SubsetCount
    <3> QED
      BY <1>1, <1>4, <2>5, <3>1, <3>2 DEF MessagesAreCounted, Failures
  <2>8. CASE m.kind # "event"
    <3>1. disruptions' = disruptions + 1
      BY <2>1, <2>8 DEF Publish, Disrupt
    <3>2. /\ IsFiniteSet(OddMessages \cup {n})
          /\ Cardinality(OddMessages \cup {n}) \in {Cardinality(OddMessages), Cardinality(OddMessages) + 1}
      BY <1>1, FS_AddElement
    <3>3. Cardinality(OddMessages)' <= Cardinality(OddMessages \cup {n})
      BY <2>6, <2>8, <3>2, SubsetCount
    <3>4. Cardinality(OddMessages)' <= Cardinality(OddMessages) + 1
      BY <1>1, <3>2, <3>3
    <3> QED
      BY <1>1, <1>4, <2>5, <3>1, <3>4 DEF MessagesAreCounted, Failures
  <2> QED
    BY <2>7, <2>8
<1> QED
  BY <1>3, <1>4

\* What the bound allows for never becomes less in a process.
LEMMA AllowanceGrows ==
  ASSUME GInv, TypeOK', [Next]_vars, stopping => stopping'
  PROVE  /\ Allowance <= Allowance'
         /\ Failures + 1 <= Failures' => Allowance + 1 <= Allowance'
         /\ \A o \in Exhausted' \ Exhausted : Allowance + 1 <= Allowance'
         /\ stopping => \A t \in Spent' \ Spent : Allowance + 1 <= Allowance'
<1>1. IInv /\ TypeOK /\ BoundIsNumber /\ BoundIsNumber'
  BY BoundType, BoundTypeNext DEF GInv, IInv
<1>2. PICK e \in Nat, f \in Nat : e = Cardinality(Exhausted) /\ f = Cardinality(Exhausted)'
  BY <1>1 DEF BoundIsNumber
<1>3. PICK p \in Nat, q \in Nat : p = Cardinality(Spent) /\ q = Cardinality(Spent)'
  BY <1>1 DEF BoundIsNumber
<1>4. PICK a \in Int, b \in Int : a = Failures /\ b = Failures'
  BY <1>1 DEF BoundIsNumber
<1>5. a <= b
  BY <1>4, FailuresGrow
<1>6. e <= f /\ (Exhausted' \ Exhausted # {} => e + 1 <= f)
  <2>1. IsFiniteSet(Exhausted') /\ Exhausted \subseteq Exhausted'
    BY <1>1, ExhaustedGrows DEF BoundIsNumber
  <2> QED
    BY <1>2, <2>1, SubsetCount, AddCount
<1>7. stopping => p <= q /\ (Spent' \ Spent # {} => p + 1 <= q)
  <2> SUFFICES ASSUME stopping PROVE p <= q /\ (Spent' \ Spent # {} => p + 1 <= q)
    OBVIOUS
  <2>1. IsFiniteSet(Spent') /\ Spent \subseteq Spent'
    BY <1>1, SpentGrows DEF BoundIsNumber
  <2> QED
    BY <1>3, <2>1, SubsetCount, AddCount
<1>8. PICK r \in Int, v \in Int : r = Allowance /\ v = Allowance'
  BY <1>1 DEF BoundIsNumber
<1>9. r = a + e + (IF stopping THEN p ELSE 0) /\ v = b + f + (IF stopping' THEN q ELSE 0)
  BY <1>2, <1>3, <1>4, <1>8 DEF Allowance
<1>10. r <= v
  BY <1>5, <1>6, <1>7, <1>9
<1>11. a + 1 <= b => r + 1 <= v
  BY <1>5, <1>6, <1>7, <1>9
<1>12. e + 1 <= f => r + 1 <= v
  BY <1>5, <1>6, <1>7, <1>9
<1>13. stopping /\ p + 1 <= q => r + 1 <= v
  BY <1>5, <1>6, <1>9
<1>14. Exhausted' \ Exhausted # {} => r + 1 <= v
  BY <1>6, <1>12
<1>15. stopping /\ Spent' \ Spent # {} => r + 1 <= v
  BY <1>7, <1>13
<1> QED
  BY <1>4, <1>8, <1>10, <1>11, <1>14, <1>15

\* By how much one write moves the gauge that is due away from the table: by
\* nothing when it returns no error, unless the invoice was settled before.
LEMMA WriteDrift ==
  ASSUME IInv, NEW t \in EventTypes, At(t, "write"), SetInvoice(t), UNCHANGED <<gauge, baseline>>,
         \A u \in EventTypes : u # t => consumer'[u] = consumer[u],
         NEW s \in InvoiceStatus
  PROVE  /\ consumer'[t].pc \notin Behind => OffBy(DueDrift(s)' - DueDrift(s), 1)
         /\ consumer'[t].pc = (IF t = "OrderCreated" THEN "inc" ELSE "dec") =>
              OffBy(DueDrift(s)' - DueDrift(s), IF invoices[Current(t).order] \in Settled THEN 1 ELSE 0)
<1>1. TypeOK
  BY DEF IInv
<1>2. PICK o \in Orders : o = Current(t).order
  BY <1>1, CurrentFacts DEF At
<1>3. /\ invoices'[o] = InvoiceAfter[t]
      /\ \A p \in Orders : p # o => invoices'[p] = invoices[p]
      /\ t = "OrderCreated" => invoices[o] = NoRow
  BY <1>1, <1>2, WriteFacts
<1>0. gauge \in [InvoiceStatus -> Int] /\ gauge' \in [InvoiceStatus -> Int]
  BY <1>1 DEF TypeOK
<1>4. PICK a \in Int, w \in Int, b \in Int : a = Due(s) /\ w = Owed(t, s)' /\ b = Count(baseline, s)
  <2>1. Due(s) \in Int
    BY <1>0, DueChanges
  <2>2. Owed(t, s)' \in Int
    BY OwedTypeNext
  <2> QED
    BY <2>1, <2>2, CountType
<1>5. PICK c \in Int : c = Count(invoices, s)
  BY CountType
<1>6. Count(invoices', s) =
        c + (IF InvoiceAfter[t] = s THEN 1 ELSE 0) - (IF invoices[o] = s THEN 1 ELSE 0)
  BY <1>2, <1>3, <1>5, CountAfter
<1>7. Due(s)' = a + w
  <2>1. Owed(t, s) = 0
    BY OwedType DEF At, Behind
  <2>2. gauge'[s] - gauge[s] = 0
    BY <1>0
  <2>3. Due(s)' = a + (gauge'[s] - gauge[s]) + (w - Owed(t, s))
    BY <1>0, <1>4, DueChanges
  <2> QED
    BY <2>1, <2>2, <2>3
<1>8. DueDrift(s) = a - (c - b) /\ DueDrift(s)' = (a + w) - (Count(invoices', s) - b)
  <2>1. DueDrift(s) = a - (c - b)
    BY <1>4, <1>5 DEF DueDrift
  <2>2. DueDrift(s)' = Due(s)' - (Count(invoices', s) - Count(baseline', s))
    BY DEF DueDrift
  <2>3. Count(baseline', s) = b
    BY <1>2, <1>4, CountAfter, WriteFacts
  <2> QED
    BY <1>7, <2>1, <2>2, <2>3
<1>9. CASE consumer'[t].pc \notin Behind
  <2>1. w = 0
    BY <1>4, <1>9, OwedTypeNext
  <2>2. consumer'[t].pc # (IF t = "OrderCreated" THEN "inc" ELSE "dec")
    BY <1>9 DEF Behind
  <2> QED
    BY <1>6, <1>8, <2>1, <2>2 DEF OffBy
<1>10. CASE consumer'[t].pc = IF t = "OrderCreated" THEN "inc" ELSE "dec"
  <2>1. consumer'[t].pc \in Behind
    BY <1>10 DEF Behind
  <2>2. w = (IF s = InvoiceAfter[t] THEN 1 ELSE 0)
              - (IF s = "PENDING" /\ t # "OrderCreated" THEN 1 ELSE 0)
    BY <1>4, <1>10 DEF Owed, Behind
  <2>3. CASE t = "OrderCreated"
    <3>1. InvoiceAfter[t] = "PENDING" /\ invoices[o] # s /\ invoices[o] \notin Settled
      BY <1>3, <2>3, EventFacts
    <3>2. DueDrift(s)' - DueDrift(s) = 0
      BY <1>6, <1>8, <2>2, <2>3, <3>1
    <3> QED
      BY <1>2, <2>1, <3>1, <3>2 DEF OffBy
  <2>4. CASE t \in Settlements
    <3>1. /\ InvoiceAfter[t] # "PENDING" /\ t # "OrderCreated"
          /\ invoices[o] = "PENDING" \/ (invoices[o] \in Settled /\ invoices[o] # InvoiceAfter[t])
      BY <1>2, <2>4, EventFacts DEF IInv, WritesAreCurrent
    <3>2. CASE invoices[o] = "PENDING"
      <4>1. DueDrift(s)' - DueDrift(s) = 0
        BY <1>6, <1>8, <2>2, <3>1, <3>2
      <4> QED
        BY <1>2, <2>1, <3>2, <4>1, EventFacts DEF OffBy
    <3>3. CASE invoices[o] \in Settled /\ invoices[o] # InvoiceAfter[t]
      <4>1. DueDrift(s)' - DueDrift(s) \in {-1, 0, 1}
        BY <1>6, <1>8, <2>2, <3>1, <3>3, EventFacts
      <4> QED
        BY <1>2, <2>1, <3>3, <4>1 DEF OffBy
    <3> QED
      BY <3>1, <3>2, <3>3
  <2> QED
    BY <2>3, <2>4, EventFacts
<1> QED
  BY <1>9, <1>10

\* A write: what it may cost is an order's second settlement, a failed call, or
\* the last write of a consumer in a process that is shutting down.
LEMMA WriteGauge ==
  ASSUME GInv, TypeOK', NEW t \in EventTypes, WriteInvoice(t)
  PROVE  GaugeIsNear'
<1>1. IInv /\ TypeOK /\ GaugeIsNear /\ BoundIsNumber /\ BoundIsNumber'
  BY BoundType, BoundTypeNext DEF GInv, IInv
<1>2. /\ [Next]_vars /\ At(t, "write") /\ UNCHANGED <<log, baseline, stopping, gauge>>
      /\ \A u \in EventTypes : u # t => consumer'[u] = consumer[u]
  <2>1. Consume(t) /\ At(t, "write") /\ UNCHANGED <<log, baseline, stopping, gauge>>
    BY DEF Consume, WriteInvoice, Within
  <2> QED
    BY <1>1, <2>1, ConsumeMoves DEF Next
<1>3. PICK o \in Orders : o = Current(t).order
  BY <1>1, <1>2, CurrentFacts DEF At
<1>4. /\ Allowance <= Allowance'
      /\ Failures + 1 <= Failures' => Allowance + 1 <= Allowance'
      /\ \A x \in Exhausted' \ Exhausted : Allowance + 1 <= Allowance'
      /\ stopping => \A x \in Spent' \ Spent : Allowance + 1 <= Allowance'
  BY <1>2, AllowanceGrows
<1>5. ASSUME NEW k \in Int, Allowance + k <= Allowance',
             \A s \in InvoiceStatus : OffBy(DueDrift(s)' - DueDrift(s), k)
      PROVE  GaugeIsNear'
  <2> SUFFICES ASSUME NEW s \in InvoiceStatus PROVE OffBy(DueDrift(s)', Allowance')
    BY DEF GaugeIsNear, OffBy
  <2>1. PICK x \in Int, y \in Int, d \in Int, e \in Int :
          x = DueDrift(s) /\ y = DueDrift(s)' /\ d = Allowance /\ e = Allowance'
    BY <1>1 DEF BoundIsNumber
  <2>2. OffBy(x, d) /\ OffBy(y - x, k) /\ d + k <= e
    BY <1>1, <1>5, <2>1 DEF GaugeIsNear
  <2>3. OffBy(y, e)
    BY <2>2, OffByGrows
  <2> QED
    BY <2>1, <2>3
<1>6. CASE UNCHANGED invoices /\ AttemptFailed(t)
  <2>1. ASSUME NEW s \in InvoiceStatus PROVE OffBy(DueDrift(s)' - DueDrift(s), 0)
    <3>1. Owed(t, s) = 0 /\ Owed(t, s)' = 0
      <4>1. Moved(t, {"get", "dlq"})
        BY <1>1, <1>6, FailedMoves
      <4>2. consumer[t].pc \notin Behind /\ consumer'[t].pc \notin Behind
        BY <1>1, <1>2, <4>1 DEF Moved, TypeOK, Behind, At
      <4> QED
        BY <4>2, OwedType, OwedTypeNext
    <3>2. gauge \in [InvoiceStatus -> Int] /\ gauge' \in [InvoiceStatus -> Int]
      BY <1>1, <1>2 DEF TypeOK
    <3>3. Due(s) \in Int /\ Due(s)' = Due(s) + (gauge'[s] - gauge[s]) + (Owed(t, s)' - Owed(t, s))
      BY <1>2, <3>2, DueChanges
    <3>4. gauge'[s] - gauge[s] = 0
      BY <1>2, <3>2
    <3>5. Due(s)' = Due(s)
      BY <3>1, <3>3, <3>4
    <3>6. DueDrift(s)' = DueDrift(s) /\ DueDrift(s) \in Int
      BY <1>1, <1>2, <1>6, <3>5 DEF DueDrift, BoundIsNumber
    <3> QED
      BY <3>6 DEF OffBy
  <2>2. Allowance + 0 <= Allowance'
    BY <1>1, <1>4 DEF BoundIsNumber
  <2> QED
    BY <1>5, <2>1, <2>2
<1>7. CASE SetInvoice(t) /\ Goto(t, IF t = "OrderCreated" THEN "inc" ELSE "dec")
  <2>1. ASSUME invoices[o] \in Settled PROVE o \in Exhausted' \ Exhausted
    <3>1. t \in Settlements /\ Contended(o) /\ invoices[o] # InvoiceAfter[t]
      <4>1. t = "OrderCreated" => invoices[o] = NoRow
        BY <1>1, <1>2, <1>3, <1>7, WriteFacts
      <4>2. t \in Settlements
        BY <2>1, <4>1, EventFacts
      <4> QED
        BY <1>1, <1>2, <1>3, <2>1, <4>2, EventFacts DEF IInv, WritesAreCurrent
    <3>2. invoices'[o] \in Settled
      BY <1>1, <1>2, <2>1, RowsStay
    <3>3. Contended(o)'
      BY <1>2, <3>1 DEF Contended
    <3>4. consumer'[t].pc # "write"
      <4>1. Moved(t, {"inc"}) \/ Moved(t, {"dec"})
        BY <1>1, <1>7, GotoMoves DEF PC
      <4> QED
        BY <1>1, <4>1 DEF Moved, TypeOK
    <3>5. ASSUME NEW u \in Settlements, consumer'[u].pc = "write" PROVE Current(u)'.order # o
      <4>1. u # t /\ u \in EventTypes /\ At(u, "write") /\ Current(u)' = Current(u)
        BY <1>2, <3>4, <3>5, EventFacts DEF At, Current
      <4>2. invoices[o] = InvoiceAfter[u] /\ invoices[o] # "PENDING"
        BY <2>1, <3>1, <4>1, TwoSettlements, EventFacts
      <4> QED
        BY <1>1, <4>1, <4>2 DEF IInv, WritesAreCurrent
    <3>6. o \in Exhausted'
      BY <3>2, <3>3, <3>5, EventFacts DEF Exhausted, At
    <3>7. o \notin Exhausted
      BY <1>2, <1>3, <3>1 DEF Exhausted
    <3> QED
      BY <3>6, <3>7
  <2>2. PICK k \in Int : k = IF invoices[o] \in Settled THEN 1 ELSE 0
    OBVIOUS
  <2>3. Allowance + k <= Allowance'
    BY <1>1, <1>4, <2>1, <2>2 DEF BoundIsNumber
  <2>4. consumer'[t].pc = IF t = "OrderCreated" THEN "inc" ELSE "dec"
    <3>1. Moved(t, {IF t = "OrderCreated" THEN "inc" ELSE "dec"})
      BY <1>1, <1>7, GotoMoves DEF PC
    <3> QED
      BY <1>1, <3>1 DEF Moved, TypeOK
  <2>5. \A s \in InvoiceStatus : OffBy(DueDrift(s)' - DueDrift(s), k)
    BY <1>1, <1>2, <1>3, <1>7, <2>2, <2>4, WriteDrift
  <2> QED
    BY <1>5, <2>3, <2>5
<1>8. CASE Fails /\ AttemptFailed(t) /\ SetInvoice(t)
  <2>0. consumer'[t].pc \in {"get", "dlq"} /\ Current(t)' = Current(t)
    <3>1. Moved(t, {"get", "dlq"})
      BY <1>1, <1>8, FailedMoves
    <3> QED
      BY <1>1, <1>2, <3>1 DEF Moved, TypeOK, Current
  <2>1. \A s \in InvoiceStatus : OffBy(DueDrift(s)' - DueDrift(s), 1)
    BY <1>1, <1>2, <1>8, <2>0, WriteDrift DEF Behind
  <2>2. CASE Disrupt
    <3>1. disruptions' - disruptions = 1
      BY <1>1, <2>2, ConsumerAssumption DEF Disrupt, TypeOK
    <3>2. Failures' - Failures = 1
      BY <1>2, <3>1, FailuresGrow
    <3>3. Failures + 1 <= Failures'
      <4>1. PICK a \in Int, b \in Int : a = Failures /\ b = Failures'
        BY <1>1 DEF BoundIsNumber
      <4>2. b - a = 1
        BY <3>2, <4>1
      <4>3. a + 1 <= b
        BY <4>2
      <4> QED
        BY <4>1, <4>3
    <3> QED
      BY <1>4, <1>5, <2>1, <3>3
  <2>3. CASE stopping
    <3>2. invoices'[o] = InvoiceAfter[t] /\ (t = "OrderCreated" => invoices[o] = NoRow)
      BY <1>1, <1>2, <1>3, <1>8, WriteFacts
    <3>3. t \notin Spent
      BY <1>2, <1>3, <3>2 DEF Spent, At
    <3>4. t \in Spent'
      BY <1>3, <2>0, <3>2, EventFacts DEF Spent, At
    <3> QED
      BY <1>4, <1>5, <2>1, <2>3, <3>3, <3>4
  <2> QED
    BY <1>8, <2>2, <2>3 DEF Fails
<1> QED
  BY <1>6, <1>7, <1>8 DEF WriteInvoice

LEMMA InitGInv == Init => GInv
<1> SUFFICES ASSUME Init PROVE GInv
  OBVIOUS
<1>1. IInv /\ TypeOK /\ BoundIsNumber
  BY InitIInv, BoundType DEF IInv
<1>2. \A t \in EventTypes : log[t] = <<>> /\ Len(log[t]) = 0
  BY DEF Init
<1>3. MessagesAreCounted /\ Failures = 0
  <2>1. OddMessages = {}
    BY <1>2 DEF OddMessages
  <2>2. Cardinality(OddMessages) = 0 /\ disruptions = 0
    BY <2>1, FS_EmptySet DEF Init
  <2>3. Arrived = 0
    <3>1. /\ Len(log["OrderCreated"]) = 0 /\ Len(log["OrderPaid"]) = 0
          /\ Len(log["OrderCancelled"]) = 0
      BY <1>2 DEF EventTypes, Settlements
    <3> QED
      BY <3>1 DEF Arrived
  <2> QED
    BY <1>2, <2>2, <2>3, ConsumerAssumption DEF MessagesAreCounted, Failures
<1>4. GaugeIsNear
  <2>1. Allowance >= 0
    BY <1>1, <1>3 DEF Allowance, BoundIsNumber, Init
  <2>2. ASSUME NEW s \in InvoiceStatus PROVE DueDrift(s) = 0
    <3>1. gauge[s] = 0 /\ Count(baseline, s) = Count(invoices, s)
      BY DEF Init
    <3>2. \A t \in EventTypes : Owed(t, s) = 0
      BY OwedType DEF Init, AtFetch, Behind
    <3>3. Due(s) = 0
      BY <3>1, <3>2 DEF Due, EventTypes, Settlements
    <3> QED
      BY <3>1, <3>3, CountType DEF DueDrift
  <2>3. Allowance \in Int
    BY <1>1 DEF BoundIsNumber
  <2> QED
    BY <2>1, <2>2, <2>3 DEF GaugeIsNear, OffBy
<1> QED
  BY <1>1, <1>3, <1>4 DEF GInv

\* Moving the gauge pays what is owed, and no other call of a consumer owes.
LEMMA DueStays ==
  ASSUME TypeOK, TypeOK', NEW t \in EventTypes, Consume(t), ~ WriteInvoice(t), NEW s \in InvoiceStatus
  PROVE  Due(s)' = Due(s)
<1>1. /\ gauge \in [InvoiceStatus -> Int] /\ gauge' \in [InvoiceStatus -> Int]
      /\ \A u \in EventTypes : u # t => consumer'[u] = consumer[u]
  BY ConsumeMoves DEF TypeOK
<1>2. Due(s) \in Int /\ Due(s)' = Due(s) + (gauge'[s] - gauge[s]) + (Owed(t, s)' - Owed(t, s))
  BY <1>1, DueChanges
<1>3. PICK a \in Int, b \in Int : a = gauge[s] /\ b = gauge'[s]
  BY <1>1
<1>4. CASE DecPending(t)
  <2>1. consumer[t].pc = "dec" /\ consumer'[t].pc = "inc"
    <3>1. Moved(t, {"inc"})
      BY <1>4, GotoMoves DEF DecPending, PC
    <3> QED
      BY <1>4, <3>1 DEF DecPending, At, Moved, TypeOK
  <2>2. b = a + (IF s = "PENDING" THEN -1 ELSE 0)
    BY <1>1, <1>3, <1>4 DEF DecPending, MoveGauge
  <2>3. Owed(t, s)' - Owed(t, s) = IF s = "PENDING" THEN 1 ELSE 0
    BY <2>1 DEF Owed, Behind
  <2> QED
    BY <1>2, <1>3, <2>2, <2>3
<1>5. CASE IncStatus(t)
  <2>1. consumer[t].pc = "inc" /\ consumer'[t].pc = "save"
    <3>1. Moved(t, {"save"})
      BY <1>5, GotoMoves DEF IncStatus, PC
    <3> QED
      BY <1>5, <3>1 DEF IncStatus, At, Moved, TypeOK
  <2>2. b = a + (IF s = InvoiceAfter[t] THEN 1 ELSE 0)
    BY <1>1, <1>3, <1>5, EventFacts DEF IncStatus, MoveGauge
  <2>3. Owed(t, s)' - Owed(t, s) = IF s = InvoiceAfter[t] THEN -1 ELSE 0
    BY <2>1 DEF Owed, Behind
  <2> QED
    BY <1>2, <1>3, <2>2, <2>3
<1>6. CASE ~ DecPending(t) /\ ~ IncStatus(t)
  <2>1. Owed(t, s) = 0 /\ Owed(t, s)' = 0
    BY <1>6, ConsumeMoves, OwedType, OwedTypeNext
  <2>2. gauge' = gauge
    BY <1>6 DEF Consume, FetchMessage, Exists, RetryCancelled, HandleMalformed, Get, DeadLetter, Save,
                CommitMessages, metrics
  <2> QED
    BY <1>2, <1>3, <2>1, <2>2
<1> QED
  BY <1>4, <1>5, <1>6

\* The steps that do not write leave the gauge that is due and the table, or
\* start both afresh.
LEMMA NextGInv == GInv /\ [Next]_vars => GInv'
<1> SUFFICES ASSUME GInv, [Next]_vars PROVE GInv'
  OBVIOUS
<1>1. IInv' /\ TypeOK' /\ IInv /\ TypeOK /\ GaugeIsNear
  BY NextIInv DEF GInv, IInv
<1>2. MessagesAreCounted'
  BY <1>1, FailuresGrow
<1>3. BoundIsNumber /\ BoundIsNumber'
  BY <1>1, BoundType, BoundTypeNext
<1>4. CASE Resume
  <2>1. gauge' = [s \in InvoiceStatus |-> 0] /\ baseline' = invoices /\ invoices' = invoices /\ ~ stopping'
    BY <1>4 DEF Resume, stores
  <2>2. ASSUME NEW s \in InvoiceStatus PROVE DueDrift(s)' = 0
    <3>1. \A t \in EventTypes : Owed(t, s)' = 0
      BY <1>4, OwedTypeNext DEF Resume, AtFetch, Behind
    <3>2. Due(s)' = 0
      BY <2>1, <3>1 DEF Due, EventTypes, Settlements
    <3>3. DueDrift(s)' = 0 - (Count(invoices, s) - Count(invoices, s))
      BY <2>1, <3>2 DEF DueDrift
    <3> QED
      BY <3>3, CountType
  <2>3. Failures' \in Nat /\ Cardinality(Exhausted)' \in Nat
    <3>1. Cardinality(OddMessages)' <= disruptions' /\ disruptions' \in Nat
      BY <1>1, <1>2, ConsumerAssumption DEF MessagesAreCounted, TypeOK
    <3> QED
      BY <1>3, <3>1 DEF Failures, BoundIsNumber
  <2>4. Allowance' \in Nat
    BY <2>1, <2>3 DEF Allowance
  <2>5. GaugeIsNear'
    BY <2>2, <2>4 DEF GaugeIsNear, OffBy
  <2> QED
    BY <1>1, <1>2, <2>5 DEF GInv
<1>5. ASSUME UNCHANGED <<baseline, invoices>>, stopping => stopping',
             \A s \in InvoiceStatus : Due(s)' = Due(s)
      PROVE  GInv'
  <2>1. Allowance <= Allowance'
    BY <1>1, <1>5, AllowanceGrows
  <2>2. ASSUME NEW s \in InvoiceStatus PROVE OffBy(DueDrift(s)', Allowance')
    <3>1. PICK x \in Int, d \in Int, e \in Int : x = DueDrift(s) /\ d = Allowance /\ e = Allowance'
      BY <1>3 DEF BoundIsNumber
    <3>2. DueDrift(s)' = x
      BY <1>5, <3>1 DEF DueDrift
    <3>3. OffBy(x, d) /\ d <= e
      BY <1>1, <2>1, <3>1 DEF GaugeIsNear
    <3>4. OffBy(x, e)
      BY <3>3 DEF OffBy
    <3> QED
      BY <3>1, <3>2, <3>4
  <2>3. GaugeIsNear'
    BY <2>2 DEF GaugeIsNear, OffBy
  <2> QED
    BY <1>1, <1>2, <2>3 DEF GInv
<1>6. ASSUME NEW t \in EventTypes, WriteInvoice(t) PROVE GInv'
  BY <1>1, <1>2, <1>6, WriteGauge DEF GInv
<1>7. ASSUME NEW t \in EventTypes, Consume(t), ~ WriteInvoice(t) PROVE GInv'
  <2>1. UNCHANGED <<baseline, invoices>> /\ stopping' = stopping
    BY <1>7 DEF Consume, FetchMessage, Exists, RetryCancelled, HandleMalformed, Get, DecPending, IncStatus,
                MoveGauge, DeadLetter, Save, CommitMessages, Send, Within, stores, metrics
  <2> QED
    BY <1>1, <1>5, <1>7, <2>1, DueStays
<1>8. ASSUME UNCHANGED <<gauge, baseline, invoices, consumer>>, stopping => stopping' PROVE GInv'
  BY <1>5, <1>8 DEF Due, Owed
<1>9. ASSUME NEW t \in EventTypes, Rebalance(t) \/ \E m \in Message : Publish(t, m)
      PROVE  UNCHANGED <<gauge, baseline, invoices, consumer>> /\ stopping' = stopping
  BY <1>9 DEF Rebalance, Publish, stores, metrics
<1>10. CASE Shutdown \/ UNCHANGED vars
  BY <1>8, <1>10 DEF Shutdown, vars, stores, metrics
<1> QED
  BY <1>4, <1>6, <1>7, <1>8, <1>9, <1>10 DEF Next, Crash, Restart

\* What the consumers owe to one status is at most one for each that lags.
LEMMA OwedIsLagging ==
  ASSUME NEW s
  PROVE  /\ Cardinality(Lagging) \in Nat
         /\ OffBy(Owed("OrderCreated", s) + Owed("OrderPaid", s) + Owed("OrderCancelled", s),
                  Cardinality(Lagging))
<1> DEFINE one(t) == IF t \in Lagging THEN 1 ELSE 0
           L1 == Lagging \cap {"OrderCreated"}
           L2 == L1 \cup (Lagging \cap {"OrderPaid"})
<1>1. ASSUME NEW L, IsFiniteSet(L), NEW x, x \notin L, NEW S, S = L \cup (Lagging \cap {x})
      PROVE  IsFiniteSet(S) /\ Cardinality(S) = Cardinality(L) + one(x)
  <2>1. CASE x \in Lagging
    <3>1. S = L \cup {x}
      BY <1>1, <2>1
    <3> QED
      BY <1>1, <2>1, <3>1, FS_AddElement
  <2>2. CASE x \notin Lagging
    <3>1. S = L
      BY <1>1, <2>2
    <3>2. Cardinality(L) \in Nat
      BY <1>1, FS_CardinalityType
    <3>3. one(x) = 0
      BY <2>2
    <3>4. Cardinality(L) = Cardinality(L) + one(x)
      BY <3>2, <3>3
    <3> QED
      BY <1>1, <3>1, <3>4
  <2> QED
    BY <2>1, <2>2
<1>2. IsFiniteSet(L1) /\ Cardinality(L1) = one("OrderCreated")
  <2>1. L1 = {} \cup (Lagging \cap {"OrderCreated"})
    OBVIOUS
  <2>2. IsFiniteSet(L1) /\ Cardinality(L1) = Cardinality({}) + one("OrderCreated")
    BY <1>1, <2>1, FS_EmptySet
  <2> QED
    BY <2>2, FS_EmptySet
<1>3. IsFiniteSet(L2) /\ Cardinality(L2) = Cardinality(L1) + one("OrderPaid")
  BY <1>1, <1>2
<1>4. Lagging = L2 \cup (Lagging \cap {"OrderCancelled"})
  BY DEF Lagging, EventTypes, Settlements
<1>5. Cardinality(Lagging) = Cardinality(L2) + one("OrderCancelled")
  BY <1>1, <1>3, <1>4
<1>6. PICK a \in {0, 1}, b \in {0, 1}, c \in {0, 1} :
        a = one("OrderCreated") /\ b = one("OrderPaid") /\ c = one("OrderCancelled")
  OBVIOUS
<1>7. Cardinality(Lagging) = a + b + c
  BY <1>2, <1>3, <1>5, <1>6
<1>8. ASSUME NEW t \in EventTypes PROVE Owed(t, s) \in {-1, 0, 1} /\ (one(t) = 0 => Owed(t, s) = 0)
  BY OwedType DEF Lagging, Behind
<1>9. PICK x \in {-1, 0, 1}, y \in {-1, 0, 1}, z \in {-1, 0, 1} :
        /\ x = Owed("OrderCreated", s) /\ y = Owed("OrderPaid", s) /\ z = Owed("OrderCancelled", s)
        /\ (a = 0 => x = 0) /\ (b = 0 => y = 0) /\ (c = 0 => z = 0)
  BY <1>6, <1>8 DEF EventTypes, Settlements
<1>10. OffBy(x + y + z, a + b + c)
  BY <1>6, <1>9 DEF OffBy
<1> QED
  BY <1>7, <1>9, <1>10

\* The gauge follows the table up to one for each consumer between its write and
\* the end of its handler, each failed call, shutdown, crash or rebalance and
\* each order settled twice, and up to one write in hand of each consumer while
\* the process is shutting down.
THEOREM GaugeDriftBounded == Spec => []GaugeDrift
<1>1. GInv => GaugeDrift
  <2> SUFFICES ASSUME GInv, NEW s \in InvoiceStatus
               PROVE  LET slack == Failures + Cardinality(Lagging)
                                     + Cardinality({o \in Orders : Contended(o)})
                                     + (IF stopping THEN Cardinality(EventTypes) ELSE 0)
                      IN  Drift(s) \in -slack .. slack
    BY DEF GaugeDrift
  <2>1. BoundIsNumber
    BY BoundType DEF GInv, IInv
  <2>2. PICK c \in Nat : /\ c = Cardinality({o \in Orders : Contended(o)})
                         /\ Cardinality(Exhausted) <= c
    <3>1. IsFiniteSet({o \in Orders : Contended(o)})
      BY ConsumerAssumption, SubsetCount
    <3>2. Exhausted \subseteq {o \in Orders : Contended(o)}
      BY DEF Exhausted
    <3> QED
      BY <3>1, <3>2, SubsetCount
  <2>3. Cardinality(EventTypes) \in Nat /\ Cardinality(Spent) <= Cardinality(EventTypes)
    <3>1. Spent \subseteq EventTypes
      BY DEF Spent
    <3> QED
      BY <3>1, EventTypesCount, SubsetCount
  <2>4. PICK m \in Nat : m = Cardinality(Lagging)
    BY OwedIsLagging
  <2>5. PICK slack \in Int :
          slack = Failures + m + c + (IF stopping THEN Cardinality(EventTypes) ELSE 0)
    BY <2>1, <2>3 DEF BoundIsNumber
  <2>6. Allowance + m <= slack
    BY <2>1, <2>2, <2>3, <2>5 DEF Allowance, BoundIsNumber
  <2>7. PICK x \in Int, y \in Int, d \in Int : x = Drift(s) /\ y = DueDrift(s) /\ d = Allowance
    BY <2>1 DEF BoundIsNumber
  <2>8. PICK w \in Int :
          w = Owed("OrderCreated", s) + Owed("OrderPaid", s) + Owed("OrderCancelled", s)
    BY OwedType
  <2>9. y = x + w
    <3>1. PICK g \in Int : g = gauge[s]
      BY DEF GInv, IInv, TypeOK
    <3>2. PICK a \in Int, b \in Int : a = Count(invoices, s) /\ b = Count(baseline, s)
      BY CountType
    <3>3. Due(s) = g + w
      <4>1. PICK j \in Int, k \in Int, l \in Int :
              j = Owed("OrderCreated", s) /\ k = Owed("OrderPaid", s) /\ l = Owed("OrderCancelled", s)
        BY OwedType
      <4>2. Due(s) = g + j + k + l /\ w = j + k + l
        BY <2>8, <3>1, <4>1 DEF Due
      <4> QED
        BY <4>2
    <3> QED
      BY <2>7, <3>1, <3>2, <3>3 DEF Drift, DueDrift
  <2>10. OffBy(y, d) /\ OffBy(w, m)
    BY <2>4, <2>7, <2>8, OwedIsLagging DEF GInv, GaugeIsNear
  <2>11. x \in -slack .. slack
    BY <2>6, <2>7, <2>9, <2>10 DEF OffBy
  <2> QED
    BY <2>2, <2>4, <2>5, <2>7, <2>11
<1> QED
  BY <1>1, InitGInv, NextGInv, PTL DEF Spec

-----------------------------------------------------------------------------
(* Where the invoices come from.                                           *)

\* A handler comes to its write with a payload it could use.
WritesHaveMessages == \A t \in EventTypes : At(t, "write") => Current(t).kind # "malformed"

\* The status of an invoice is the effect of a message that is on its topic.
InvoicesHaveMessages ==
  \A o \in Orders, t \in EventTypes :
    invoices[o] = InvoiceAfter[t] =>
      \E i \in DOMAIN log[t] : log[t][i].order = o /\ log[t][i].kind # "malformed"

LEMMA HandNext ==
  ASSUME IInv, WritesHaveMessages, [Next]_vars
  PROVE  WritesHaveMessages'
<1> SUFFICES ASSUME NEW t \in EventTypes, consumer'[t].pc = "write"
             PROVE  (Current(t).kind # "malformed")'
  BY DEF WritesHaveMessages, At
<1>1. consumer'[t].pc \in Busy
  BY DEF Busy
<1>2. ~ FetchMessage(t)
  BY FetchMoves DEF IInv
<1>3. Current(t)' = Current(t) /\ (At(t, "write") \/ Get(t))
  BY <1>1, <1>2, InHand
<1>4. Current(t).kind # "malformed"
  BY <1>3 DEF WritesHaveMessages, Get
<1> QED
  BY <1>3, <1>4

LEMMA MessagesNext ==
  ASSUME IInv, WritesHaveMessages, InvoicesHaveMessages, [Next]_vars
  PROVE  InvoicesHaveMessages'
<1> SUFFICES ASSUME NEW o \in Orders, NEW t \in EventTypes, invoices'[o] = InvoiceAfter[t]
             PROVE  \E i \in DOMAIN log'[t] : log'[t][i].order = o /\ log'[t][i].kind # "malformed"
  BY DEF InvoicesHaveMessages
<1>1. \E i \in DOMAIN log[t] : log[t][i].order = o /\ log[t][i].kind # "malformed"
  <2>1. CASE invoices'[o] = invoices[o]
    BY <2>1 DEF InvoicesHaveMessages
  <2>2. CASE invoices'[o] # invoices[o]
    <3>1. PICK u \in EventTypes : At(u, "write") /\ SetInvoice(u)
      BY <2>2, WhoWrites
    <3>2. o = Current(u).order /\ invoices'[o] = InvoiceAfter[u]
      BY <2>2, <3>1, WriteFacts DEF IInv
    <3>3. u = t
      BY <3>2 DEF InvoiceAfter, EventTypes
    <3>4. consumer[t].offset \in DOMAIN log[t] /\ Current(t) = log[t][consumer[t].offset]
      BY <3>1, <3>3, CurrentFacts DEF IInv, At
    <3>5. Current(t).kind # "malformed"
      BY <3>1, <3>3 DEF WritesHaveMessages
    <3> QED
      BY <3>2, <3>3, <3>4, <3>5
  <2> QED
    BY <2>1, <2>2
<1>2. \A i \in DOMAIN log[t] : i \in DOMAIN log'[t] /\ log'[t][i] = log[t][i]
  BY TopicsGrow DEF IInv
<1> QED
  BY <1>1, <1>2

\* No invoice exists, or is settled, without a message on the topic that says
\* so: neither retries nor restarts nor undecodable payloads make one.
THEOREM InvoicesCaused == Spec => []InvoicesHaveMessages
<1>1. Init => WritesHaveMessages /\ InvoicesHaveMessages
  <2> SUFFICES ASSUME Init PROVE WritesHaveMessages /\ InvoicesHaveMessages
    OBVIOUS
  <2>1. \A t \in EventTypes : ~ At(t, "write")
    BY DEF Init, At, AtFetch
  <2>2. \A o \in Orders : \A t \in EventTypes : invoices[o] # InvoiceAfter[t]
    BY EventFacts DEF Init
  <2> QED
    BY <2>1, <2>2 DEF WritesHaveMessages, InvoicesHaveMessages
<1>2. IInv /\ WritesHaveMessages /\ InvoicesHaveMessages /\ [Next]_vars =>
        WritesHaveMessages' /\ InvoicesHaveMessages'
  BY HandNext, MessagesNext
<1> QED
  BY <1>1, <1>2, InitIInv, NextIInv, PTL DEF Spec
==============================================================================
