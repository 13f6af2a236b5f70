-------------------------- MODULE OutboxRelayProofs --------------------------
(***************************************************************************)
(* OutboxRelay, proved for any orders, batch size and number of faults.    *)
(*                                                                         *)
(* What the relay is about to do depends on a batch it fetched some steps  *)
(* ago, while the handlers kept committing rows and its own writes failed  *)
(* or were lost.  The invariant says what is still true of that batch:     *)
(* BatchIsCurrent, and, for the order of publication, CreatedIsAhead.      *)
(***************************************************************************)
EXTENDS OutboxRelay, FiniteSetTheorems, SequenceTheorems, TLAPS

\* The rows as Enqueue makes them: stamped before they are committed, with one
\* OrderCreated per order, which a settlement's stamp is not older than.
RowsAreOrdered ==
  \A i \in Rows :
    /\ outbox[i].createdAt < i
    /\ \E c \in Rows : IsCreated(c, outbox[i].order) /\ (c # i => c <= outbox[i].createdAt)
    /\ \A c \in Rows : IsCreated(i, outbox[i].order) /\ IsCreated(c, outbox[i].order) => c = i

\* The rows of the batch are still PENDING, all different, and oldest first.
BatchIsCurrent ==
  /\ \A k \in DOMAIN batch : outbox[batch[k]].status = "PENDING"
  /\ \A k, l \in DOMAIN batch : k < l =>
       batch[k] # batch[l] /\ outbox[batch[k]].createdAt <= outbox[batch[l]].createdAt

\* A write of the row returned nil.
WasWritten(i) == i \in dropped \/ \E k \in DOMAIN published : published[k] = i

HeadWasWritten == written => WasWritten(Head(batch))

\* Before a settlement is written, its OrderCreated has been tried: it is gone
\* from the batch or was not in it, or stands before it.
CreatedIsAhead ==
  \A k \in DOMAIN batch, c \in Rows :
    IsCreated(c, outbox[batch[k]].order) /\ c # batch[k] =>
      \/ c \in failed \/ WasWritten(c)
      \/ \E l \in 1 .. k - 1 : batch[l] = c

IInv ==
  /\ TypeOK
  /\ RowsAreOrdered
  /\ BatchIsCurrent
  /\ HeadWasWritten
  /\ CreatedIsAhead
  /\ SentWasWritten
  /\ CopiesNeedFaults
  /\ CreatedIsFirst

-----------------------------------------------------------------------------
\* What a row of the table is.
LEMMA RowFacts ==
  ASSUME TypeOK, NEW i \in Rows
  PROVE  /\ i \in 1 .. Len(outbox)
         /\ outbox[i] \in OutboxEvent(Orders)
         /\ outbox[i].order \in Orders
         /\ outbox[i].createdAt \in Nat
         /\ outbox[i].status \in {"PENDING", "SENT"}
<1>1. i \in 1 .. Len(outbox) /\ outbox[i] \in OutboxEvent(Orders)
  BY DEF TypeOK, Rows
<1> QED
  BY <1>1 DEF OutboxEvent

\* The rows, and those that are SENT or PENDING, can be counted.
LEMMA FiniteRows ==
  ASSUME TypeOK
  PROVE  /\ IsFiniteSet(Rows)
         /\ IsFiniteSet(Sent) /\ Cardinality(Sent) \in Nat
         /\ IsFiniteSet(Pending) /\ Cardinality(Pending) \in Nat
<1>1. Len(outbox) \in Nat /\ Rows = 1 .. Len(outbox)
  BY LenProperties DEF TypeOK, Rows
<1>2. IsFiniteSet(Rows)
  BY <1>1, FS_Interval
<1>3. Sent \subseteq Rows /\ Pending \subseteq Rows
  BY DEF Sent, Pending
<1> QED
  BY <1>2, <1>3, FS_Subset, FS_CardinalityType

\* The first row of a batch, and what is left when it is done with.
LEMMA HeadAndTail ==
  ASSUME TypeOK, batch # <<>>
  PROVE  /\ Head(batch) \in Rows /\ Head(batch) = batch[1] /\ 1 \in DOMAIN batch
         /\ Tail(batch) \in Seq(Rows)
         /\ \A k \in DOMAIN Tail(batch) :
              /\ k \in Nat \ {0} /\ k + 1 \in DOMAIN batch
              /\ Tail(batch)[k] = batch[k + 1]
  BY HeadTailProperties DEF TypeOK

\* What Append does to the rows Kafka has stored.
LEMMA Stored ==
  ASSUME TypeOK, NEW i \in Rows, Store(i)
  PROVE  /\ published' \in Seq(Rows)
         /\ Len(published') = Len(published) + 1
         /\ DOMAIN published' = 1 .. Len(published) + 1
         /\ \A k \in DOMAIN published : k \in DOMAIN published' /\ published'[k] = published[k]
         /\ published'[Len(published) + 1] = i
  BY AppendProperties DEF TypeOK, Store

\* A step that leaves the table alone keeps what is said about the rows.
LEMMA RowsKept ==
  ASSUME IInv, UNCHANGED outbox
  PROVE  /\ RowsAreOrdered'
         /\ Rows' = Rows /\ Sent' = Sent
         /\ \A i \in Rows, o \in Orders : IsCreated(i, o)' <=> IsCreated(i, o)
  BY DEF IInv, RowsAreOrdered, Rows, Sent, IsCreated

\* A write that returned nil stays one.
LEMMA WrittenForEver ==
  ASSUME TypeOK, dropped \subseteq dropped',
         published' = published \/ \E i \in Rows : Store(i)
  PROVE  \A c \in Rows : WasWritten(c) => WasWritten(c)'
  BY Stored DEF WasWritten

\* A row is finished: the rows behind it keep their place, and their
\* OrderCreated, if it was this one, has now been tried.
LEMMA FinishHead ==
  ASSUME IInv, batch # <<>>, batch' = Tail(batch), NEW h, h = Head(batch),
         Rows' = Rows,
         \A i \in Rows : /\ outbox'[i].order = outbox[i].order
                         /\ outbox'[i].type = outbox[i].type
                         /\ outbox'[i].createdAt = outbox[i].createdAt,
         \A i \in Rows : i # Head(batch) => outbox'[i].status = outbox[i].status,
         failed \subseteq failed',
         \A c \in Rows : WasWritten(c) => WasWritten(c)',
         h \in failed' \/ WasWritten(h)'
  PROVE  BatchIsCurrent' /\ CreatedIsAhead'
<1>1. batch \in Seq(Rows) /\ TypeOK
  BY DEF IInv, TypeOK
<1>2. ASSUME NEW k \in DOMAIN batch'
      PROVE  /\ k \in Nat \ {0} /\ k + 1 \in DOMAIN batch
             /\ batch'[k] = batch[k + 1] /\ batch[k + 1] \in Rows
             /\ batch[k + 1] # Head(batch)
  <2>1. k \in Nat \ {0} /\ k + 1 \in DOMAIN batch /\ batch'[k] = batch[k + 1]
    BY <1>1, HeadAndTail
  <2>2. 1 \in DOMAIN batch /\ Head(batch) = batch[1]
    BY <1>1, HeadAndTail
  <2>3. batch[k + 1] # batch[1]
    BY <2>1, <2>2 DEF IInv, BatchIsCurrent
  <2> QED
    BY <1>1, <2>1, <2>2, <2>3
<1>3. BatchIsCurrent'
  <2>1. ASSUME NEW k \in DOMAIN batch' PROVE outbox'[batch'[k]].status = "PENDING"
    BY <1>2 DEF IInv, BatchIsCurrent
  <2>2. ASSUME NEW k \in DOMAIN batch', NEW l \in DOMAIN batch', k < l
        PROVE  batch'[k] # batch'[l] /\ outbox'[batch'[k]].createdAt <= outbox'[batch'[l]].createdAt
    <3>1. k + 1 < l + 1
      BY <1>2, <2>2
    <3> QED
      BY <1>2, <3>1 DEF IInv, BatchIsCurrent
  <2> QED
    BY <2>1, <2>2 DEF BatchIsCurrent
<1>4. CreatedIsAhead'
  <2> SUFFICES ASSUME NEW k \in DOMAIN batch', NEW c \in Rows,
                      IsCreated(c, outbox[batch[k]].order)', c # batch'[k],
                      c \notin failed', ~ WasWritten(c)'
               PROVE  \E l \in 1 .. k - 1 : batch'[l] = c
    BY DEF CreatedIsAhead
  <2>1. IsCreated(c, outbox[batch[k + 1]].order) /\ c # batch[k + 1]
    BY <1>2 DEF IsCreated
  <2>2. c \notin failed /\ ~ WasWritten(c)
    OBVIOUS
  <2>3. PICK l \in 1 .. (k + 1) - 1 : batch[l] = c
    BY <1>2, <2>1, <2>2 DEF IInv, CreatedIsAhead
  <2>4. c # h
    OBVIOUS
  <2>5. l # 1
    BY <1>1, <2>3, <2>4, HeadAndTail
  <2>6. l - 1 \in 1 .. k - 1 /\ (l - 1) + 1 = l
    BY <1>2, <2>5
  <2>7. l - 1 \in DOMAIN batch'
    BY <1>1, <2>6, LenProperties, HeadTailProperties
  <2>8. batch'[l - 1] = batch[l]
    BY <1>2, <2>6, <2>7
  <2> QED
    BY <2>3, <2>6, <2>8
<1> QED
  BY <1>3, <1>4

-----------------------------------------------------------------------------
LEMMA InitIInv == Init => IInv
<1> SUFFICES ASSUME Init PROVE IInv
  OBVIOUS
<1>1. Rows = {} /\ Sent = {} /\ DOMAIN batch = {} /\ DOMAIN published = {} /\ Len(published) = 0
  BY DEF Init, Rows, Sent
<1>2. TypeOK
  <2>1. <<>> \in Seq(OutboxEvent(Orders)) /\ <<>> \in Seq(Rows)
    OBVIOUS
  <2>2. 0 \in 0 .. MaxFaults
    BY RelayAssumption
  <2> QED
    BY <2>1, <2>2 DEF Init, TypeOK
<1>3. CopiesNeedFaults
  BY <1>1, FS_EmptySet DEF Init, CopiesNeedFaults
<1> QED
  BY <1>1, <1>2, <1>3 DEF Init, IInv, RowsAreOrdered, BatchIsCurrent, HeadWasWritten,
                          CreatedIsAhead, SentWasWritten, CreatedIsFirst

\* A handler commits a row behind the ones there are: no row of the batch or
\* of the log gets an OrderCreated it did not have.
LEMMA EnqueueIInv ==
  ASSUME IInv, NEW o \in Orders, NEW t \in EventTypes, NEW stamp \in 0 .. MaxEvents,
         Enqueue(o, t, stamp)
  PROVE  IInv'
<1> DEFINE row == [order |-> o, type |-> t, createdAt |-> stamp, status |-> "PENDING"]
<1>1. TypeOK /\ outbox \in Seq(OutboxEvent(Orders))
  BY DEF IInv, TypeOK
<1>0. PICK n \in Nat : n = Len(outbox) + 1
  BY <1>1
<1>2. stamp \in Nat /\ stamp < n
  BY <1>0, RelayAssumption DEF Enqueue
<1>3. row \in OutboxEvent(Orders)
  BY <1>2 DEF OutboxEvent
<1>4. /\ outbox' \in Seq(OutboxEvent(Orders))
      /\ Rows' = Rows \cup {n} /\ n \notin Rows
      /\ \A i \in Rows : outbox'[i] = outbox[i] /\ i \in Nat /\ i < n
      /\ outbox'[n] = row
  BY <1>0, <1>1, <1>3, AppendProperties DEF Enqueue, Rows
<1>5. TypeOK'
  <2>1. batch' \in Seq(Rows') /\ published' \in Seq(Rows')
    BY <1>1, <1>4, SeqMonotonic DEF Enqueue, TypeOK
  <2> QED
    BY <1>4, <2>1 DEF IInv, TypeOK, Enqueue
<1>6. ASSUME NEW i \in Rows
      PROVE  /\ ~ IsCreated(n, outbox[i].order)'
             /\ \A c \in Rows : IsCreated(c, outbox[i].order)' <=> IsCreated(c, outbox[i].order)
  <2>1. PICK c \in Rows : IsCreated(c, outbox[i].order)
    BY DEF IInv, RowsAreOrdered
  <2>2. ~ (t = "OrderCreated" /\ outbox[i].order = o)
    BY <2>1 DEF Enqueue, IsCreated, Settlements
  <2> QED
    BY <1>4, <2>2 DEF IsCreated
<1>7. RowsAreOrdered'
  <2>1. ASSUME NEW i \in Rows
        PROVE  /\ outbox'[i].createdAt < i
               /\ \E c \in Rows' : IsCreated(c, outbox[i].order)' /\ (c # i => c <= outbox'[i].createdAt)
               /\ \A c \in Rows' : IsCreated(i, outbox[i].order)' /\ IsCreated(c, outbox[i].order)' => c = i
    BY <1>4, <1>6 DEF IInv, RowsAreOrdered
  <2>2. CASE t = "OrderCreated"
    <3>1. \A c \in Rows' : IsCreated(c, outbox[n].order)' <=> c = n
      <4>1. \A c \in Rows : ~ IsCreated(c, o)
        BY <2>2 DEF Enqueue, Settlements
      <4> QED
        BY <1>4, <2>2, <4>1 DEF IsCreated
    <3> QED
      BY <1>2, <1>4, <2>1, <3>1 DEF RowsAreOrdered
  <2>3. CASE t # "OrderCreated"
    <3>1. PICK c \in Rows : IsCreated(c, o) /\ c <= stamp
      BY <2>3 DEF Enqueue
    <3>2. ~ IsCreated(n, outbox[n].order)' /\ IsCreated(c, outbox[n].order)'
      BY <1>4, <2>3, <3>1 DEF IsCreated
    <3> QED
      BY <1>2, <1>4, <2>1, <3>1, <3>2 DEF RowsAreOrdered
  <2> QED
    BY <2>2, <2>3
<1>8. UNCHANGED <<batch, written, published, dropped, failed, faults>>
  BY DEF Enqueue
<1>9. /\ \A k \in DOMAIN batch : batch[k] \in Rows
      /\ \A k \in DOMAIN published : published[k] \in Rows
  BY <1>1 DEF TypeOK
<1>10. BatchIsCurrent'
  BY <1>4, <1>8, <1>9 DEF IInv, BatchIsCurrent
<1>11. HeadWasWritten'
  BY <1>8 DEF IInv, HeadWasWritten, WasWritten
<1>12. CreatedIsAhead'
  BY <1>4, <1>6, <1>8, <1>9 DEF IInv, CreatedIsAhead, WasWritten, IsCreated
<1>13. Sent' = Sent
  BY <1>4 DEF Sent
<1>14. SentWasWritten' /\ CopiesNeedFaults'
  BY <1>8, <1>13 DEF IInv, SentWasWritten, CopiesNeedFaults
<1>15. CreatedIsFirst'
  BY <1>4, <1>6, <1>8, <1>9 DEF IInv, CreatedIsFirst, IsCreated
<1> QED
  BY <1>5, <1>7, <1>10, <1>11, <1>12, <1>14, <1>15 DEF IInv

\* ORDER BY created_at: a settlement is fetched behind its OrderCreated, which
\* is older, unless that one is no longer PENDING.
LEMMA FetchIInv ==
  ASSUME IInv, FetchPending
  PROVE  IInv'
<1>1. UNCHANGED <<outbox, written, published, dropped, failed, faults>>
  BY DEF FetchPending
<1>2. PICK b \in [1 .. BatchLength -> Pending] : Selectable(b) /\ batch' = b
  BY DEF FetchPending
<1>3. TypeOK
  BY DEF IInv
<1>4. ~ written
  BY DEF IInv, TypeOK, FetchPending
<1>5. BatchLength \in Nat
  BY <1>3, FiniteRows, RelayAssumption DEF BatchLength
<1>6. /\ b \in Seq(Rows) /\ DOMAIN b = 1 .. BatchLength
      /\ \A k \in DOMAIN b : k \in Nat /\ b[k] \in Pending /\ b[k] \in Rows
  BY <1>5 DEF Pending
<1>7. TypeOK'
  BY <1>1, <1>2, <1>4, <1>6, RowsKept DEF IInv, TypeOK
<1>8. BatchIsCurrent'
  BY <1>1, <1>2, <1>6 DEF BatchIsCurrent, Selectable, Pending
<1>9. CreatedIsAhead'
  <2> SUFFICES ASSUME NEW k \in DOMAIN b, NEW c \in Rows,
                      IsCreated(c, outbox[b[k]].order), c # b[k],
                      ~ WasWritten(c)
               PROVE  \E l \in 1 .. k - 1 : b[l] = c
    BY <1>1, <1>2, RowsKept DEF CreatedIsAhead, WasWritten, Rows, IsCreated
  <2>1. b[k] \in Rows /\ k \in Nat
    BY <1>6
  <2>2. PICK d \in Rows : IsCreated(d, outbox[b[k]].order) /\ (d # b[k] => d <= outbox[b[k]].createdAt)
    BY <2>1 DEF IInv, RowsAreOrdered
  <2>3. d = c
    BY <2>1, <2>2 DEF IInv, RowsAreOrdered, IsCreated
  <2>4. outbox[c].createdAt < c /\ c <= outbox[b[k]].createdAt
    BY <2>1, <2>2, <2>3 DEF IInv, RowsAreOrdered
  <2>5. outbox[c].createdAt < outbox[b[k]].createdAt
    BY <1>3, <2>1, <2>4, RowFacts
  <2>6. outbox[c].status # "SENT"
    BY DEF IInv, SentWasWritten, Sent, WasWritten
  <2>7. c \in Pending
    BY <1>3, <2>6, RowFacts DEF Pending
  <2>8. PICK l \in DOMAIN b : b[l] = c
    BY <1>2, <1>3, <2>1, <2>5, <2>7, RowFacts DEF Selectable
  <2>9. l \in Nat /\ l # k /\ ~ (k < l)
    BY <1>2, <1>3, <1>6, <2>1, <2>5, <2>8, RowFacts DEF Selectable
  <2> QED
    BY <1>5, <1>6, <2>1, <2>8, <2>9
<1>10. HeadWasWritten'
  BY <1>1, <1>4 DEF HeadWasWritten
<1>11. SentWasWritten' /\ CopiesNeedFaults' /\ CreatedIsFirst'
  BY <1>1 DEF IInv, SentWasWritten, CopiesNeedFaults, CreatedIsFirst, Sent, Rows, IsCreated
<1> QED
  BY <1>1, <1>7, <1>8, <1>9, <1>10, <1>11, RowsKept DEF IInv

\* The rows a step of the relay can name.
LEMMA LogFacts ==
  ASSUME TypeOK
  PROVE  /\ Len(published) \in Nat /\ DOMAIN published = 1 .. Len(published)
         /\ \A k \in DOMAIN published : published[k] \in Rows
         /\ faults \in Nat
  BY LenProperties, RelayAssumption DEF TypeOK

\* A message is appended to the log while its row is the next in the batch: the
\* OrderCreated of its order has been tried before.
LEMMA StoreInOrder ==
  ASSUME IInv, batch # <<>>, NEW i, i = Head(batch),
         UNCHANGED outbox, failed \subseteq failed', dropped \subseteq dropped',
         Store(i) \/ published' = published
  PROVE  CreatedIsFirst'
<1>1. TypeOK /\ i \in Rows /\ 1 \in DOMAIN batch /\ i = batch[1]
  BY HeadAndTail DEF IInv
<1>2. Rows' = Rows
  BY DEF Rows
<1>3. CASE published' = published
  BY <1>2, <1>3 DEF IInv, CreatedIsFirst, IsCreated
<1>4. CASE Store(i)
  <2> SUFFICES ASSUME NEW k \in DOMAIN published', NEW c \in Rows,
                      IsCreated(c, outbox[published'[k]].order), c # published'[k],
                      c \notin failed' \cup dropped'
               PROVE  \E j \in 1 .. k - 1 : published'[j] = c
    BY <1>2 DEF CreatedIsFirst, IsCreated
  <2>1. CASE k \in DOMAIN published
    <3>1. published'[k] = published[k]
      BY <1>1, <1>4, <2>1, Stored
    <3>2. PICK j \in 1 .. k - 1 : published[j] = c
      BY <2>1, <3>1 DEF IInv, CreatedIsFirst
    <3>3. j \in DOMAIN published
      BY <1>1, <2>1, LogFacts
    <3> QED
      BY <1>1, <1>4, <3>2, <3>3, Stored
  <2>2. CASE k \notin DOMAIN published
    <3>1. k = Len(published) + 1 /\ published'[k] = i
      BY <1>1, <1>4, <2>2, Stored, LogFacts
    <3>2. WasWritten(c)
      BY <1>1, <3>1 DEF IInv, CreatedIsAhead
    <3>3. PICK j \in DOMAIN published : published[j] = c
      BY <3>2 DEF WasWritten
    <3>4. j \in 1 .. k - 1 /\ published'[j] = c
      BY <1>1, <1>4, <3>1, <3>3, Stored, LogFacts
    <3> QED
      BY <3>4
  <2> QED
    BY <2>1, <2>2
<1> QED
  BY <1>3, <1>4

\* WriteMessages: a copy more is a written head or a fault.
LEMMA WriteIInv ==
  ASSUME IInv, WriteMessages
  PROVE  IInv'
<1>1. PICK i \in Rows : i = Head(batch) /\ 1 \in DOMAIN batch /\ batch[1] = i
  BY HeadAndTail DEF IInv, WriteMessages
<1>2. /\ TypeOK /\ batch # <<>> /\ ~ written /\ UNCHANGED outbox
      /\ Written(i) \/ WriteFailed(i)
  BY <1>1 DEF IInv, WriteMessages
<1>3. /\ failed \subseteq failed' /\ dropped \subseteq dropped'
      /\ failed' \subseteq failed \cup {i} /\ dropped' \subseteq dropped \cup {i}
      /\ Store(i) \/ published' = published
  BY <1>2 DEF Written, WriteFailed, Skip
<1>4. /\ Rows' = Rows /\ Sent' = Sent /\ RowsAreOrdered'
  BY <1>2, RowsKept
<1>5. \A c \in Rows : WasWritten(c) => WasWritten(c)'
  BY <1>2, <1>3, WrittenForEver
<1>6. published' \in Seq(Rows)
  BY <1>2, <1>3, Stored DEF TypeOK
<1>7. faults' \in 0 .. MaxFaults
  BY <1>2, RelayAssumption DEF Written, WriteFailed, Fault, TypeOK
<1>8. CreatedIsFirst'
  BY <1>1, <1>2, <1>3, StoreInOrder
<1>9. SentWasWritten'
  BY <1>4, <1>5 DEF IInv, SentWasWritten, WasWritten, Sent
<1>10. CASE Written(i)
  <2>1. UNCHANGED <<batch, failed>> /\ written' = TRUE
    BY <1>10 DEF Written
  <2>2. TypeOK'
    BY <1>1, <1>2, <1>3, <1>4, <1>6, <1>7, <2>1 DEF TypeOK
  <2>3. BatchIsCurrent'
    BY <1>2, <2>1 DEF IInv, BatchIsCurrent
  <2>4. WasWritten(i)'
    BY <1>2, <1>10, Stored, LogFacts DEF Written, WasWritten
  <2>5. HeadWasWritten'
    BY <1>1, <2>1, <2>4 DEF HeadWasWritten, WasWritten
  <2>6. CreatedIsAhead'
    BY <1>2, <1>4, <1>5, <2>1 DEF IInv, CreatedIsAhead, IsCreated
  <2>7. CopiesNeedFaults'
    <3>1. Len(published) <= Cardinality(Sent) + faults
      BY <1>2, LogFacts, FiniteRows DEF IInv, CopiesNeedFaults
    <3>2. \/ Len(published') = Len(published) + 1 /\ faults' = faults
          \/ published' = published /\ faults' = faults + 1
      BY <1>2, <1>10, Stored DEF Written, Fault
    <3> QED
      BY <1>2, <1>4, <2>1, <3>1, <3>2, LogFacts, FiniteRows DEF CopiesNeedFaults
  <2> QED
    BY <1>4, <1>8, <1>9, <2>2, <2>3, <2>5, <2>6, <2>7 DEF IInv
<1>11. CASE WriteFailed(i)
  <2>1. batch' = Tail(batch) /\ failed' = failed \cup {i} /\ UNCHANGED <<written, dropped>>
    BY <1>11 DEF WriteFailed, Skip
  <2>2. TypeOK'
    BY <1>1, <1>2, <1>3, <1>4, <1>6, <1>7, <2>1, HeadAndTail DEF TypeOK
  <2>3. BatchIsCurrent' /\ CreatedIsAhead'
    BY <1>1, <1>2, <1>3, <1>4, <1>5, <2>1, FinishHead
  <2>4. HeadWasWritten'
    BY <1>2, <2>1 DEF HeadWasWritten
  <2>5. CopiesNeedFaults'
    <3>1. Len(published) <= Cardinality(Sent) + faults
      BY <1>2, LogFacts, FiniteRows DEF IInv, CopiesNeedFaults
    <3>2. \/ published' = published /\ faults' = faults
          \/ /\ faults' = faults + 1
             /\ published' = published \/ Len(published') = Len(published) + 1
      BY <1>2, <1>11, Stored DEF WriteFailed, Fault
    <3> QED
      BY <1>2, <1>4, <2>1, <3>1, <3>2, LogFacts, FiniteRows DEF CopiesNeedFaults
  <2> QED
    BY <1>4, <1>8, <1>9, <2>2, <2>3, <2>4, <2>5 DEF IInv
<1> QED
  BY <1>2, <1>10, <1>11

\* MarkSent: the row was PENDING, so it is one more SENT row, and written.
LEMMA MarkSentIInv ==
  ASSUME IInv, MarkSent
  PROVE  IInv'
<1>1. TypeOK /\ written /\ batch # <<>>
  BY DEF IInv, TypeOK, MarkSent
<1>2. PICK i \in Rows : i = Head(batch) /\ 1 \in DOMAIN batch /\ batch[1] = i
  BY <1>1, HeadAndTail
<1>3. batch' = Tail(batch) /\ written' = FALSE /\ UNCHANGED <<published, dropped, failed>>
  BY DEF MarkSent
<1>4. outbox[i].status = "PENDING" /\ WasWritten(i)
  BY <1>1, <1>2 DEF IInv, BatchIsCurrent, HeadWasWritten
<1>5. \/ outbox' = [outbox EXCEPT ![i].status = "SENT"] /\ faults' = faults
      \/ outbox' = outbox /\ faults' = faults + 1 /\ faults < MaxFaults
  BY <1>2 DEF MarkSent, Fault
<1>6. /\ Rows' = Rows
      /\ \A j \in Rows : /\ outbox'[j].order = outbox[j].order
                         /\ outbox'[j].type = outbox[j].type
                         /\ outbox'[j].createdAt = outbox[j].createdAt
      /\ \A j \in Rows : j # i => outbox'[j].status = outbox[j].status
      /\ outbox' \in Seq(OutboxEvent(Orders))
  <2>1. CASE outbox' = outbox
    BY <1>1, <2>1 DEF Rows, TypeOK
  <2>2. CASE outbox' = [outbox EXCEPT ![i].status = "SENT"]
    <3>1. outbox' = [outbox EXCEPT ![i] = [outbox[i] EXCEPT !.status = "SENT"]]
      BY <2>2
    <3>2. outbox[i] \in OutboxEvent(Orders) /\ i \in 1 .. Len(outbox)
      BY <1>1, RowFacts
    <3>3. /\ [outbox[i] EXCEPT !.status = "SENT"] \in OutboxEvent(Orders)
          /\ [outbox[i] EXCEPT !.status = "SENT"].order = outbox[i].order
          /\ [outbox[i] EXCEPT !.status = "SENT"].type = outbox[i].type
          /\ [outbox[i] EXCEPT !.status = "SENT"].createdAt = outbox[i].createdAt
      BY <3>2 DEF OutboxEvent
    <3>4. outbox' \in Seq(OutboxEvent(Orders))
      BY <1>1, <3>1, <3>2, <3>3, ExceptSeq DEF TypeOK
    <3> QED
      BY <3>1, <3>3, <3>4 DEF Rows
  <2> QED
    BY <1>5, <2>1, <2>2
<1>7. \/ Sent' = Sent /\ faults' = faults + 1
      \/ Sent' = Sent \cup {i} /\ i \notin Sent /\ faults' = faults
  <2>1. CASE outbox' = outbox /\ faults' = faults + 1
    BY <2>1 DEF Sent, Rows
  <2>2. CASE outbox' = [outbox EXCEPT ![i].status = "SENT"] /\ faults' = faults
    <3>1. outbox[i] \in OutboxEvent(Orders) /\ i \in DOMAIN outbox
      BY <1>1, RowFacts DEF Rows
    <3>2. outbox'[i].status = "SENT"
      BY <2>2, <3>1 DEF OutboxEvent
    <3>3. Sent' = Sent \cup {i}
      BY <1>6, <3>2 DEF Sent
    <3> QED
      BY <1>4, <2>2, <3>3 DEF Sent
  <2> QED
    BY <1>5, <2>1, <2>2
<1>8. TypeOK'
  <2>1. faults' \in 0 .. MaxFaults
    BY <1>1, <1>5, RelayAssumption DEF TypeOK
  <2> QED
    BY <1>1, <1>3, <1>6, <2>1, HeadAndTail DEF TypeOK
<1>9. \A c \in Rows : WasWritten(c)' <=> WasWritten(c)
  BY <1>3 DEF WasWritten
<1>10. BatchIsCurrent' /\ CreatedIsAhead'
  BY <1>1, <1>2, <1>3, <1>4, <1>6, <1>9, FinishHead
<1>11. HeadWasWritten'
  BY <1>3 DEF HeadWasWritten
<1>12. RowsAreOrdered'
  <2>1. \A c \in Rows : \A o : IsCreated(c, o)' <=> IsCreated(c, o)
    BY <1>6 DEF IsCreated
  <2> QED
    BY <1>6, <2>1 DEF IInv, RowsAreOrdered, IsCreated
<1>13. SentWasWritten'
  <2>1. \A c \in Sent : WasWritten(c)
    BY DEF IInv, SentWasWritten, WasWritten
  <2>2. \A c \in Sent' : c \in Rows /\ WasWritten(c)
    BY <1>2, <1>4, <1>7, <2>1 DEF Sent
  <2> QED
    BY <1>9, <2>2 DEF SentWasWritten, WasWritten
<1>14. CreatedIsFirst'
  BY <1>1, <1>3, <1>6, LogFacts DEF IInv, CreatedIsFirst, IsCreated
<1>15. CopiesNeedFaults'
  <2>1. Len(published) <= Cardinality(Sent) + faults + 1
    BY <1>1 DEF IInv, CopiesNeedFaults
  <2>2. IsFiniteSet(Sent) /\ Cardinality(Sent) \in Nat /\ faults \in Nat /\ Len(published) \in Nat
    BY <1>1, FiniteRows, LogFacts
  <2>3. i \notin Sent => Cardinality(Sent \cup {i}) = Cardinality(Sent) + 1
    BY <2>2, FS_AddElement
  <2>4. Cardinality(Sent') + faults' = Cardinality(Sent) + faults + 1
    <3>1. CASE Sent' = Sent /\ faults' = faults + 1
      BY <2>2, <3>1
    <3>2. CASE Sent' = Sent \cup {i} /\ i \notin Sent /\ faults' = faults
      BY <2>2, <2>3, <3>2
    <3> QED
      BY <1>7, <3>1, <3>2
  <2> QED
    BY <1>3, <2>1, <2>2, <2>4 DEF CopiesNeedFaults
<1> QED
  BY <1>8, <1>10, <1>11, <1>12, <1>13, <1>14, <1>15 DEF IInv

\* A crash forgets the batch: a written head costs the fault it is.
LEMMA CrashIInv ==
  ASSUME IInv, Crash
  PROVE  IInv'
<1>1. /\ batch' = <<>> /\ written' = FALSE /\ faults' = faults + 1 /\ faults < MaxFaults
      /\ UNCHANGED <<outbox, published, dropped, failed>> /\ TypeOK
  BY DEF IInv, Crash, Fault
<1>2. Rows' = Rows /\ Sent' = Sent /\ RowsAreOrdered'
  BY <1>1, RowsKept
<1>3. TypeOK'
  <2>1. faults' \in 0 .. MaxFaults /\ <<>> \in Seq(Rows)
    BY <1>1, RelayAssumption DEF TypeOK
  <2> QED
    BY <1>1, <1>2, <2>1 DEF TypeOK
<1>4. BatchIsCurrent' /\ HeadWasWritten' /\ CreatedIsAhead'
  BY <1>1 DEF BatchIsCurrent, HeadWasWritten, CreatedIsAhead
<1>5. SentWasWritten' /\ CreatedIsFirst'
  BY <1>1, <1>2 DEF IInv, SentWasWritten, CreatedIsFirst, IsCreated
<1>6. CopiesNeedFaults'
  <2>1. Len(published) <= Cardinality(Sent) + faults + 1
    BY <1>1, LogFacts, FiniteRows DEF IInv, CopiesNeedFaults
  <2> QED
    BY <1>1, <1>2, <2>1, LogFacts, FiniteRows DEF CopiesNeedFaults
<1> QED
  BY <1>2, <1>3, <1>4, <1>5, <1>6 DEF IInv

LEMMA NextIInv == IInv /\ [Next]_vars => IInv'
<1> SUFFICES ASSUME IInv, [Next]_vars PROVE IInv'
  OBVIOUS
<1>1. CASE UNCHANGED vars
  BY <1>1 DEF vars, IInv, TypeOK, RowsAreOrdered, BatchIsCurrent, HeadWasWritten, CreatedIsAhead,
              WasWritten, SentWasWritten, CopiesNeedFaults, CreatedIsFirst, IsCreated, Sent, Rows
<1>2. CASE \E o \in Orders, t \in EventTypes, stamp \in 0 .. MaxEvents : Enqueue(o, t, stamp)
  BY <1>2, EnqueueIInv
<1>3. CASE Process
  BY <1>3, FetchIInv, WriteIInv, MarkSentIInv DEF Process
<1>4. CASE Crash
  BY <1>4, CrashIInv
<1> QED
  BY <1>1, <1>2, <1>3, <1>4 DEF Next

-----------------------------------------------------------------------------
\* The relay's table, batch and log stay well-typed; in particular the flag of
\* a written head never outlives its batch.
THEOREM RelayTypeCorrect == Spec => []TypeOK
<1>1. IInv => TypeOK
  BY DEF IInv
<1> QED
  BY <1>1, InitIInv, NextIInv, PTL DEF Spec

\* processOnce marks a row SENT only after a write of it returned nil: the
\* message is in the log, or was lost by a writer that asks for no ack.
THEOREM SentWritten == Spec => []SentWasWritten
<1>1. IInv => SentWasWritten
  BY DEF IInv
<1> QED
  BY <1>1, InitIInv, NextIInv, PTL DEF Spec

\* At-least-once delivery with a price: Kafka holds at most one message per
\* SENT row, one for the write in hand, and one for each fault.
THEOREM CopiesBounded == Spec => []CopiesNeedFaults
<1>1. IInv => CopiesNeedFaults
  BY DEF IInv
<1> QED
  BY <1>1, InitIInv, NextIInv, PTL DEF Spec

\* FetchPending's ORDER BY created_at keeps the order of publication, for any
\* batch size and number of faults: no settlement before its OrderCreated,
\* unless a write of that one failed or was lost.
THEOREM CreatedPublishedFirst == Spec => []CreatedIsFirst
<1>1. IInv => CreatedIsFirst
  BY DEF IInv
<1> QED
  BY <1>1, InitIInv, NextIInv, PTL DEF Spec
==============================================================================
