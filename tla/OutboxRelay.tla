----------------------------- MODULE OutboxRelay -----------------------------
(***************************************************************************)
(* order_service: the relay that carries the rows of `outbox_events` to    *)
(* Kafka.  It fetches a batch of PENDING rows, and for each one writes a   *)
(* message and then marks the row SENT: two systems, no transaction.  The  *)
(* writer is built without RequiredAcks, so that a write that returns no   *)
(* error may still not have reached the broker's log.                      *)
(***************************************************************************)
EXTENDS OrderEvents, Sequences, FiniteSets

CONSTANTS Orders,      \* order ids
          Oversized,   \* orders whose OrderCreated payload exceeds the writer's BatchBytes
          BatchSize,   \* OUTBOX_BATCH_SIZE
          MaxEvents,   \* bound: rows the service commits in a behaviour
          MaxFaults    \* bound: failed calls, lost messages and crashes in a behaviour

ASSUME RelayAssumption ==
  /\ Oversized \subseteq Orders
  /\ BatchSize \in Nat \ {0}
  /\ MaxEvents \in Nat
  /\ MaxFaults \in Nat

VARIABLES outbox,      \* table outbox_events
          batch,       \* the rows processOnce has fetched and not finished
          written,     \* WriteMessages returned nil for Head(batch)
          published,   \* the rows whose messages Kafka has stored, in that order
          dropped,     \* history: rows whose write returned nil but was not stored
          failed,      \* history: rows for which a write has returned an error
          faults       \* faults so far

vars == <<outbox, batch, written, published, dropped, failed, faults>>

Rows == DOMAIN outbox

TypeOK ==
  /\ outbox \in Seq(OutboxEvent(Orders))
  /\ batch \in Seq(Rows)
  /\ written \in BOOLEAN
  /\ written => batch # <<>>
  /\ published \in Seq(Rows)
  /\ dropped \subseteq Rows
  /\ failed \subseteq Rows
  /\ faults \in 0 .. MaxFaults

Init ==
  /\ outbox = <<>>
  /\ batch = <<>>
  /\ written = FALSE
  /\ published = <<>>
  /\ dropped = {}
  /\ failed = {}
  /\ faults = 0

Fault == faults < MaxFaults /\ faults' = faults + 1

-----------------------------------------------------------------------------
\* The OrderCreated row of an order, if it has one.
IsCreated(i, o) == outbox[i].order = o /\ outbox[i].type = "OrderCreated"

\* A handler's transaction commits an event stamped some time before.  What
\* OrderService shows of the events is assumed of them here: one OrderCreated
\* per order, settlements only after it, and stamped after it was committed.
Enqueue(o, t, stamp) ==
  /\ Len(outbox) < MaxEvents
  /\ stamp <= Len(outbox)
  /\ \/ t = "OrderCreated" /\ \A i \in Rows : ~ IsCreated(i, o)
     \/ t \in Settlements /\ \E i \in Rows : IsCreated(i, o) /\ i <= stamp
  /\ outbox' = Append(outbox, [order |-> o, type |-> t,
                               createdAt |-> stamp, status |-> "PENDING"])
  /\ UNCHANGED <<batch, written, published, dropped, failed, faults>>

\* Variant: FetchPending without its condition on the status.
AnyStatus == Rows

Pending == {i \in Rows : outbox[i].status = "PENDING"}

BatchLength == IF Cardinality(Pending) < BatchSize THEN Cardinality(Pending) ELSE BatchSize

\* Variant: FetchPending without ORDER BY.
Unordered(b) == \A k, l \in DOMAIN b : k < l => b[k] # b[l]

\* WHERE status = 'PENDING' ORDER BY created_at ASC LIMIT BatchSize: rows with
\* the same created_at come in any order.
Selectable(b) ==
  /\ \A k, l \in DOMAIN b : k < l => b[k] # b[l] /\ outbox[b[k]].createdAt <= outbox[b[l]].createdAt
  /\ \A k \in DOMAIN b, i \in Pending :
       (\A l \in DOMAIN b : i # b[l]) => outbox[b[k]].createdAt <= outbox[i].createdAt

\* A tick.  A query that finds no row, or fails, leaves everything to the next.
FetchPending ==
  /\ batch = <<>>
  /\ \E b \in [1 .. BatchLength -> Pending] : Selectable(b) /\ batch' = b
  /\ UNCHANGED <<outbox, written, published, dropped, failed, faults>>

TooLarge(i) == outbox[i].type = "OrderCreated" /\ outbox[i].order \in Oversized

Store(i) == published' = Append(published, i)

\* Variant: the error of WriteMessages is ignored.
IgnoreError(i) ==
  /\ written' = TRUE
  /\ failed' = failed \cup {i}
  /\ UNCHANGED batch

\* Variant: processOnce returns at the first error.
StopAtError(i) ==
  /\ batch' = <<>>
  /\ failed' = failed \cup {i}
  /\ UNCHANGED written

\* WriteMessages returned an error: log it and `continue` with the next row.
Skip(i) ==
  /\ batch' = Tail(batch)
  /\ failed' = failed \cup {i}
  /\ UNCHANGED written

\* WriteMessages returned nil, with the message in the log or lost.
Written(i) ==
  /\ ~ TooLarge(i)
  /\ written' = TRUE
  /\ UNCHANGED <<batch, failed>>
  /\ \/ Store(i) /\ UNCHANGED <<dropped, faults>>
     \/ Fault /\ dropped' = dropped \cup {i} /\ UNCHANGED published

\* A message above BatchBytes is refused by the writer every time; any other
\* write may fail, before or after the broker has stored the message.
WriteFailed(i) ==
  /\ Skip(i)
  /\ UNCHANGED dropped
  /\ \/ TooLarge(i) /\ UNCHANGED <<published, faults>>
     \/ ~ TooLarge(i) /\ Fault /\ (Store(i) \/ UNCHANGED published)

WriteMessages ==
  /\ batch # <<>>
  /\ ~ written
  /\ Written(Head(batch)) \/ WriteFailed(Head(batch))
  /\ UNCHANGED outbox

\* The UPDATE of the row takes effect or it does not; the error is only logged.
MarkSent ==
  /\ written
  /\ \/ outbox' = [outbox EXCEPT ![Head(batch)].status = "SENT"] /\ UNCHANGED faults
     \/ Fault /\ UNCHANGED outbox
  /\ batch' = Tail(batch)
  /\ written' = FALSE
  /\ UNCHANGED <<published, dropped, failed>>

\* Variant: a new cycle starts with a flag of the last one.
CrashKeepsWritten ==
  /\ batch # <<>>
  /\ Fault
  /\ batch' = <<>>
  /\ UNCHANGED <<outbox, written, published, dropped, failed>>

\* The process dies, or its context is cancelled so that every remaining call
\* of the cycle fails, and starts again.
Crash ==
  /\ batch # <<>>
  /\ Fault
  /\ batch' = <<>>
  /\ written' = FALSE
  /\ UNCHANGED <<outbox, published, dropped, failed>>

\* processOnce, one call at a time.
Process == FetchPending \/ WriteMessages \/ MarkSent

Next ==
  \/ \E o \in Orders, t \in EventTypes, stamp \in 0 .. MaxEvents : Enqueue(o, t, stamp)
  \/ Process
  \/ Crash

Spec == Init /\ [][Next]_vars

\* The ticker keeps firing and every call returns.
FairSpec == Spec /\ WF_vars(Process)

-----------------------------------------------------------------------------
Sent == {i \in Rows : outbox[i].status = "SENT"}

\* MarkSent follows WriteMessages: no row leaves PENDING on a write that failed,
\* whatever crashed in between.
SentWasWritten ==
  \A i \in Sent : i \in dropped \/ \E k \in DOMAIN published : published[k] = i

\* At least once, and not more without a reason: every copy of a message but
\* the first is paid for by a failed call or a crash.
CopiesNeedFaults ==
  Len(published) <= Cardinality(Sent) + faults + (IF written THEN 1 ELSE 0)

\* ORDER BY created_at: the message of a payment or cancellation is stored
\* after the OrderCreated message of its order, through crashes, repeated rows
\* and batch boundaries, unless writing that OrderCreated failed or was lost.
CreatedIsFirst ==
  \A k \in DOMAIN published, c \in Rows :
    IsCreated(c, outbox[published[k]].order) /\ c # published[k] =>
      \/ c \in failed \cup dropped
      \/ \E j \in 1 .. k - 1 : published[j] = c

\* "No event is ever lost": a row the relay will not look at again is in Kafka.
NoEventIsLost ==
  \A i \in Sent : \E k \in DOMAIN published : published[k] = i

\* The relay drains: once faults stop, every row the writer can carry is sent,
\* also behind rows that fail for ever.
EventuallySent ==
  \A i \in 1 .. MaxEvents :
    (i \in Rows /\ ~ TooLarge(i)) ~> (i \in Sent)
==============================================================================
