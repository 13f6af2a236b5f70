---------------------------- MODULE BillingQuery ----------------------------
(***************************************************************************)
(* billing_service: BillingQueryService reads the table `invoices` while   *)
(* the consumers write it.  ListInvoices gives one page per call, by       *)
(* OFFSET; GetBillingStats runs four statements that each see what was     *)
(* committed before it (READ COMMITTED); GetInvoiceByOrder is one read.    *)
(* The readers write nothing, so a behaviour has one of them.              *)
(***************************************************************************)
EXTENDS OrderEvents, Integers, FiniteSets

CONSTANTS MaxInvoices,    \* bound: orders
          CreatedAt,      \* when they were created: two may be at the same instant
          MaxWrites,      \* bound: writes to the table in a behaviour
          Filters,        \* statuses clients list by
          Limits,         \* limits clients ask for
          DefaultLimit,   \* 20 in the code
          MaxLimit        \* 100 in the code

Orders == 1 .. MaxInvoices

ASSUME QueryAssumption ==
  /\ MaxInvoices \in Nat
  /\ CreatedAt \in [Orders -> Nat]
  /\ MaxWrites \in Nat
  /\ Filters \subseteq InvoiceStatus \cup {"UNSPECIFIED"} /\ Filters # {}
  /\ Limits \subseteq Int
  /\ DefaultLimit \in 1 .. MaxLimit
  /\ MaxLimit \in Nat

VARIABLES invoices,   \* table invoices: the status column, by order
          contended,  \* whether orders are both paid and cancelled (see BillingConsumer)
          reader,     \* who reads: a client that lists, asks for the stats, or polls
          filter,     \* the status the client lists by
          page,       \* the last page it was given
          offset,     \* the invoices it was given so far, counted
          seen,       \* and as a set
          initial,    \* history: what there was to list when it began
          done,       \* it was given an empty page
          counts,     \* results of the statements of GetStats
          stmt,       \* statements executed
          writes,     \* history: writes since the first of them
          known       \* what GetInvoiceByOrder has told the client, by order

walk == <<filter, page, offset, seen, initial, done>>
stats == <<counts, stmt, writes>>
setting == <<contended, reader>>
vars == <<invoices, setting, walk, stats, known>>

Readers == {"list", "stats", "poll"}

Rows == {o \in Orders : invoices[o] # NoRow}

WithStatus(s) == {o \in Rows : invoices[o] = s}

\* INVOICE_STATUS_UNSPECIFIED is no filter.
Matching(s) == IF s = "UNSPECIFIED" THEN Rows ELSE WithStatus(s)

Columns == {"paid", "total", "pending", "cancelled"}

TypeOK ==
  /\ invoices \in [Orders -> InvoiceStatus \cup {NoRow}]
  /\ contended \in BOOLEAN
  /\ reader \in Readers
  /\ filter \in Filters
  /\ page \subseteq Orders /\ Cardinality(page) <= MaxLimit
  /\ offset \in Nat
  /\ seen \subseteq Orders /\ initial \subseteq Orders
  /\ done \in BOOLEAN
  /\ counts \in [Columns -> Nat]
  /\ stmt \in 0 .. 4
  /\ writes \in Nat
  /\ known \in [Orders -> InvoiceStatus \cup {NoRow}]

Init ==
  /\ invoices \in [Orders -> InvoiceStatus \cup {NoRow}]
  /\ contended \in BOOLEAN
  /\ reader \in Readers
  /\ filter \in (IF reader = "list" THEN Filters ELSE {CHOOSE f \in Filters : TRUE})
  /\ page = {} /\ offset = 0 /\ seen = {} /\ done = FALSE
  /\ initial = Matching(filter)
  /\ counts = [k \in Columns |-> 0] /\ stmt = 0 /\ writes = 0
  /\ known = [o \in Orders |-> NoRow]

-----------------------------------------------------------------------------
\* The consumers.  created_at is that of the order: an invoice may be inserted
\* after, and sort before or behind, invoices that have been listed.
WriteInvoice(o, status) ==
  /\ writes < MaxWrites
  /\ invoices' = [invoices EXCEPT ![o] = status]
  /\ writes' = writes + 1
  /\ UNCHANGED <<setting, walk, counts, stmt, known>>

Create(o) == invoices[o] = NoRow /\ WriteInvoice(o, "PENDING")

\* A consumer that read PENDING settles the invoice, even if another one has.
Settle(o, t) ==
  /\ invoices[o] = "PENDING" \/ (contended /\ invoices[o] \notin {NoRow, InvoiceAfter[t]})
  /\ WriteInvoice(o, InvoiceAfter[t])

Write == \E o \in Orders : Create(o) \/ \E t \in Settlements : Settle(o, t)

\* Variant: no upper limit.
PageLimitUncapped(limit) == IF limit <= 0 THEN DefaultLimit ELSE limit

PageLimit(limit) ==
  CASE limit <= 0 -> DefaultLimit
    [] limit > MaxLimit -> MaxLimit
    [] OTHER -> limit

\* Variant: the query has no ORDER BY.
FirstUnordered(n, M) ==
  {T \in SUBSET M : Cardinality(T) = IF n < Cardinality(M) THEN n ELSE Cardinality(M)}

\* The first n of the rows M in ORDER BY created_at DESC.  The query breaks no
\* ties: rows of one created_at come in any order, another one in every page.
First(n, M) ==
  {T \in SUBSET M :
     /\ Cardinality(T) = IF n < Cardinality(M) THEN n ELSE Cardinality(M)
     /\ \A o \in T, p \in M \ T : CreatedAt[o] >= CreatedAt[p]}

\* The pages that LIMIT limit OFFSET from may give.
Listed(s, limit, from) ==
  UNION {First(limit, Matching(s) \ skipped) : skipped \in First(from, Matching(s))}

\* The client asks for the page after the invoices it has.
ListInvoices(limit) ==
  /\ reader = "list"
  /\ ~ done
  /\ page' \in Listed(filter, PageLimit(limit), offset)
  /\ seen' = seen \cup page'
  /\ offset' = offset + Cardinality(page')
  /\ done' = (page' = {})
  /\ UNCHANGED <<invoices, setting, filter, initial, stats, known>>

\* Variant: the total is counted first.
TotalFirst == <<"total", "paid", "pending", "cancelled">>

\* The statements of GetStats, in their order.
Statements == <<"paid", "total", "pending", "cancelled">>

\* Variant: the last statement repeats the condition of the first.
CountedPaidTwice(column) ==
  CASE column = "total" -> Rows
    [] column = "pending" -> WithStatus("PENDING")
    [] OTHER -> WithStatus("PAID")

Counted(column) ==
  CASE column = "total" -> Rows
    [] column = "paid" -> WithStatus("PAID")
    [] column = "pending" -> WithStatus("PENDING")
    [] column = "cancelled" -> WithStatus("CANCELLED")

\* One statement.  An error of any of them ends the call without a result.
GetStats ==
  /\ reader = "stats"
  /\ stmt < 4
  /\ counts' = [counts EXCEPT ![Statements[stmt + 1]] = Cardinality(Counted(Statements[stmt + 1]))]
  /\ stmt' = stmt + 1
  /\ writes' = IF stmt = 0 THEN 0 ELSE writes
  /\ UNCHANGED <<invoices, setting, walk, known>>

\* Variant: any error of the query is taken for a missing row, as GetOrder of
\* order_service does.
GetByOrderIDAnyError(o) == {invoices[o], NoRow}

\* The row; none, which is NotFound; or an error, which is not.
GetByOrderID(o) == {invoices[o], "error"}

\* mapError keeps the two apart: Internal tells the client nothing.
Told(o, result) == known' = [known EXCEPT ![o] = IF result = "error" THEN @ ELSE result]

GetInvoiceByOrder(o) ==
  /\ reader = "poll"
  /\ \E result \in GetByOrderID(o) : Told(o, result)
  /\ UNCHANGED <<invoices, setting, walk, stats>>

Next ==
  \/ Write \/ GetStats
  \/ \E l \in Limits : ListInvoices(l)
  \/ \E o \in Orders : GetInvoiceByOrder(o)

Spec == Init /\ [][Next]_vars

-----------------------------------------------------------------------------
\* No other row that is listed has the created_at of o.
Untied(o) == \A p \in Matching(filter) \ {o} : CreatedAt[p] # CreatedAt[o]

\* ListInvoices by OFFSET: a client that pages until it gets an empty page was
\* given every invoice that was there when it began and shares its created_at
\* with no other, whatever was inserted or settled meanwhile, wherever other
\* invoices are tied and whatever limits it asked for.  It takes a filter whose
\* rows stay: none, or PAID or CANCELLED if every order is settled once; with
\* PENDING, which rows leave, invoices are missed.
WalkMissesNothing ==
  done /\ (filter = "UNSPECIFIED" \/ (~ contended /\ filter # "PENDING"))
    => \A o \in initial : Untied(o) => o \in seen

\* GetBillingStats never reports more paid invoices than invoices.
PaidWithinTotal == stmt = 4 => counts["paid"] <= counts["total"]

\* The figures of GetBillingStats disagree by no more than the invoices written
\* while they were read: they add up when nothing was.
StatsDrift ==
  stmt = 4 =>
    LET sum == counts["paid"] + counts["pending"] + counts["cancelled"]
    IN  counts["total"] \in sum - writes .. sum + writes

\* GetInvoiceByOrder, polled while events are consumed and queries fail: an
\* invoice the client was shown never disappears or becomes PENDING again, and
\* of an order that was settled once the settlement it was shown is final.
PollsMoveForward ==
  [][\A o \in Orders :
       /\ known[o] # NoRow => known'[o] # NoRow
       /\ known[o] \in {"PAID", "CANCELLED"} =>
            known'[o] = known[o] \/ (contended /\ known'[o] \in {"PAID", "CANCELLED"})]_known
=============================================================================
