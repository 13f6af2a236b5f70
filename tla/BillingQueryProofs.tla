-------------------------- MODULE BillingQueryProofs --------------------------
(***************************************************************************)
(* BillingQuery, proved for any number of invoices, writes and page sizes. *)
(*                                                                         *)
(* What a reader was told some statements ago is compared with a table     *)
(* that has moved on since.  The invariant bounds the distance between the *)
(* two: StatsAreNear for GetBillingStats, KnownIsBehind for a client that  *)
(* polls, and WalkIsAhead for the pages of ListInvoices.                   *)
(***************************************************************************)
EXTENDS BillingQuery, FiniteSetTheorems, TLAPS

Paid == WithStatus("PAID")
Pending == WithStatus("PENDING")
Cancelled == WithStatus("CANCELLED")

\* x is in -d .. d.
OffBy(x, d) == -d <= x /\ x <= d

\* After each statement, what is still to be counted would make the figures add
\* up, but for the invoices written meanwhile; and the paid ones are invoices.
StatsAreNear ==
  /\ stmt = 1 => OffBy(counts["paid"] - Cardinality(Paid), writes)
  /\ stmt = 2 => OffBy(counts["total"] - counts["paid"]
                         - (Cardinality(Pending) + Cardinality(Cancelled)), writes)
  /\ stmt = 3 => OffBy(counts["total"] - counts["paid"] - counts["pending"]
                         - Cardinality(Cancelled), writes)
  /\ stmt = 4 => OffBy(counts["total"] - counts["paid"] - counts["pending"]
                         - counts["cancelled"], writes)
  /\ stmt = 1 => counts["paid"] <= Cardinality(Rows)
  /\ stmt \in 2 .. 4 => counts["paid"] <= counts["total"]

\* What the client was told is the row, or what the row was before.
KnownIsBehind ==
  \A o \in Orders :
    /\ known[o] # NoRow => invoices[o] # NoRow
    /\ known[o] \in {"PAID", "CANCELLED"} =>
         invoices[o] = known[o] \/ (contended /\ invoices[o] \in {"PAID", "CANCELLED"})

\* The rows that match the filter never stop matching it.
Steady == filter = "UNSPECIFIED" \/ (~ contended /\ filter # "PENDING")

\* The rows of M that every ORDER BY created_at DESC lists before o.
Newer(M, o) == {p \in M : CreatedAt[p] > CreatedAt[o]}

\* No other row of M is of the same instant.
AloneIn(M, o) == \A p \in M \ {o} : CreatedAt[p] # CreatedAt[o]

\* An invoice the client has not been given, and which no other is tied with,
\* is still ahead of its offset.
WalkIsAhead ==
  Steady =>
    /\ initial \subseteq Matching(filter)
    /\ \A o \in initial \ seen :
         AloneIn(Matching(filter), o) => offset <= Cardinality(Newer(Matching(filter), o))
    /\ done => \A o \in initial : AloneIn(Matching(filter), o) => o \in seen

IInv ==
  /\ TypeOK
  /\ StatsAreNear
  /\ KnownIsBehind
  /\ WalkIsAhead

-----------------------------------------------------------------------------
(* Facts about counting.                                                   *)

\* Two sets that differ in one element differ by one at most in size.
LEMMA OneApart ==
  ASSUME NEW A, NEW B, NEW x, IsFiniteSet(A), IsFiniteSet(B), A \ {x} = B \ {x}
  PROVE  /\ Cardinality(A) \in Nat /\ Cardinality(B) \in Nat
         /\ OffBy(Cardinality(B) - Cardinality(A), 1)
<1>1. Cardinality(A) \in Nat /\ Cardinality(B) \in Nat
  BY FS_CardinalityType
<1>2. Cardinality(A \ {x}) \in {Cardinality(A), Cardinality(A) - 1}
  BY FS_RemoveElement
<1>3. Cardinality(B \ {x}) \in {Cardinality(B), Cardinality(B) - 1}
  BY FS_RemoveElement
<1> QED
  BY <1>1, <1>2, <1>3 DEF OffBy

\* Two disjoint sets.
LEMMA CountDisjoint ==
  ASSUME NEW A, NEW B, IsFiniteSet(A), IsFiniteSet(B), A \cap B = {}
  PROVE  IsFiniteSet(A \cup B) /\ Cardinality(A \cup B) = Cardinality(A) + Cardinality(B)
<1>1. /\ Cardinality(A) \in Nat /\ Cardinality(B) \in Nat
      /\ IsFiniteSet(A \cup B)
      /\ Cardinality(A \cup B) = Cardinality(A) + Cardinality(B) - Cardinality(A \cap B)
  BY FS_Union, FS_CardinalityType
<1>2. Cardinality(A \cap B) = 0
  BY FS_EmptySet
<1> QED
  BY <1>1, <1>2

\* LIMIT: as many rows as it says, unless these are all.
LEMMA FirstFacts ==
  ASSUME NEW M, IsFiniteSet(M), NEW n \in Nat, NEW T \in First(n, M)
  PROVE  /\ T \subseteq M /\ IsFiniteSet(T)
         /\ Cardinality(T) \in Nat /\ Cardinality(T) <= n
         /\ T # M => Cardinality(T) = n
<1>1. T \subseteq M /\ Cardinality(T) = IF n < Cardinality(M) THEN n ELSE Cardinality(M)
  BY DEF First
<1>2. /\ IsFiniteSet(T) /\ Cardinality(T) \in Nat /\ Cardinality(M) \in Nat
      /\ T # M => Cardinality(T) # Cardinality(M)
  BY <1>1, FS_Subset, FS_CardinalityType
<1> QED
  BY <1>1, <1>2

\* A page, and a row without ties that is not on it and whose place is not
\* before it: the rows skipped and those on the page are all newer than it.
LEMMA PageIsNewer ==
  ASSUME NEW M \in SUBSET Orders, IsFiniteSet(M), NEW from \in Nat, NEW limit \in Nat,
         1 <= limit, NEW S \in First(from, M), NEW P \in First(limit, M \ S),
         NEW o \in M, o \notin P, AloneIn(M, o), from <= Cardinality(Newer(M, o))
  PROVE  from + Cardinality(P) <= Cardinality(Newer(M, o)) /\ P # {}
<1>1. /\ Newer(M, o) \subseteq M /\ o \notin Newer(M, o)
      /\ \A p \in M : CreatedAt[p] \in Nat
  BY QueryAssumption DEF Newer
<1>2. IsFiniteSet(Newer(M, o)) /\ Cardinality(Newer(M, o)) \in Nat
  BY <1>1, FS_Subset, FS_CardinalityType
<1>3. /\ S \subseteq M /\ IsFiniteSet(S) /\ Cardinality(S) \in Nat /\ Cardinality(S) <= from
      /\ S # M => Cardinality(S) = from
      /\ \A a \in S, b \in M \ S : CreatedAt[a] >= CreatedAt[b]
  BY FirstFacts DEF First
<1>4. o \notin S
  <2> SUFFICES ASSUME o \in S PROVE FALSE
    OBVIOUS
  <2>1. Newer(M, o) \subseteq S /\ Newer(M, o) # S
    BY <1>1, <1>3 DEF Newer
  <2>2. Cardinality(Newer(M, o)) <= Cardinality(S) /\ Cardinality(Newer(M, o)) # Cardinality(S)
    BY <1>3, <2>1, FS_Subset
  <2> QED
    BY <1>2, <1>3, <2>2
<1>5. Cardinality(S) = from
  BY <1>3, <1>4
<1>6. IsFiniteSet(M \ S)
  BY FS_Subset
<1>7. /\ P \subseteq M \ S /\ IsFiniteSet(P) /\ Cardinality(P) \in Nat
      /\ P # M \ S => Cardinality(P) = limit
      /\ \A a \in P, b \in (M \ S) \ P : CreatedAt[a] >= CreatedAt[b]
  BY <1>6, FirstFacts DEF First
<1>8. S \cup P \subseteq Newer(M, o)
  <2> SUFFICES ASSUME NEW a \in S \cup P PROVE a \in Newer(M, o)
    OBVIOUS
  <2>1. a \in M /\ a # o
    BY <1>3, <1>4, <1>7
  <2>2. CreatedAt[a] >= CreatedAt[o]
    BY <1>3, <1>4, <1>7
  <2>3. CreatedAt[a] # CreatedAt[o] /\ CreatedAt[a] \in Nat /\ CreatedAt[o] \in Nat
    BY <1>1, <2>1 DEF AloneIn
  <2> QED
    BY <2>1, <2>2, <2>3 DEF Newer
<1>9. IsFiniteSet(S \cup P) /\ Cardinality(S \cup P) = Cardinality(S) + Cardinality(P)
  BY <1>3, <1>7, CountDisjoint
<1>10. Cardinality(S \cup P) <= Cardinality(Newer(M, o))
  BY <1>2, <1>8, FS_Subset
<1>11. P # {}
  <2>1. P # M \ S
    BY <1>4
  <2>2. Cardinality(P) # 0
    BY <1>7, <2>1
  <2> QED
    BY <2>2, FS_EmptySet
<1> QED
  BY <1>5, <1>9, <1>10, <1>11

-----------------------------------------------------------------------------
(* The table.                                                              *)

\* The statuses divide the rows, which can be counted.
FiguresAddUp ==
  /\ IsFiniteSet(Orders)
  /\ IsFiniteSet(Rows) /\ Cardinality(Rows) \in Nat
  /\ IsFiniteSet(Paid) /\ Cardinality(Paid) \in Nat
  /\ IsFiniteSet(Pending) /\ Cardinality(Pending) \in Nat
  /\ IsFiniteSet(Cancelled) /\ Cardinality(Cancelled) \in Nat
  /\ IsFiniteSet(Pending \cup Cancelled)
  /\ Cardinality(Pending \cup Cancelled) = Cardinality(Pending) + Cardinality(Cancelled)
  /\ Cardinality(Rows) = Cardinality(Paid) + (Cardinality(Pending) + Cardinality(Cancelled))

\* They do in any table, before a step and after it.
LEMMA RowsAddUp == TypeOK => FiguresAddUp
<1> SUFFICES ASSUME TypeOK PROVE FiguresAddUp
  OBVIOUS
<1>1. IsFiniteSet(Orders)
  BY FS_Interval, QueryAssumption DEF Orders
<1>2. /\ Rows \subseteq Orders /\ Paid \subseteq Orders
      /\ Pending \subseteq Orders /\ Cancelled \subseteq Orders
  BY DEF Rows, Paid, Pending, Cancelled, WithStatus
<1>3. Rows = Paid \cup (Pending \cup Cancelled)
  BY DEF TypeOK, Rows, Paid, Pending, Cancelled, WithStatus, InvoiceStatus
<1>4. Paid \cap (Pending \cup Cancelled) = {} /\ Pending \cap Cancelled = {}
  BY DEF Paid, Pending, Cancelled, WithStatus
<1>5. IsFiniteSet(Rows) /\ IsFiniteSet(Paid) /\ IsFiniteSet(Pending) /\ IsFiniteSet(Cancelled)
  BY <1>1, <1>2, FS_Subset
<1>6. /\ IsFiniteSet(Pending \cup Cancelled)
      /\ Cardinality(Pending \cup Cancelled) = Cardinality(Pending) + Cardinality(Cancelled)
  BY <1>4, <1>5, CountDisjoint
<1>7. Cardinality(Rows) = Cardinality(Paid) + (Cardinality(Pending) + Cardinality(Cancelled))
  BY <1>3, <1>4, <1>5, <1>6, CountDisjoint
<1> QED
  BY <1>1, <1>5, <1>6, <1>7, FS_CardinalityType DEF FiguresAddUp

\* The same of the table after a step.
LEMMA RowsAddUpNext == TypeOK' => FiguresAddUp'
  BY RowsAddUp, PTL

\* The rows a filter matches.
LEMMA MatchingFacts ==
  ASSUME TypeOK
  PROVE  /\ Matching(filter) \in SUBSET Orders
         /\ IsFiniteSet(Matching(filter))
<1>1. Matching(filter) \subseteq Orders
  BY DEF Matching, WithStatus, Rows
<1> QED
  BY <1>1, RowsAddUp, FS_Subset DEF FiguresAddUp

\* A consumer writes one row, which was not there, was PENDING, or belongs to
\* an order that is settled twice.
LEMMA WriteFacts ==
  ASSUME IInv, Write
  PROVE  /\ UNCHANGED <<setting, walk, counts, stmt, known>>
         /\ writes' = writes + 1
         /\ \E o \in Orders, status \in InvoiceStatus :
              /\ invoices' = [invoices EXCEPT ![o] = status]
              /\ \/ invoices[o] = NoRow
                 \/ invoices[o] = "PENDING" /\ status \in {"PAID", "CANCELLED"}
                 \/ contended /\ invoices[o] # NoRow /\ status \in {"PAID", "CANCELLED"}
<1>1. PICK o \in Orders : Create(o) \/ \E t \in Settlements : Settle(o, t)
  BY DEF Write
<1>2. CASE Create(o)
  BY <1>2 DEF Create, WriteInvoice, InvoiceStatus
<1>3. CASE \E t \in Settlements : Settle(o, t)
  <2>1. PICK t \in Settlements : Settle(o, t)
    BY <1>3
  <2>2. InvoiceAfter[t] \in {"PAID", "CANCELLED"} /\ InvoiceAfter[t] \in InvoiceStatus
    BY DEF Settlements, EventTypes, InvoiceAfter, InvoiceStatus
  <2> QED
    BY <2>1, <2>2 DEF Settle, WriteInvoice
<1> QED
  BY <1>1, <1>2, <1>3

\* One write moves every figure by one at most, and no row goes away.
LEMMA WriteMovesByOne ==
  ASSUME IInv, TypeOK', Write
  PROVE  /\ OffBy(Cardinality(Paid)' - Cardinality(Paid), 1)
         /\ OffBy(Cardinality(Cancelled)' - Cardinality(Cancelled), 1)
         /\ OffBy((Cardinality(Pending) + Cardinality(Cancelled))'
                     - (Cardinality(Pending) + Cardinality(Cancelled)), 1)
         /\ Rows \subseteq Rows' /\ Cardinality(Rows) <= Cardinality(Rows')
<1>1. PICK o \in Orders, status \in InvoiceStatus : invoices' = [invoices EXCEPT ![o] = status]
  BY WriteFacts
<1>2. TypeOK /\ invoices \in [Orders -> InvoiceStatus \cup {NoRow}]
  BY DEF IInv, TypeOK
<1>3. /\ Paid' \ {o} = Paid \ {o}
      /\ Cancelled' \ {o} = Cancelled \ {o}
      /\ (Pending \cup Cancelled)' \ {o} = (Pending \cup Cancelled) \ {o}
  BY <1>1, <1>2 DEF Paid, Pending, Cancelled, WithStatus, Rows
<1>4. Rows \subseteq Rows'
  BY <1>1, <1>2 DEF Rows, InvoiceStatus, NoRow
<1>5. /\ IsFiniteSet(Paid') /\ IsFiniteSet(Cancelled') /\ IsFiniteSet((Pending \cup Cancelled)')
      /\ IsFiniteSet(Rows')
      /\ Cardinality((Pending \cup Cancelled)') = (Cardinality(Pending) + Cardinality(Cancelled))'
  BY RowsAddUpNext DEF FiguresAddUp
<1>6. /\ IsFiniteSet(Paid) /\ IsFiniteSet(Cancelled) /\ IsFiniteSet(Pending \cup Cancelled)
      /\ Cardinality(Pending \cup Cancelled) = Cardinality(Pending) + Cardinality(Cancelled)
  BY <1>2, RowsAddUp DEF FiguresAddUp
<1>7. OffBy(Cardinality(Paid') - Cardinality(Paid), 1)
  BY <1>3, <1>5, <1>6, OneApart
<1>8. OffBy(Cardinality(Cancelled') - Cardinality(Cancelled), 1)
  BY <1>3, <1>5, <1>6, OneApart
<1>9. OffBy(Cardinality((Pending \cup Cancelled)') - Cardinality(Pending \cup Cancelled), 1)
  BY <1>3, <1>5, <1>6, OneApart
<1>10. Cardinality(Rows) <= Cardinality(Rows')
  BY <1>4, <1>5, FS_Subset
<1> QED
  BY <1>4, <1>5, <1>6, <1>7, <1>8, <1>9, <1>10

\* The rows newer than an invoice can be counted.
LEMMA NewerIsNat ==
  ASSUME TypeOK, NEW o
  PROVE  /\ IsFiniteSet(Newer(Matching(filter), o))
         /\ Cardinality(Newer(Matching(filter), o)) \in Nat
<1>1. Newer(Matching(filter), o) \subseteq Matching(filter)
  BY DEF Newer
<1> QED
  BY <1>1, MatchingFacts, FS_Subset, FS_CardinalityType

-----------------------------------------------------------------------------
LEMMA InitIInv == Init => IInv
<1> SUFFICES ASSUME Init PROVE IInv
  OBVIOUS
<1>1. filter \in Filters
  <2>1. (CHOOSE f \in Filters : TRUE) \in Filters
    BY QueryAssumption
  <2> QED
    BY <2>1 DEF Init
<1>2. Cardinality(page) <= MaxLimit
  BY FS_EmptySet, QueryAssumption DEF Init
<1>3. initial \subseteq Orders
  BY DEF Init, Matching, WithStatus, Rows
<1>4. TypeOK
  <2>1. known \in [Orders -> InvoiceStatus \cup {NoRow}] /\ counts \in [Columns -> Nat]
    BY DEF Init
  <2>2. offset \in Nat /\ stmt \in 0 .. 4 /\ writes \in Nat
    BY DEF Init
  <2>3. page \subseteq Orders /\ seen \subseteq Orders /\ done \in BOOLEAN
    BY DEF Init
  <2> QED
    BY <1>1, <1>2, <1>3, <2>1, <2>2, <2>3 DEF Init, TypeOK
<1>5. StatsAreNear
  BY DEF Init, StatsAreNear
<1>6. KnownIsBehind
  BY DEF Init, KnownIsBehind, NoRow
<1>7. WalkIsAhead
  BY <1>4, NewerIsNat DEF Init, WalkIsAhead
<1> QED
  BY <1>4, <1>5, <1>6, <1>7 DEF IInv

\* A consumer's write: every figure moves by one and is allowed one more, and
\* the rows newer than an invoice can only grow in number.
LEMMA WriteIInv ==
  ASSUME IInv, Write
  PROVE  IInv'
<1>1. TypeOK
  BY DEF IInv
<1>2. /\ UNCHANGED <<contended, reader, filter, page, offset, seen, initial, done, counts, stmt, known>>
      /\ writes' = writes + 1
  BY WriteFacts DEF setting, walk
<1>3. PICK o \in Orders, status \in InvoiceStatus :
        /\ invoices' = [invoices EXCEPT ![o] = status]
        /\ \/ invoices[o] = NoRow
           \/ invoices[o] = "PENDING" /\ status \in {"PAID", "CANCELLED"}
           \/ contended /\ invoices[o] # NoRow /\ status \in {"PAID", "CANCELLED"}
  BY WriteFacts
<1>4. invoices' \in [Orders -> InvoiceStatus \cup {NoRow}]
  BY <1>1, <1>3 DEF TypeOK
<1>5. TypeOK'
  BY <1>1, <1>2, <1>4 DEF TypeOK
<1>6. StatsAreNear'
  <2>1. /\ OffBy(Cardinality(Paid)' - Cardinality(Paid), 1)
        /\ OffBy(Cardinality(Cancelled)' - Cardinality(Cancelled), 1)
        /\ OffBy((Cardinality(Pending) + Cardinality(Cancelled))'
                    - (Cardinality(Pending) + Cardinality(Cancelled)), 1)
        /\ Cardinality(Rows) <= Cardinality(Rows')
    BY <1>5, WriteMovesByOne
  <2>2. /\ Cardinality(Rows) \in Nat /\ Cardinality(Paid) \in Nat
        /\ Cardinality(Pending) \in Nat /\ Cardinality(Cancelled) \in Nat
    BY <1>1, RowsAddUp DEF FiguresAddUp
  <2>3. /\ Cardinality(Rows)' \in Nat /\ Cardinality(Paid)' \in Nat
        /\ Cardinality(Pending)' \in Nat /\ Cardinality(Cancelled)' \in Nat
    BY <1>5, RowsAddUpNext DEF FiguresAddUp
  <2>4. /\ counts["paid"] \in Nat /\ counts["total"] \in Nat
        /\ counts["pending"] \in Nat /\ counts["cancelled"] \in Nat /\ writes \in Nat
    BY <1>1 DEF TypeOK, Columns
  <2>5. StatsAreNear
    BY DEF IInv
  <2> QED
    BY <1>2, <2>1, <2>2, <2>3, <2>4, <2>5 DEF StatsAreNear, OffBy
<1>7. KnownIsBehind'
  <2>1. ASSUME NEW p \in Orders, p # o PROVE invoices'[p] = invoices[p]
    BY <1>1, <1>3, <2>1 DEF TypeOK
  <2>2. invoices'[o] = status
    BY <1>1, <1>3 DEF TypeOK
  <2>3. status # NoRow
    BY DEF InvoiceStatus, NoRow
  <2>4. /\ known[o] # NoRow => invoices[o] # NoRow
        /\ known[o] \in {"PAID", "CANCELLED"} =>
             invoices[o] = known[o] \/ (contended /\ invoices[o] \in {"PAID", "CANCELLED"})
    BY DEF IInv, KnownIsBehind
  <2>5. known[o] \in {"PAID", "CANCELLED"} => contended /\ status \in {"PAID", "CANCELLED"}
    BY <1>3, <2>4 DEF NoRow
  <2> QED
    BY <1>2, <2>1, <2>2, <2>3, <2>5 DEF IInv, KnownIsBehind
<1>8. WalkIsAhead'
  <2> SUFFICES ASSUME Steady
               PROVE  /\ initial \subseteq Matching(filter)'
                      /\ \A i \in initial \ seen :
                           AloneIn(Matching(filter)', i)
                             => offset <= Cardinality(Newer(Matching(filter)', i))
                      /\ done => \A i \in initial : AloneIn(Matching(filter)', i) => i \in seen
    BY <1>2 DEF WalkIsAhead, Steady, AloneIn, Newer
  <2>1. Matching(filter) \subseteq Matching(filter)'
    <3>1. ASSUME NEW p \in Orders, invoices[p] # NoRow PROVE invoices'[p] # NoRow
      BY <1>1, <1>3, <3>1 DEF TypeOK, InvoiceStatus, NoRow
    <3>2. CASE filter = "UNSPECIFIED"
      BY <1>2, <3>1, <3>2 DEF Matching, Rows
    <3>3. CASE filter # "UNSPECIFIED"
      <4>1. ~ contended /\ filter \in {"PAID", "CANCELLED"}
        BY <1>1, <3>3, QueryAssumption DEF Steady, TypeOK, InvoiceStatus
      <4>2. ASSUME NEW p \in Orders, invoices[p] = filter PROVE invoices'[p] = filter
        BY <1>1, <1>3, <4>1, <4>2 DEF TypeOK, NoRow
      <4> QED
        BY <1>2, <3>1, <3>3, <4>2 DEF Matching, WithStatus, Rows
    <3> QED
      BY <3>2, <3>3
  <2>2. IsFiniteSet(Matching(filter)')
    <3>1. Matching(filter)' \subseteq Orders
      BY DEF Matching, WithStatus, Rows, Orders
    <3> QED
      BY <1>1, <3>1, RowsAddUp, FS_Subset DEF FiguresAddUp
  <2>3. \A i : AloneIn(Matching(filter)', i) => AloneIn(Matching(filter), i)
    BY <2>1 DEF AloneIn
  <2>4. ASSUME NEW i \in initial \ seen, AloneIn(Matching(filter)', i)
        PROVE  offset <= Cardinality(Newer(Matching(filter)', i))
    <3>1. /\ Newer(Matching(filter), i) \subseteq Newer(Matching(filter)', i)
          /\ Newer(Matching(filter)', i) \subseteq Matching(filter)'
      BY <2>1 DEF Newer
    <3>2. IsFiniteSet(Newer(Matching(filter)', i))
      BY <2>2, <3>1, FS_Subset
    <3>3. /\ Cardinality(Newer(Matching(filter), i)) <= Cardinality(Newer(Matching(filter)', i))
          /\ Cardinality(Newer(Matching(filter)', i)) \in Nat
      BY <3>1, <3>2, FS_Subset, FS_CardinalityType
    <3>4. offset <= Cardinality(Newer(Matching(filter), i))
      BY <2>3, <2>4 DEF IInv, WalkIsAhead
    <3>5. Cardinality(Newer(Matching(filter), i)) \in Nat /\ offset \in Nat
      BY <1>1, NewerIsNat DEF TypeOK
    <3> QED
      BY <3>3, <3>4, <3>5
  <2>5. initial \subseteq Matching(filter)
        /\ (done => \A i \in initial : AloneIn(Matching(filter), i) => i \in seen)
    BY DEF IInv, WalkIsAhead
  <2> QED
    BY <2>1, <2>3, <2>4, <2>5
<1> QED
  BY <1>5, <1>6, <1>7, <1>8 DEF IInv

\* ListInvoices: what is not on the page and has no ties is behind it; an empty
\* page has nothing behind it.
LEMMA ListIInv ==
  ASSUME IInv, NEW limit \in Limits, ListInvoices(limit)
  PROVE  IInv'
<1> DEFINE n == PageLimit(limit)
           M == Matching(filter)
<1>1. TypeOK /\ offset \in Nat
  BY DEF IInv, TypeOK
<1>2. n \in Nat /\ 1 <= n /\ n <= MaxLimit
  BY QueryAssumption DEF PageLimit
<1>3. /\ UNCHANGED <<invoices, contended, reader, filter, initial, counts, stmt, writes, known>>
      /\ page' \in Listed(filter, n, offset) /\ seen' = seen \cup page'
      /\ offset' = offset + Cardinality(page') /\ done' = (page' = {})
  BY DEF ListInvoices, setting, stats
<1>4. M \in SUBSET Orders /\ IsFiniteSet(M)
  BY <1>1, MatchingFacts
<1>5. PICK S \in First(offset, M) : page' \in First(n, M \ S)
  BY <1>3 DEF Listed
<1>6. /\ page' \subseteq Orders
      /\ Cardinality(page') \in Nat /\ Cardinality(page') <= n
  <2>1. IsFiniteSet(M \ S)
    BY <1>4, FS_Subset
  <2> QED
    BY <1>2, <1>4, <1>5, <2>1, FirstFacts
<1>7. TypeOK'
  <2>1. Cardinality(page') <= MaxLimit /\ offset' \in Nat
    BY <1>1, <1>2, <1>3, <1>6, QueryAssumption
  <2> QED
    BY <1>1, <1>3, <1>6, <2>1 DEF TypeOK
<1>8. StatsAreNear' /\ KnownIsBehind'
  BY <1>3 DEF IInv, StatsAreNear, KnownIsBehind, Paid, Pending, Cancelled, WithStatus, Rows
<1>9. WalkIsAhead'
  <2>1. Matching(filter)' = M
    BY <1>3 DEF Matching, WithStatus, Rows
  <2> HIDE DEF n, M
  <2> SUFFICES ASSUME Steady
               PROVE  /\ initial \subseteq M
                      /\ \A o \in initial \ seen' :
                           AloneIn(M, o) => offset' <= Cardinality(Newer(M, o))
                      /\ done' => \A o \in initial : AloneIn(M, o) => o \in seen'
    BY <1>3, <2>1 DEF WalkIsAhead, Steady, AloneIn, Newer
  <2>2. /\ initial \subseteq M
        /\ \A o \in initial \ seen : AloneIn(M, o) => offset <= Cardinality(Newer(M, o))
    BY DEF IInv, WalkIsAhead, M
  <2>3. ASSUME NEW o \in initial \ seen', AloneIn(M, o)
        PROVE  /\ offset' <= Cardinality(Newer(M, o))
               /\ page' # {}
    <3>1. o \in M /\ o \notin page' /\ offset <= Cardinality(Newer(M, o))
      BY <1>3, <2>2, <2>3
    <3> QED
      BY <1>1, <1>2, <1>3, <1>4, <1>5, <2>3, <3>1, PageIsNewer
  <2> QED
    BY <1>3, <2>2, <2>3
<1> QED
  BY <1>7, <1>8, <1>9 DEF IInv

\* GetStats: each statement turns a figure of the table into a result.
LEMMA StatsIInv ==
  ASSUME IInv, GetStats
  PROVE  IInv'
<1>1. TypeOK /\ stmt \in {0, 1, 2, 3}
  BY DEF IInv, TypeOK, GetStats
<1>2. /\ UNCHANGED <<invoices, contended, reader, filter, page, offset, seen, initial, done, known>>
      /\ stmt' = stmt + 1 /\ writes' = IF stmt = 0 THEN 0 ELSE writes
      /\ counts' = [counts EXCEPT ![Statements[stmt + 1]] = Cardinality(Counted(Statements[stmt + 1]))]
  BY DEF GetStats, setting, walk
<1>3. /\ Cardinality(Rows) \in Nat /\ Cardinality(Paid) \in Nat
      /\ Cardinality(Pending) \in Nat /\ Cardinality(Cancelled) \in Nat
      /\ Cardinality(Rows) = Cardinality(Paid) + (Cardinality(Pending) + Cardinality(Cancelled))
  BY <1>1, RowsAddUp DEF FiguresAddUp
<1>4. /\ counts \in [Columns -> Nat] /\ writes \in Nat
      /\ counts["paid"] \in Nat /\ counts["total"] \in Nat
      /\ counts["pending"] \in Nat /\ counts["cancelled"] \in Nat
  BY <1>1 DEF TypeOK, Columns
<1>5. Rows' = Rows /\ Paid' = Paid /\ Pending' = Pending /\ Cancelled' = Cancelled
  BY <1>2 DEF Rows, Paid, Pending, Cancelled, WithStatus
<1>6. KnownIsBehind' /\ WalkIsAhead'
  BY <1>2 DEF IInv, KnownIsBehind, WalkIsAhead, Steady, AloneIn, Newer, Matching,
              WithStatus, Rows
<1>7. ASSUME counts' \in [Columns -> Nat] PROVE TypeOK'
  <2>1. writes' \in Nat /\ stmt' \in 0 .. 4
    BY <1>1, <1>2, <1>4
  <2> QED
    BY <1>1, <1>2, <1>7, <2>1 DEF TypeOK
<1>8. CASE stmt = 0
  <2>1. counts' = [counts EXCEPT !["paid"] = Cardinality(Paid)]
    BY <1>2, <1>8 DEF Statements, Counted, Paid
  <2>2. counts' \in [Columns -> Nat] /\ counts'["paid"] = Cardinality(Paid)
    BY <1>3, <1>4, <2>1 DEF Columns
  <2>3. stmt' = 1 /\ writes' = 0
    BY <1>2, <1>8
  <2>4. StatsAreNear'
    BY <1>3, <1>5, <2>2, <2>3 DEF StatsAreNear, OffBy
  <2> QED
    BY <1>6, <1>7, <2>2, <2>4 DEF IInv
<1>9. CASE stmt = 1
  <2>1. counts' = [counts EXCEPT !["total"] = Cardinality(Rows)]
    BY <1>2, <1>9 DEF Statements, Counted
  <2>2. /\ counts' \in [Columns -> Nat]
        /\ counts'["total"] = Cardinality(Rows) /\ counts'["paid"] = counts["paid"]
    BY <1>3, <1>4, <2>1 DEF Columns
  <2>3. stmt' = 2 /\ writes' = writes
    BY <1>2, <1>9
  <2>4. OffBy(counts["paid"] - Cardinality(Paid), writes) /\ counts["paid"] <= Cardinality(Rows)
    BY <1>9 DEF IInv, StatsAreNear
  <2>5. StatsAreNear'
    BY <1>3, <1>4, <1>5, <2>2, <2>3, <2>4 DEF StatsAreNear, OffBy
  <2> QED
    BY <1>6, <1>7, <2>2, <2>5 DEF IInv
<1>10. CASE stmt = 2
  <2>1. counts' = [counts EXCEPT !["pending"] = Cardinality(Pending)]
    BY <1>2, <1>10 DEF Statements, Counted, Pending
  <2>2. /\ counts' \in [Columns -> Nat] /\ counts'["pending"] = Cardinality(Pending)
        /\ counts'["total"] = counts["total"] /\ counts'["paid"] = counts["paid"]
    BY <1>3, <1>4, <2>1 DEF Columns
  <2>3. stmt' = 3 /\ writes' = writes
    BY <1>2, <1>10
  <2>4. /\ OffBy(counts["total"] - counts["paid"]
                   - (Cardinality(Pending) + Cardinality(Cancelled)), writes)
        /\ counts["paid"] <= counts["total"]
    BY <1>10 DEF IInv, StatsAreNear
  <2>5. StatsAreNear'
    BY <1>3, <1>4, <1>5, <2>2, <2>3, <2>4 DEF StatsAreNear, OffBy
  <2> QED
    BY <1>6, <1>7, <2>2, <2>5 DEF IInv
<1>11. CASE stmt = 3
  <2>1. counts' = [counts EXCEPT !["cancelled"] = Cardinality(Cancelled)]
    BY <1>2, <1>11 DEF Statements, Counted, Cancelled
  <2>2. /\ counts' \in [Columns -> Nat] /\ counts'["cancelled"] = Cardinality(Cancelled)
        /\ counts'["total"] = counts["total"] /\ counts'["paid"] = counts["paid"]
        /\ counts'["pending"] = counts["pending"]
    BY <1>3, <1>4, <2>1 DEF Columns
  <2>3. stmt' = 4 /\ writes' = writes
    BY <1>2, <1>11
  <2>4. /\ OffBy(counts["total"] - counts["paid"] - counts["pending"]
                   - Cardinality(Cancelled), writes)
        /\ counts["paid"] <= counts["total"]
    BY <1>11 DEF IInv, StatsAreNear
  <2>5. StatsAreNear'
    BY <1>3, <1>4, <1>5, <2>2, <2>3, <2>4 DEF StatsAreNear, OffBy
  <2> QED
    BY <1>6, <1>7, <2>2, <2>5 DEF IInv
<1> QED
  BY <1>1, <1>8, <1>9, <1>10, <1>11

\* GetInvoiceByOrder: the client is told the row as it is, or nothing.
LEMMA PollFacts ==
  ASSUME IInv, NEW o \in Orders, GetInvoiceByOrder(o)
  PROVE  /\ UNCHANGED <<invoices, setting, walk, stats>>
         /\ known' \in [Orders -> InvoiceStatus \cup {NoRow}]
         /\ \A p \in Orders : known'[p] \in {known[p], invoices[p]}
<1>1. PICK result \in GetByOrderID(o) : Told(o, result)
  BY DEF GetInvoiceByOrder
<1>2. known' = [known EXCEPT ![o] = IF result = "error" THEN known[o] ELSE result]
  BY <1>1 DEF Told
<1>3. result \in {invoices[o], "error"}
  BY <1>1 DEF GetByOrderID
<1> QED
  BY <1>2, <1>3 DEF GetInvoiceByOrder, IInv, TypeOK

LEMMA PollIInv ==
  ASSUME IInv, NEW o \in Orders, GetInvoiceByOrder(o)
  PROVE  IInv'
<1>1. /\ UNCHANGED <<invoices, contended, reader, filter, page, offset, seen, initial, done,
                     counts, stmt, writes>>
      /\ known' \in [Orders -> InvoiceStatus \cup {NoRow}]
      /\ \A p \in Orders : known'[p] \in {known[p], invoices[p]}
  BY PollFacts DEF setting, walk, stats
<1>2. TypeOK'
  BY <1>1 DEF IInv, TypeOK
<1>3. StatsAreNear' /\ WalkIsAhead'
  BY <1>1 DEF IInv, StatsAreNear, Paid, Pending, Cancelled, WalkIsAhead, Steady, AloneIn, Newer,
              Matching, WithStatus, Rows
<1>4. KnownIsBehind'
  BY <1>1 DEF IInv, KnownIsBehind
<1> QED
  BY <1>2, <1>3, <1>4 DEF IInv

LEMMA NextIInv == IInv /\ [Next]_vars => IInv'
<1> SUFFICES ASSUME IInv, [Next]_vars PROVE IInv'
  OBVIOUS
<1>1. CASE UNCHANGED vars
  BY <1>1 DEF vars, setting, walk, stats, IInv, TypeOK, StatsAreNear, KnownIsBehind, WalkIsAhead,
              Steady, AloneIn, Newer, Paid, Pending, Cancelled, Matching, WithStatus, Rows
<1>2. CASE Write
  BY <1>2, WriteIInv
<1>3. CASE GetStats
  BY <1>3, StatsIInv
<1>4. CASE \E l \in Limits : ListInvoices(l)
  BY <1>4, ListIInv
<1>5. CASE \E o \in Orders : GetInvoiceByOrder(o)
  BY <1>5, PollIInv
<1> QED
  BY <1>1, <1>2, <1>3, <1>4, <1>5 DEF Next

-----------------------------------------------------------------------------
\* The readers' state stays well-typed; in particular no page of ListInvoices
\* is longer than MaxLimit, whatever limit a client asks for.
THEOREM QueryTypeCorrect == Spec => []TypeOK
<1>1. IInv => TypeOK
  BY DEF IInv
<1> QED
  BY <1>1, InitIInv, NextIInv, PTL DEF Spec

\* Paging ListInvoices by OFFSET until an empty page gives a client every
\* invoice that was there when it began and is tied with no other, for any
\* table and times, any limits, writes between the pages and order of the rows
\* that are tied, if rows do not leave the filter.
THEOREM WalkComplete == Spec => []WalkMissesNothing
<1>1. IInv => WalkMissesNothing
  BY DEF IInv, WalkIsAhead, Steady, AloneIn, Untied, WalkMissesNothing
<1> QED
  BY <1>1, InitIInv, NextIInv, PTL DEF Spec

\* GetBillingStats counts the paid invoices before it counts all of them, and
\* so never reports more of the former.
THEOREM PaidBounded == Spec => []PaidWithinTotal
<1>1. IInv => PaidWithinTotal
  BY DEF IInv, StatsAreNear, PaidWithinTotal
<1> QED
  BY <1>1, InitIInv, NextIInv, PTL DEF Spec

\* The four statements of GetBillingStats, without a snapshot, are off by no
\* more than the writes between them.
THEOREM StatsDriftBounded == Spec => []StatsDrift
<1>1. IInv => StatsDrift
  <2> SUFFICES ASSUME IInv, stmt = 4 PROVE StatsDrift
    BY DEF StatsDrift
  <2>1. OffBy(counts["total"] - counts["paid"] - counts["pending"] - counts["cancelled"], writes)
    BY DEF IInv, StatsAreNear
  <2>2. /\ counts["paid"] \in Nat /\ counts["total"] \in Nat
        /\ counts["pending"] \in Nat /\ counts["cancelled"] \in Nat /\ writes \in Nat
    BY DEF IInv, TypeOK, Columns
  <2> QED
    BY <2>1, <2>2 DEF StatsDrift, OffBy
<1> QED
  BY <1>1, InitIInv, NextIInv, PTL DEF Spec

\* What GetInvoiceByOrder tells a client that polls moves forward only.
THEOREM PollsForward == Spec => PollsMoveForward
<1> DEFINE Forward(o) ==
      /\ known[o] # NoRow => known'[o] # NoRow
      /\ known[o] \in {"PAID", "CANCELLED"} =>
           known'[o] = known[o] \/ (contended /\ known'[o] \in {"PAID", "CANCELLED"})
<1>1. IInv /\ [Next]_vars => [\A o \in Orders : Forward(o)]_known
  <2> SUFFICES ASSUME IInv, Next, known' # known
               PROVE  \A o \in Orders : Forward(o)
    BY DEF vars
  <2>1. PICK p \in Orders : GetInvoiceByOrder(p)
    BY DEF Next, Write, Create, Settle, WriteInvoice, GetStats, ListInvoices
  <2>2. \A o \in Orders : known'[o] \in {known[o], invoices[o]}
    BY <2>1, PollFacts
  <2> QED
    BY <2>2 DEF IInv, KnownIsBehind
<1> QED
  BY <1>1, InitIInv, NextIInv, PTL DEF Spec, PollsMoveForward
==============================================================================
