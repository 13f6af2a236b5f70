----------------------------- MODULE MCOrderAPI -----------------------------
EXTENDS OrderAPI, TLC

CONSTANTS o1, o2, h1, h2

TwoOrders == {o1, o2}
TwoHandlers == {h1, h2}

\* Items that convert exactly, with a fraction, to nothing, to a whole number
\* of thousands, so near below one that the product may reach it, at the boundary
\* of the width and beyond it, and invalid ones.
Priced(q, a, c) ==
  [priced |-> TRUE, identified |-> TRUE, quantity |-> q, amount |-> a, currency |-> c]

ValidItems ==
  {Priced(2, 7, "USD"), Priced(1, 55, "EUR"), Priced(3, 30, "RUB"), Priced(1, 1000, "RUB"), Priced(1, 1909, "RUB"),
   Priced(2, 1023, "USD"), Priced(2, 1024, "USD"), Priced(1, 2000, "EUR"), Priced(3, 1500, "RUB")}

InvalidItems ==
  {Priced(0, 7, "USD"), Priced(1, 0, "EUR"), Priced(1, 7, "GBP"),
   [Priced(1, 7, "USD") EXCEPT !.priced = FALSE],
   [Priced(1, 7, "USD") EXCEPT !.identified = FALSE]}

\* Every item on its own, and pairs that add fractions, overflow or are half valid.
SmallBaskets ==
  {<<>>} \cup {<<i>> : i \in ValidItems \cup InvalidItems}
  \cup {<<Priced(3, 30, "RUB"), i>> : i \in ValidItems}
  \cup {<<Priced(2, 1023, "USD"), Priced(1, 7, "USD")>>,
        <<Priced(1, 7, "USD"), Priced(1, 7, "GBP")>>,
        <<Priced(1, 7, "USD"), [Priced(1, 7, "USD") EXCEPT !.priced = FALSE]>>}

Symmetry == Permutations(TwoOrders) \cup Permutations(TwoHandlers)
=============================================================================
