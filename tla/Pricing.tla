------------------------------- MODULE Pricing -------------------------------
(***************************************************************************)
(* The price of an order: validateItems, calcTotalUSD and the conversion   *)
(* by static rates, in int64 and float64 arithmetic.  A float64 product is *)
(* known up to a relative error, so an operator whose result depends on    *)
(* its rounding, or on the machine, returns the set of possible results.   *)
(***************************************************************************)
EXTENDS Integers, Sequences

CONSTANTS Half,        \* how many int64 are negative: 2^63 in the code
          Precision    \* the relative error of float64(amount) * rate is below
                       \* 1 / Precision: 2^51, as each of amount, rate and
                       \* product is rounded by less than one part in 2^53

ASSUME PricingAssumption ==
  /\ Half \in Nat \ {0}
  /\ Precision \in Nat /\ Precision >= 2000

MinInt == -Half
MaxInt == Half - 1

Fits(n) == n \in MinInt .. MaxInt

\* Two's complement.
Wrap(n) == ((n + Half) % (2 * Half)) - Half

\* An item as mapProtoItemsDomain finds it: priced is FALSE if the message has
\* no Price, identified is FALSE if the product id is empty.
Item(quantities, amounts, currencies) ==
  [priced : BOOLEAN, identified : BOOLEAN, quantity : quantities, amount : amounts,
   currency : currencies]

\* staticRates, in thousandths; the currencies are those of allowedCurrencies.
StaticRates == [USD |-> 1000, EUR |-> 1090, RUB |-> 11]

\* Variant: `< 0` for `<= 0`.
validateItemsZero(items) ==
  /\ items # <<>>
  /\ \A i \in DOMAIN items :
       /\ items[i].identified
       /\ items[i].quantity >= 0 /\ items[i].amount >= 0
       /\ items[i].currency \in DOMAIN StaticRates

validateItems(items) ==
  /\ items # <<>>
  /\ \A i \in DOMAIN items :
       /\ items[i].identified
       /\ items[i].quantity > 0 /\ items[i].amount > 0
       /\ items[i].currency \in DOMAIN StaticRates

\* The float64 products, in thousandths, lie less than Off(size) + 1 from the
\* exact one.
Off(size) == size \div Precision

\* Variant: rounded up.
UnitsUp(size, from) == {(size + 999) \div 1000}

\* int64(x) cuts off the fraction of a product that should be size thousandths.
\* The float64 next to 0.011 is below it, so a product that should be whole may
\* come out just short of it and lose a unit; the one next to 1.09 is above it.
Units(size, from) ==
  LET short == IF size = 0 \/ (from = "EUR" /\ Off(size) = 0) THEN 0 ELSE Off(size) + 1
  IN  (size - short) \div 1000 .. (size + Off(size)) \div 1000

\* What an integer conversion makes of a product out of range depends on the
\* processor.
Convert(n) == IF Fits(n) THEN {n} ELSE {MinInt, MaxInt}

ToUSD(amount, from) ==
  CASE from = "USD" -> {amount}
    [] from # "USD" /\ amount >= 0 -> UNION {Convert(n) : n \in Units(amount * StaticRates[from], from)}
    [] OTHER -> UNION {Convert(-n) : n \in Units(-amount * StaticRates[from], from)}

\* The product of two int64.
LineAmount(item) == Wrap(item.amount * item.quantity)

LineUSD(item) == ToUSD(LineAmount(item), item.currency)

\* The totals the loop can have after its first n items; ToUSD knows every
\* currency that validateItems lets through.
RunningTotals(items) ==
  LET running[n \in 0 .. Len(items)] ==
        IF n = 0 THEN {0}
        ELSE {Wrap(total + usd) : total \in running[n - 1], usd \in LineUSD(items[n])}
  IN running

calcTotalUSD(items) == RunningTotals(items)[Len(items)]

-----------------------------------------------------------------------------
\* What the first n items cost, in thousandths of a US unit and without a width.
RunningCosts(items) ==
  LET running[n \in 0 .. Len(items)] ==
        IF n = 0 THEN 0
        ELSE running[n - 1] + items[n].amount * items[n].quantity * StaticRates[items[n].currency]
  IN running

ExactTotal(items) == RunningCosts(items)[Len(items)]

\* By how much the float64 products may be off in all.
Deviation(items) == Off(ExactTotal(items))

\* Nothing wraps around: every line fits, in its currency, and so does the sum.
InRange(items) ==
  /\ \A i \in DOMAIN items : Fits(items[i].amount * items[i].quantity)
  /\ Fits((ExactTotal(items) + Deviation(items)) \div 1000)
==============================================================================
