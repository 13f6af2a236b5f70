---------------------------- MODULE PricingProofs ----------------------------
(***************************************************************************)
(* Pricing, proved for baskets of any length and integers of any width.    *)
(*                                                                         *)
(* calcTotalUSD is a loop over the items, so its results are found by      *)
(* induction on the number of items it has behind it: the property is a    *)
(* set of naturals, and a set that holds 0 and with n also n + 1, up to N, *)
(* holds all of 0 .. N (UpTo, from the well-foundedness of the naturals).  *)
(***************************************************************************)
EXTENDS Pricing, WellFoundedInduction, TLAPS

-----------------------------------------------------------------------------
\* A set of naturals that is not empty has a least member.
LEMMA LeastNatural ==
  ASSUME NEW S \in SUBSET Nat, S # {}
  PROVE  \E m \in S : \A k \in S : m <= k
<1> DEFINE Less == OpToRel(<, Nat)
<1>1. \E m \in S : \A k \in S : <<k, m>> \notin Less
  BY NatLessThanWellFounded, WFMin
<1>2. \A k, m \in Nat : <<k, m>> \in Less <=> k < m
  BY DEF OpToRel
<1> HIDE DEF Less
<1>3. PICK m \in S : \A k \in S : <<k, m>> \notin Less
  BY <1>1
<1>4. ASSUME NEW k \in S PROVE m <= k
  <2>1. k \in Nat /\ m \in Nat
    OBVIOUS
  <2>2. ~ (k < m)
    BY <1>2, <1>3, <2>1
  <2> QED
    BY <2>1, <2>2
<1> QED
  BY <1>4

\* Induction up to a bound, with the property as a set.
LEMMA UpTo ==
  ASSUME NEW N \in Nat, NEW S, 0 \in S, \A n \in 0 .. N : n \in S /\ n < N => n + 1 \in S
  PROVE  \A n \in 0 .. N : n \in S
<1> DEFINE Missing == (0 .. N) \ S
<1> SUFFICES ASSUME Missing # {} PROVE FALSE
  OBVIOUS
<1>1. Missing \in SUBSET Nat
  OBVIOUS
<1>2. PICK m \in Missing : \A k \in Missing : m <= k
  BY <1>1, LeastNatural
<1>3. m \in 0 .. N /\ m \notin S /\ m # 0
  OBVIOUS
<1>4. m - 1 \in 0 .. N /\ m - 1 < N /\ (m - 1) + 1 = m
  BY <1>3
<1>5. m - 1 \in S
  BY <1>2, <1>4
<1> QED
  BY <1>3, <1>4, <1>5

-----------------------------------------------------------------------------
\* The loop over the items: what it has after n of them.
LEMMA TotalsOfLoop ==
  ASSUME NEW items, Len(items) \in Nat
  PROVE  /\ RunningTotals(items)[0] = {0}
         /\ \A n \in 1 .. Len(items) :
              RunningTotals(items)[n] =
                {Wrap(sum + usd) : sum \in RunningTotals(items)[n - 1], usd \in LineUSD(items[n])}
<1> DEFINE N == Len(items)
           Next(s, n) == {Wrap(sum + usd) : sum \in s, usd \in LineUSD(items[n])}
           Loop(g, n) == IF n = 0 THEN {0} ELSE Next(g[n - 1], n)
           S == {n \in 0 .. N : \E g : g = [m \in 0 .. n |-> Loop(g, m)]}
<1>1. 0 \in S
  <2> DEFINE g == [m \in 0 .. 0 |-> {0}]
         IsBase(f) == f = [m \in 0 .. 0 |-> Loop(f, m)]
  <2>1. IsBase(g)
    OBVIOUS
  <2>2. \E f : f = [m \in 0 .. 0 |-> Loop(f, m)]
    <3> HIDE DEF g, IsBase
    <3>1. \E f : IsBase(f)
      BY <2>1
    <3> QED
      BY <3>1 DEF IsBase
  <2>3. 0 \in 0 .. N
    OBVIOUS
  <2> HIDE DEF Loop
  <2> QED
    BY <2>2, <2>3
<1>2. ASSUME NEW n \in 0 .. N, n \in S, n < N PROVE n + 1 \in S
  <2>1. PICK g : g = [m \in 0 .. n |-> Loop(g, m)]
    BY <1>2
  <2> DEFINE h == [m \in 0 .. n + 1 |-> IF m = n + 1 THEN Next(g[n], n + 1) ELSE g[m]]
  <2> HIDE DEF Next
  <2>2. ASSUME NEW m \in 0 .. n + 1 PROVE h[m] = Loop(h, m)
    <3>1. CASE m = 0
      BY <2>1, <3>1
    <3>2. CASE m \in 1 .. n
      <4>1. h[m] = g[m] /\ h[m - 1] = g[m - 1]
        BY <3>2
      <4>2. g[m] = Loop(g, m)
        BY <2>1, <3>2
      <4> QED
        BY <3>2, <4>1, <4>2
    <3>3. CASE m = n + 1
      <4>1. h[m] = Next(g[n], n + 1) /\ h[m - 1] = g[n]
        BY <3>3
      <4> QED
        BY <3>3, <4>1
    <3> QED
      BY <3>1, <3>2, <3>3
  <2>3. h = [m \in 0 .. n + 1 |-> Loop(h, m)]
    BY <2>2
  <2>4. n + 1 \in 0 .. N
    BY <1>2
  <2> QED
    BY <2>3, <2>4
<1> HIDE DEF S
<1>3. Len(items) \in S
  <2>1. \A n \in 0 .. N : n \in S /\ n < N => n + 1 \in S
    BY <1>2
  <2>2. \A n \in 0 .. N : n \in S
    BY <1>1, <2>1, UpTo
  <2> QED
    BY <2>2
<1>4. \E g : g = [m \in 0 .. N |-> Loop(g, m)]
  BY <1>3 DEF S
<1>5. RunningTotals(items) = CHOOSE g : g = [m \in 0 .. N |-> Loop(g, m)]
  BY DEF RunningTotals
<1> DEFINE IsLoop(g) == g = [m \in 0 .. N |-> Loop(g, m)]
<1>6. IsLoop(RunningTotals(items))
  <2>1. (\E g : IsLoop(g)) /\ RunningTotals(items) = CHOOSE g : IsLoop(g)
    BY <1>4, <1>5
  <2> HIDE DEF IsLoop
  <2> QED
    BY <2>1
<1>7. RunningTotals(items)[0] = Loop(RunningTotals(items), 0)
  BY <1>6
<1>8. ASSUME NEW n \in 1 .. Len(items)
      PROVE  RunningTotals(items)[n] = Next(RunningTotals(items)[n - 1], n)
  <2>1. n \in 0 .. N /\ n # 0
    OBVIOUS
  <2>2. RunningTotals(items)[n] = Loop(RunningTotals(items), n)
    <3> HIDE DEF Loop
    <3> QED
      BY <1>6, <2>1
  <2> QED
    BY <2>1, <2>2
<1> QED
  BY <1>7, <1>8
\* What a line costs, in thousandths.
LineCost(item) == item.amount * item.quantity * StaticRates[item.currency]

\* The same of the loop that computes the exact total.
LEMMA CostsOfLoop ==
  ASSUME NEW items, Len(items) \in Nat
  PROVE  /\ RunningCosts(items)[0] = 0
         /\ \A n \in 1 .. Len(items) :
              RunningCosts(items)[n] =
                RunningCosts(items)[n - 1] + LineCost(items[n])
<1> DEFINE N == Len(items)
           Next(s, n) == s + LineCost(items[n])
           Loop(g, n) == IF n = 0 THEN 0 ELSE Next(g[n - 1], n)
           S == {n \in 0 .. N : \E g : g = [m \in 0 .. n |-> Loop(g, m)]}
<1>1. 0 \in S
  <2> DEFINE g == [m \in 0 .. 0 |-> 0]
         IsBase(f) == f = [m \in 0 .. 0 |-> Loop(f, m)]
  <2>1. IsBase(g)
    OBVIOUS
  <2>2. \E f : f = [m \in 0 .. 0 |-> Loop(f, m)]
    <3> HIDE DEF g, IsBase
    <3>1. \E f : IsBase(f)
      BY <2>1
    <3> QED
      BY <3>1 DEF IsBase
  <2>3. 0 \in 0 .. N
    OBVIOUS
  <2> HIDE DEF Loop
  <2> QED
    BY <2>2, <2>3
<1>2. ASSUME NEW n \in 0 .. N, n \in S, n < N PROVE n + 1 \in S
  <2>1. PICK g : g = [m \in 0 .. n |-> Loop(g, m)]
    BY <1>2
  <2> DEFINE h == [m \in 0 .. n + 1 |-> IF m = n + 1 THEN Next(g[n], n + 1) ELSE g[m]]
  <2> HIDE DEF Next
  <2>2. ASSUME NEW m \in 0 .. n + 1 PROVE h[m] = Loop(h, m)
    <3>1. CASE m = 0
      BY <2>1, <3>1
    <3>2. CASE m \in 1 .. n
      <4>1. h[m] = g[m] /\ h[m - 1] = g[m - 1]
        BY <3>2
      <4>2. g[m] = Loop(g, m)
        BY <2>1, <3>2
      <4> QED
        BY <3>2, <4>1, <4>2
    <3>3. CASE m = n + 1
      <4>1. h[m] = Next(g[n], n + 1) /\ h[m - 1] = g[n]
        BY <3>3
      <4> QED
        BY <3>3, <4>1
    <3> QED
      BY <3>1, <3>2, <3>3
  <2>3. h = [m \in 0 .. n + 1 |-> Loop(h, m)]
    BY <2>2
  <2>4. n + 1 \in 0 .. N
    BY <1>2
  <2> QED
    BY <2>3, <2>4
<1> HIDE DEF S
<1>3. Len(items) \in S
  <2>1. \A n \in 0 .. N : n \in S /\ n < N => n + 1 \in S
    BY <1>2
  <2>2. \A n \in 0 .. N : n \in S
    BY <1>1, <2>1, UpTo
  <2> QED
    BY <2>2
<1>4. \E g : g = [m \in 0 .. N |-> Loop(g, m)]
  BY <1>3 DEF S
<1>5. RunningCosts(items) = CHOOSE g : g = [m \in 0 .. N |-> Loop(g, m)]
  BY DEF RunningCosts, LineCost
<1> DEFINE IsLoop(g) == g = [m \in 0 .. N |-> Loop(g, m)]
<1>6. IsLoop(RunningCosts(items))
  <2>1. (\E g : IsLoop(g)) /\ RunningCosts(items) = CHOOSE g : IsLoop(g)
    BY <1>4, <1>5
  <2> HIDE DEF IsLoop
  <2> QED
    BY <2>1
<1>7. RunningCosts(items)[0] = Loop(RunningCosts(items), 0)
  BY <1>6
<1>8. ASSUME NEW n \in 1 .. Len(items)
      PROVE  RunningCosts(items)[n] = Next(RunningCosts(items)[n - 1], n)
  <2>1. n \in 0 .. N /\ n # 0
    OBVIOUS
  <2>2. RunningCosts(items)[n] = Loop(RunningCosts(items), n)
    <3> HIDE DEF Loop
    <3> QED
      BY <1>6, <2>1
  <2> QED
    BY <2>1, <2>2
<1> QED
  BY <1>7, <1>8

-----------------------------------------------------------------------------
\* Two's complement: every result is an int64, and what is one stays as it is.
LEMMA Wrapped ==
  /\ \A n \in Int : Wrap(n) \in MinInt .. MaxInt
  /\ \A n \in MinInt .. MaxInt : Wrap(n) = n
<1>1. ASSUME NEW n \in Int PROVE Wrap(n) \in MinInt .. MaxInt
  BY PricingAssumption DEF Wrap, MinInt, MaxInt
<1>2. ASSUME NEW n \in MinInt .. MaxInt PROVE Wrap(n) = n
  BY PricingAssumption DEF Wrap, MinInt, MaxInt
<1> QED
  BY <1>1, <1>2

\* What validateItems lets through.
LEMMA ValidItem ==
  ASSUME NEW items \in Seq(Item(Int, Int, STRING)), validateItems(items),
         NEW n \in 1 .. Len(items)
  PROVE  /\ items[n].quantity \in Nat \ {0} /\ items[n].amount \in Nat \ {0}
         /\ items[n].currency \in {"USD", "EUR", "RUB"}
         /\ StaticRates[items[n].currency] \in {1000, 1090, 11}
         /\ items[n].amount * items[n].quantity \in Nat \ {0}
         /\ LineCost(items[n]) \in Nat \ {0}
<1>1. items[n] \in Item(Int, Int, STRING) /\ n \in DOMAIN items
  OBVIOUS
<1>2. items[n].quantity \in Int /\ items[n].amount \in Int
  BY <1>1 DEF Item
<1>3. items[n].quantity > 0 /\ items[n].amount > 0 /\ items[n].currency \in DOMAIN StaticRates
  BY <1>1 DEF validateItems
<1>4. items[n].currency \in {"USD", "EUR", "RUB"}
  BY <1>3 DEF StaticRates
<1>5. StaticRates[items[n].currency] \in {1000, 1090, 11}
  BY <1>4 DEF StaticRates
<1>6. items[n].amount * items[n].quantity \in Nat \ {0}
  BY <1>2, <1>3
<1>7. LineCost(items[n]) \in Nat \ {0}
  <2>1. PICK p \in Nat \ {0} : p = items[n].amount * items[n].quantity
    BY <1>6
  <2> QED
    BY <1>5, <2>1 DEF LineCost
<1> QED
  BY <1>2, <1>3, <1>4, <1>5, <1>6, <1>7

\* By how much products may be off: by little, and by no more together than
\* apart.
LEMMA OffIsQuotient ==
  ASSUME NEW x \in Nat, NEW p \in Nat, p = Precision
  PROVE  \E q \in Nat : q = Off(x) /\ 2000 * q <= x /\ p * q <= x /\ x < p * (q + 1)
<1>1. p >= 2000
  BY PricingAssumption
<1>2. PICK q \in Nat : q = x \div p /\ p * q <= x /\ x < p * (q + 1)
  <2>1. x \div p \in Nat
    BY <1>1
  <2>2. p * (x \div p) <= x /\ x < p * ((x \div p) + 1)
    BY <1>1
  <2> QED
    BY <2>1, <2>2
<1>3. 2000 * q <= p * q
  BY <1>1
<1>4. 2000 * q <= x
  BY <1>2, <1>3
<1> QED
  BY <1>2, <1>4 DEF Off

LEMMA OffIs ==
  ASSUME NEW x \in Nat
  PROVE  Off(x) \in Nat /\ 2000 * Off(x) <= x
<1>1. PICK p \in Nat : p = Precision
  BY PricingAssumption
<1> QED
  BY <1>1, OffIsQuotient

LEMMA OffIsNatural == \A x \in Nat : Off(x) \in Nat
  BY OffIs

LEMMA OffAdds ==
  ASSUME NEW x \in Nat, NEW y \in Nat
  PROVE  Off(x) + Off(y) <= Off(x + y)
<1>1. PICK p \in Nat : p = Precision /\ p >= 2000
  BY PricingAssumption
<1>2. PICK q \in Nat : q = Off(x) /\ p * q <= x
  BY <1>1, OffIsQuotient
<1>3. PICK r \in Nat : r = Off(y) /\ p * r <= y
  BY <1>1, OffIsQuotient
<1>4. PICK t \in Nat : t = Off(x + y) /\ x + y < p * (t + 1)
  <2>1. PICK s \in Nat : s = x + y
    OBVIOUS
  <2>2. \E t \in Nat : t = Off(s) /\ s < p * (t + 1)
    BY <1>1, OffIsQuotient
  <2> QED
    BY <2>1, <2>2
<1>5. p * (q + r) = p * q + p * r
  OBVIOUS
<1>6. PICK u \in Nat, v \in Nat, w \in Nat : u = p * q /\ v = p * r /\ w = p * (t + 1)
  OBVIOUS
<1>7. u + v < w
  BY <1>2, <1>3, <1>4, <1>6
<1>8. ASSUME t + 1 <= q + r PROVE FALSE
  <2>1. PICK k \in Nat : q + r = (t + 1) + k
    <3>1. (q + r) - (t + 1) \in Nat /\ q + r = (t + 1) + ((q + r) - (t + 1))
      BY <1>8
    <3> QED
      BY <3>1
  <2>2. PICK z \in Nat : z = p * k
    OBVIOUS
  <2>3. p * (q + r) = p * (t + 1) + p * k
    <3>1. p * ((t + 1) + k) = p * (t + 1) + p * k
      OBVIOUS
    <3> QED
      BY <2>1, <3>1
  <2>4. u + v = w + z
    BY <1>5, <1>6, <2>2, <2>3
  <2> QED
    BY <1>7, <2>4
<1>9. q + r <= t
  BY <1>8
<1> QED
  BY <1>2, <1>3, <1>4, <1>9

LEMMA OffGrows ==
  ASSUME NEW x \in Nat, NEW y \in Nat, x <= y
  PROVE  Off(x) <= Off(y)
<1>1. PICK k \in Nat : y = x + k
  <2>1. (y - x) \in Nat /\ y = x + (y - x)
    OBVIOUS
  <2> QED
    BY <2>1
<1>2. Off(x) + Off(k) <= Off(x + k)
  BY OffAdds
<1>3. Off(x) \in Nat /\ Off(k) \in Nat /\ Off(y) \in Nat
  BY OffIs
<1> QED
  BY <1>1, <1>2, <1>3

\* What the conversion cuts off: at most a unit, give or take what the product
\* is off.
LEMMA UnitsCutOff ==
  ASSUME NEW c \in Nat \ {0}, NEW from, NEW u \in Units(c, from)
  PROVE  /\ u \in Nat
         /\ 1000 * u <= c + Off(c)
         /\ c <= 1000 * u + Off(c) + 1000
         /\ u = 0 => c <= 1000
<1>1. PICK f \in Nat : f = Off(c) /\ 2000 * f <= c
  <2>1. c \in Nat
    OBVIOUS
  <2> QED
    BY <2>1, OffIs
<1>2. PICK short \in {0, f + 1} : u \in (c - short) \div 1000 .. (c + f) \div 1000
  BY <1>1 DEF Units
<1>3. PICK l \in Nat, m \in Nat : l = c - short /\ m = c + f /\ c <= l + f + 1
  <2>1. 2000 * f <= c
    BY <1>1
  <2>2. (c - short) \in Nat /\ (c + f) \in Nat /\ c <= (c - short) + f + 1
    BY <2>1
  <2> QED
    BY <2>2
<1>4. u \in l \div 1000 .. m \div 1000
  BY <1>2, <1>3
<1>5. u \in Nat /\ l <= 1000 * u + 999 /\ 1000 * u <= m
  BY <1>4
<1>6. 2000 * f <= c /\ c <= l + f + 1 /\ m = c + f
  BY <1>1, <1>3
<1>7. u \in Nat /\ 1000 * u <= c + f /\ c <= 1000 * u + f + 1000
  BY <1>5, <1>6
<1>8. ASSUME u = 0 PROVE c <= 1000
  BY <1>5, <1>6, <1>8
<1> QED
  BY <1>1, <1>7, <1>8

\* A line that costs less than a unit of the currency that is worth the least.
Petty(item) == item.currency = "RUB" /\ LineCost(item) < 1000

\* A line that fits, in its currency and in US units.
LineFits(item) ==
  /\ Fits(item.amount * item.quantity)
  /\ LineCost(item) + Off(LineCost(item)) <= 1000 * MaxInt + 999

\* What usd says of a line that costs c: never less than nothing.
CloseTo(usd, c) ==
  /\ usd \in Nat
  /\ 1000 * usd <= c + Off(c)
  /\ c <= 1000 * usd + Off(c) + 1000

\* What the conversion of a line that fits can give; it is nothing for petty
\* lines only.
LEMMA LineIsSound ==
  ASSUME NEW items \in Seq(Item(Int, Int, STRING)), validateItems(items),
         NEW n \in 1 .. Len(items), LineFits(items[n]), NEW usd \in LineUSD(items[n])
  PROVE  CloseTo(usd, LineCost(items[n])) /\ (usd = 0 => Petty(items[n]))
<1>1. PICK p \in Nat \ {0} : p = items[n].amount * items[n].quantity
  BY ValidItem
<1>2. LineAmount(items[n]) = p
  BY <1>1, Wrapped DEF LineAmount, LineFits, Fits
<1>3. PICK most \in Nat : most = MaxInt /\ MinInt \in Int /\ MinInt <= 0
  BY PricingAssumption DEF MaxInt, MinInt
<1>4. usd \in ToUSD(p, items[n].currency)
  BY <1>2 DEF LineUSD
<1>5. PICK c \in Nat \ {0} : c = LineCost(items[n])
  BY ValidItem
<1>6. c + Off(c) <= 1000 * most + 999
  BY <1>3, <1>5 DEF LineFits
<1>7. Off(c) \in Nat
  <2>1. c \in Nat
    OBVIOUS
  <2> QED
    BY <2>1, OffIsNatural
<1>8. ASSUME NEW from \in {"EUR", "RUB"}, from = items[n].currency, c = p * StaticRates[from]
      PROVE  usd \in Units(c, from)
  <2>1. PICK u \in Units(c, from) : usd \in Convert(u)
    BY <1>4, <1>8 DEF ToUSD
  <2>2. u \in Nat /\ 1000 * u <= c + Off(c)
    BY <2>1, UnitsCutOff
  <2>3. u <= most
    BY <1>6, <1>7, <2>2
  <2>4. Convert(u) = {u}
    BY <1>3, <2>2, <2>3 DEF Convert, Fits
  <2> QED
    BY <2>1, <2>4
<1>9. CASE items[n].currency = "USD"
  <2>1. usd = p
    BY <1>4, <1>9 DEF ToUSD
  <2>2. c = 1000 * p
    BY <1>1, <1>5, <1>9 DEF LineCost, StaticRates
  <2>3. CloseTo(p, c)
    BY <1>7, <2>2 DEF CloseTo
  <2> QED
    BY <1>5, <2>1, <2>3
<1>10. CASE items[n].currency = "EUR"
  <2>1. c = p * 1090 /\ StaticRates["EUR"] = 1090
    BY <1>1, <1>5, <1>10 DEF LineCost, StaticRates
  <2>2. usd \in Units(c, "EUR")
    BY <1>8, <1>10, <2>1
  <2>3. CloseTo(usd, c) /\ (usd = 0 => c <= 1000)
    BY <2>2, UnitsCutOff DEF CloseTo
  <2>4. c >= 1090
    BY <2>1
  <2>5. usd # 0
    BY <2>3, <2>4
  <2> QED
    BY <1>5, <2>3, <2>5
<1>11. CASE items[n].currency = "RUB"
  <2>1. c = p * 11 /\ StaticRates["RUB"] = 11
    BY <1>1, <1>5, <1>11 DEF LineCost, StaticRates
  <2>2. usd \in Units(c, "RUB")
    BY <1>8, <1>11, <2>1
  <2>3. CloseTo(usd, c) /\ (usd = 0 => c <= 1000)
    BY <2>2, UnitsCutOff DEF CloseTo
  <2>4. c # 1000
    BY <2>1
  <2>5. usd = 0 => c < 1000
    BY <2>3, <2>4
  <2> QED
    BY <1>5, <1>11, <2>3, <2>5 DEF Petty
<1> QED
  BY <1>9, <1>10, <1>11, ValidItem

\* The exact total grows with every item.
LEMMA CostsGrow ==
  ASSUME NEW items \in Seq(Item(Int, Int, STRING)), validateItems(items)
  PROVE  /\ \A n \in 0 .. Len(items) :
              /\ RunningCosts(items)[n] \in Nat
              /\ n > 0 => RunningCosts(items)[n] > 0
              /\ RunningCosts(items)[n] <= ExactTotal(items)
         /\ \A n \in 1 .. Len(items) :
              /\ LineCost(items[n]) \in Nat \ {0}
              /\ RunningCosts(items)[n] = RunningCosts(items)[n - 1] + LineCost(items[n])
<1> DEFINE N == Len(items)
           cost(n) == RunningCosts(items)[n]
<1>1. N \in Nat
  OBVIOUS
<1>2. cost(0) = 0 /\ \A n \in 1 .. N : cost(n) = cost(n - 1) + LineCost(items[n])
  BY <1>1, CostsOfLoop
<1>3. \A n \in 1 .. N : LineCost(items[n]) \in Nat \ {0}
  BY ValidItem
<1> HIDE DEF N, cost
<1>4. ASSUME NEW n \in 0 .. N, n < N
      PROVE  /\ n + 1 \in 1 .. N /\ LineCost(items[n + 1]) \in Nat \ {0}
             /\ cost(n + 1) = cost(n) + LineCost(items[n + 1])
  <2>1. n + 1 \in 1 .. N /\ (n + 1) - 1 = n
    BY <1>1, <1>4
  <2> QED
    BY <1>2, <1>3, <2>1
<1>5. \A n \in 0 .. N : cost(n) \in Nat /\ (n > 0 => cost(n) > 0)
  <2> DEFINE S == {n \in 0 .. N : cost(n) \in Nat /\ (n > 0 => cost(n) > 0)}
  <2>1. 0 \in S
    BY <1>1, <1>2
  <2>2. ASSUME NEW n \in 0 .. N, n \in S, n < N PROVE n + 1 \in S
    BY <1>1, <1>4, <2>2
  <2>3. \A n \in 0 .. N : n \in S
    <3> HIDE DEF S
    <3> QED
      BY <1>1, <2>1, <2>2, UpTo
  <2> QED
    BY <2>3
<1>6. ASSUME NEW n \in 0 .. N PROVE cost(n) <= cost(N)
  <2> DEFINE S == {k \in 0 .. N : n <= k => cost(n) <= cost(k)}
  <2>1. 0 \in S
    <3>1. 0 \in 0 .. N /\ (n <= 0 => n = 0)
      BY <1>1
    <3>2. cost(0) <= cost(0)
      BY <1>2
    <3> QED
      BY <3>1, <3>2
  <2>2. ASSUME NEW k \in 0 .. N, k \in S, k < N PROVE k + 1 \in S
    <3>1. k + 1 \in 0 .. N /\ cost(k) \in Nat /\ cost(k + 1) \in Nat /\ cost(k) <= cost(k + 1)
      BY <1>1, <1>4, <1>5, <2>2
    <3>2. CASE n <= k
      <4>1. cost(n) <= cost(k) /\ cost(n) \in Nat
        BY <1>5, <2>2, <3>2
      <4> QED
        BY <3>1, <4>1
    <3>3. CASE n = k + 1
      BY <3>1, <3>3
    <3>4. CASE n > k + 1
      BY <3>1, <3>4
    <3> QED
      BY <3>2, <3>3, <3>4
  <2>3. \A k \in 0 .. N : k \in S
    <3> HIDE DEF S
    <3> QED
      BY <1>1, <2>1, <2>2, UpTo
  <2>4. N \in 0 .. N /\ n <= N
    BY <1>1
  <2> QED
    BY <2>3, <2>4
<1> QED
  BY <1>2, <1>3, <1>5, <1>6 DEF N, cost, ExactTotal

-----------------------------------------------------------------------------
\* A basket that validateItems accepts costs something in exact arithmetic.
THEOREM PricesArePositive ==
  ASSUME NEW items \in Seq(Item(Int, Int, STRING)), validateItems(items)
  PROVE  ExactTotal(items) \in Nat \ {0}
<1>1. Len(items) \in Nat \ {0}
  BY DEF validateItems
<1>2. Len(items) \in 0 .. Len(items) /\ Len(items) > 0
  BY <1>1
<1> QED
  BY <1>2, CostsGrow DEF ExactTotal

\* The conversion gives a number, whatever an overflow has made of its argument.
LEMMA LineIsNumber ==
  ASSUME NEW items \in Seq(Item(Int, Int, STRING)), validateItems(items),
         NEW n \in 1 .. Len(items), NEW usd \in LineUSD(items[n])
  PROVE  usd \in Int
<1>2. MinInt \in Int /\ MaxInt \in Int
  BY PricingAssumption DEF MinInt, MaxInt
<1>1. PICK a \in Int : a = LineAmount(items[n])
  <2>1. items[n].amount * items[n].quantity \in Int
    BY ValidItem
  <2>2. LineAmount(items[n]) \in MinInt .. MaxInt
    BY <2>1, Wrapped DEF LineAmount
  <2> QED
    BY <1>2, <2>2
<1>3. \A size, from : Units(size, from) \subseteq Int
  BY DEF Units
<1>4. \A u \in Int : Convert(u) \subseteq Int /\ Convert(-u) \subseteq Int
  BY <1>2 DEF Convert
<1> QED
  BY <1>1, <1>3, <1>4 DEF LineUSD, ToUSD

\* The total that calcTotalUSD returns is an int64, also where the sum or a
\* line has wrapped around or the conversion was out of range.
LEMMA TotalsFit ==
  ASSUME NEW items \in Seq(Item(Int, Int, STRING)), validateItems(items)
  PROVE  calcTotalUSD(items) \subseteq MinInt .. MaxInt
<1> DEFINE N == Len(items)
           sums(n) == RunningTotals(items)[n]
           S == {n \in 0 .. N : sums(n) \subseteq MinInt .. MaxInt}
<1>1. N \in Nat
  OBVIOUS
<1>2. sums(0) = {0} /\ \A n \in 1 .. N :
        sums(n) = {Wrap(sum + usd) : sum \in sums(n - 1), usd \in LineUSD(items[n])}
  BY <1>1, TotalsOfLoop
<1>3. MinInt \in Int /\ MaxInt \in Nat /\ 0 \in MinInt .. MaxInt
  BY PricingAssumption DEF MinInt, MaxInt
<1> HIDE DEF sums
<1>4. 0 \in S
  BY <1>1, <1>2, <1>3
<1>5. ASSUME NEW n \in 0 .. N, n \in S, n < N PROVE n + 1 \in S
  <2>1. n + 1 \in 1 .. N /\ n + 1 \in 0 .. N /\ (n + 1) - 1 = n
    BY <1>1, <1>5
  <2>2. sums(n + 1) = {Wrap(sum + usd) : sum \in sums(n), usd \in LineUSD(items[n + 1])}
    BY <1>2, <2>1
  <2>3. ASSUME NEW total \in sums(n), NEW usd \in LineUSD(items[n + 1])
        PROVE  Wrap(total + usd) \in MinInt .. MaxInt
    <3>1. total \in Int
      BY <1>3, <1>5
    <3>2. usd \in Int
      BY <2>1, LineIsNumber
    <3> QED
      BY <3>1, <3>2, Wrapped
  <2> QED
    BY <2>1, <2>2, <2>3
<1>6. \A n \in 0 .. N : n \in S
  <2> HIDE DEF S
  <2> QED
    BY <1>1, <1>4, <1>5, UpTo
<1>7. sums(N) \subseteq MinInt .. MaxInt
  BY <1>1, <1>6
<1> QED
  BY <1>7 DEF sums, calcTotalUSD

\* A sum near what n items cost, and a line near what it costs, make a sum near
\* what both cost.
NearTo(total, cost, n) ==
  /\ total \in Nat
  /\ 1000 * total <= cost + Off(cost)
  /\ cost <= 1000 * total + Off(cost) + 1000 * n

LEMMA SumIsNear ==
  ASSUME NEW c \in Nat, NEW d \in Nat, NEW n \in Nat, NEW sum, NEW usd,
         NearTo(sum, c, n), CloseTo(usd, d)
  PROVE  NearTo(sum + usd, c + d, n + 1)
<1>1. PICK oc \in Nat, od \in Nat : oc = Off(c) /\ od = Off(d)
  BY OffIs
<1>2. PICK oe \in Nat : oe = Off(c + d)
  <2>1. c + d \in Nat
    OBVIOUS
  <2> QED
    BY <2>1, OffIs
<1>3. oc + od <= oe
  BY <1>1, <1>2, OffAdds
<1>4. sum \in Nat /\ 1000 * sum <= c + oc /\ c <= 1000 * sum + oc + 1000 * n
  BY <1>1 DEF NearTo
<1>5. usd \in Nat /\ 1000 * usd <= d + od /\ d <= 1000 * usd + od + 1000
  BY <1>1 DEF CloseTo
<1>6. /\ sum + usd \in Nat
      /\ 1000 * (sum + usd) <= (c + d) + oe
      /\ c + d <= 1000 * (sum + usd) + oe + 1000 * (n + 1)
  BY <1>3, <1>4, <1>5
<1> QED
  BY <1>2, <1>6 DEF NearTo

\* If nothing wraps around, every total the loop has is near what the items so
\* far cost, and it is nothing only if all of them are petty.
LEMMA LoopIsSound ==
  ASSUME NEW items \in Seq(Item(Int, Int, STRING)), validateItems(items), InRange(items),
         NEW total \in calcTotalUSD(items)
  PROVE  /\ NearTo(total, ExactTotal(items), Len(items))
         /\ total = 0 => \A i \in 1 .. Len(items) : Petty(items[i])
<1> DEFINE N == Len(items)
           sums(n) == RunningTotals(items)[n]
           cost(n) == RunningCosts(items)[n]
           Small(s, n) == s = 0 => \A i \in 1 .. n : Petty(items[i])
           S == {n \in 0 .. N : \A s \in sums(n) : NearTo(s, cost(n), n) /\ Small(s, n)}
<1>1. N \in Nat
  OBVIOUS
<1>2. sums(0) = {0} /\ \A n \in 1 .. N :
        sums(n) = {Wrap(sum + usd) : sum \in sums(n - 1), usd \in LineUSD(items[n])}
  <2>1. /\ RunningTotals(items)[0] = {0}
        /\ \A n \in 1 .. Len(items) :
             RunningTotals(items)[n] =
               {Wrap(sum + usd) : sum \in RunningTotals(items)[n - 1], usd \in LineUSD(items[n])}
    <3> HIDE DEF sums, cost, S
    <3> QED
      BY <1>1, TotalsOfLoop
  <2> QED
    BY <2>1
<1>3. /\ \A n \in 0 .. N : cost(n) \in Nat /\ cost(n) <= ExactTotal(items)
      /\ \A n \in 1 .. N : /\ LineCost(items[n]) \in Nat \ {0}
                           /\ cost(n) = cost(n - 1) + LineCost(items[n])
  BY CostsGrow
<1>4. cost(0) = 0
  BY <1>1, CostsOfLoop
<1>5. PICK most \in Nat : most = MaxInt /\ MinInt \in Int /\ MinInt <= 0
  BY PricingAssumption DEF MinInt, MaxInt
<1>6. PICK x \in Nat : x = ExactTotal(items) /\ x + Off(x) <= 1000 * most + 999
  <2>1. ExactTotal(items) \in Nat
    BY PricesArePositive
  <2>2. PICK y \in Nat : y = ExactTotal(items) + Off(ExactTotal(items))
    <3>1. Off(ExactTotal(items)) \in Nat
      BY <2>1, OffIs
    <3> QED
      BY <2>1, <3>1
  <2>3. y \div 1000 <= most
    BY <1>5, <2>2 DEF InRange, Fits, Deviation
  <2>4. y <= 1000 * most + 999
    BY <2>3
  <2> QED
    BY <2>1, <2>2, <2>4
<1>7. ASSUME NEW c \in Nat, c <= x PROVE c + Off(c) <= 1000 * most + 999
  <2>1. PICK oc \in Nat, ox \in Nat : oc = Off(c) /\ ox = Off(x)
    BY OffIsNatural
  <2>2. oc <= ox
    BY <1>7, <2>1, OffGrows
  <2>3. x + ox <= 1000 * most + 999 /\ c <= x
    BY <1>6, <1>7, <2>1
  <2>4. c + oc <= 1000 * most + 999
    BY <2>2, <2>3
  <2> QED
    BY <2>1, <2>4
<1>8. \A n \in 1 .. N : Fits(items[n].amount * items[n].quantity)
  BY DEF InRange
<1> HIDE DEF sums, cost
<1>9. 0 \in S
  <2>1. Off(0) \in Nat
    BY OffIs
  <2>2. NearTo(0, 0, 0)
    BY <2>1 DEF NearTo
  <2> QED
    BY <1>1, <1>2, <1>4, <2>2
<1>10. ASSUME NEW n \in 0 .. N, n \in S, n < N PROVE n + 1 \in S
  <2>1. n + 1 \in 1 .. N /\ n + 1 \in 0 .. N /\ (n + 1) - 1 = n /\ n \in Nat
    BY <1>1, <1>10
  <2>2. sums(n + 1) = {Wrap(sum + usd) : sum \in sums(n), usd \in LineUSD(items[n + 1])}
    BY <1>2, <2>1
  <2>3. PICK c \in Nat, d \in Nat, e \in Nat :
          /\ c = cost(n) /\ d = LineCost(items[n + 1]) /\ e = cost(n + 1)
          /\ e = c + d /\ e <= x
    <3>1. cost(n) \in Nat /\ LineCost(items[n + 1]) \in Nat /\ cost(n + 1) \in Nat
      BY <1>3, <2>1
    <3>2. cost(n + 1) = cost(n) + LineCost(items[n + 1]) /\ cost(n + 1) <= ExactTotal(items)
      BY <1>3, <2>1
    <3> QED
      BY <1>6, <3>1, <3>2
  <2>4. e = c + d /\ e <= x
    BY <2>3
  <2>5. d <= x
    BY <2>4
  <2>6. LineFits(items[n + 1])
    <3>1. d + Off(d) <= 1000 * most + 999
      BY <1>7, <2>5
    <3>2. LineCost(items[n + 1]) + Off(LineCost(items[n + 1])) <= 1000 * MaxInt + 999
      BY <1>5, <2>3, <3>1
    <3> QED
      BY <1>8, <2>1, <3>2 DEF LineFits
  <2>7. ASSUME NEW sum \in sums(n), NEW usd \in LineUSD(items[n + 1])
        PROVE  NearTo(Wrap(sum + usd), e, n + 1) /\ Small(Wrap(sum + usd), n + 1)
    <3>1. NearTo(sum, c, n) /\ Small(sum, n)
      BY <1>10, <2>3
    <3>2. CloseTo(usd, d) /\ (usd = 0 => Petty(items[n + 1]))
      BY <2>1, <2>3, <2>6, LineIsSound
    <3>3. sum \in Nat /\ usd \in Nat
      BY <3>1, <3>2 DEF NearTo, CloseTo
    <3>4. PICK t \in Nat : t = sum + usd
      BY <3>3
    <3>5. NearTo(t, e, n + 1)
      BY <2>1, <2>4, <3>1, <3>2, <3>4, SumIsNear
    <3>6. Wrap(sum + usd) = t
      <4>1. 1000 * t <= e + Off(e) /\ e + Off(e) <= 1000 * most + 999
        BY <1>7, <2>4, <3>5 DEF NearTo
      <4>2. Off(e) \in Nat
        BY OffIsNatural
      <4>3. t <= most
        BY <4>1, <4>2
      <4> QED
        BY <1>5, <3>4, <4>3, Wrapped
    <3>7. Small(t, n + 1)
      <4>1. t = 0 => sum = 0 /\ usd = 0
        BY <3>3, <3>4
      <4>2. \A i \in 1 .. n + 1 : i = n + 1 \/ i \in 1 .. n
        BY <2>1
      <4> QED
        BY <3>1, <3>2, <4>1, <4>2
    <3> QED
      BY <3>5, <3>6, <3>7
  <2>8. ASSUME NEW s \in sums(n + 1) PROVE NearTo(s, cost(n + 1), n + 1) /\ Small(s, n + 1)
    BY <2>2, <2>3, <2>7
  <2> QED
    BY <2>1, <2>8
<1>11. \A n \in 0 .. N : n \in S
  <2> HIDE DEF S
  <2> QED
    BY <1>1, <1>9, <1>10, UpTo
<1>12. NearTo(total, cost(N), N) /\ Small(total, N)
  <2>1. total \in sums(N)
    BY DEF sums, calcTotalUSD
  <2>2. N \in 0 .. N
    BY <1>1
  <2> QED
    BY <1>11, <2>1, <2>2
<1> QED
  BY <1>12 DEF cost, ExactTotal

\* If nothing wraps around, the total is what the items cost, less at most one
\* unit for every line, give or take what float64 products are off: one part in
\* Precision, which is nothing for orders below that many thousandths.
THEOREM TotalsFallShortByLines ==
  ASSUME NEW items \in Seq(Item(Int, Int, STRING)), validateItems(items), InRange(items),
         NEW total \in calcTotalUSD(items)
  PROVE  /\ total \in Nat
         /\ 1000 * total <= ExactTotal(items) + Deviation(items)
         /\ ExactTotal(items) <= 1000 * total + Deviation(items) + 1000 * Len(items)
         /\ ExactTotal(items) < Precision => Deviation(items) = 0
<1>1. ExactTotal(items) < Precision => Deviation(items) = 0
  BY PricesArePositive, PricingAssumption DEF Deviation, Off
<1> QED
  BY <1>1, LoopIsSound DEF NearTo, Deviation

\* If nothing wraps around, the total is nothing only if every line is in the
\* currency worth the least, and costs less than one unit.
THEOREM FreeLinesArePetty ==
  ASSUME NEW items \in Seq(Item(Int, Int, STRING)), validateItems(items), InRange(items),
         0 \in calcTotalUSD(items)
  PROVE  \A i \in 1 .. Len(items) : Petty(items[i])
  BY LoopIsSound
==============================================================================
